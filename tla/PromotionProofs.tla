-------------------------- MODULE PromotionProofs --------------------------
(***************************************************************************)
(* Theorems about Promotion, for every number of tasks, calls, branches,   *)
(* runs and candidates.                                                    *)
(***************************************************************************)
EXTENDS Promotion, NaturalsInduction, WellFoundedInduction, TLAPS

(***************************************************************************)
(* Prefixes.                                                               *)
(***************************************************************************)

\* A prefix agrees with the sequence at each of its positions.
LEMMA PrefixElements ==
  ASSUME NEW S, NEW s \in Seq(S), NEW t \in Seq(S)
  PROVE  IsPrefix(s, t) <=> Len(s) <= Len(t) /\ \A i \in 1..Len(s) : s[i] = t[i]
  BY DEF IsPrefix

\* A commit contains itself, as a branch contains the candidate at its head.
LEMMA PrefixReflexive == ASSUME NEW S, NEW s \in Seq(S) PROVE IsPrefix(s, s)
  BY PrefixElements

\* What an ancestor contains, a descendant contains.
LEMMA PrefixTransitive ==
  ASSUME NEW S, NEW s \in Seq(S), NEW t \in Seq(S), NEW u \in Seq(S),
         IsPrefix(s, t), IsPrefix(t, u)
  PROVE  IsPrefix(s, u)
  BY PrefixElements, Z3

\* A change pushed on top of a branch takes nothing out of it.
LEMMA PrefixOfAppend ==
  ASSUME NEW S, NEW s \in Seq(S), NEW e \in S
  PROVE  Append(s, e) \in Seq(S) /\ IsPrefix(s, Append(s, e))
<1> DEFINE t == Append(s, e)
<1>1. t \in Seq(S) /\ Len(s) <= Len(t) /\ \A i \in 1..Len(s) : s[i] = t[i]
  OBVIOUS
<1> HIDE DEF t
<1>2. IsPrefix(s, t)
  BY <1>1, PrefixElements
<1> QED BY <1>1, <1>2 DEF t

\* The prefixes of a sequence are sequences over the same elements.
LEMMA PrefixesAreSequences ==
  ASSUME NEW S, NEW s \in Seq(S)
  PROVE  Prefixes(s) \subseteq Seq(S) /\ s \in Prefixes(s) /\ <<>> \in Prefixes(s)
  BY DEF Prefixes

\* The merge base of a candidate is one of its ancestors.
LEMMA MergeBaseIsPrefix ==
  ASSUME NEW S, NEW x \in Seq(S), NEW y \in Seq(S)
  PROVE  mergeBase(x, y) \in Seq(S) /\ IsPrefix(mergeBase(x, y), x)
<1> DEFINE P == CommonPrefixes({x, y})
           longest(p) == \A q \in P : Len(q) <= Len(p)
<1>1. P \subseteq Seq(S) /\ \A p \in P : IsPrefix(p, x)
  BY PrefixesAreSequences DEF CommonPrefixes
<1>2. <<>> \in P
  <2> DEFINE e == <<>>
  <2>0. e \in Seq(S) /\ Len(e) = 0 /\ Len(x) \in Nat /\ Len(y) \in Nat
    OBVIOUS
  <2> HIDE DEF e
  <2>1. ASSUME NEW z \in Seq(S) PROVE IsPrefix(e, z)
    <3>1. Len(e) <= Len(z) /\ \A i \in 1..Len(e) : e[i] = z[i]
      BY <2>0
    <3> QED BY <2>0, <3>1, PrefixElements
  <2> QED BY <2>1, PrefixesAreSequences DEF CommonPrefixes, e
<1>3. \E p \in P : longest(p)
  <2> HIDE DEF P
  <2> DEFINE T == {Len(x) - Len(p) : p \in P}
  <2>1. \A p \in P : Len(p) \in Nat /\ Len(p) <= Len(x)
    BY <1>1, PrefixElements
  <2>2. T \subseteq Nat /\ T # {}
    BY <1>2, <2>1
  <2> DEFINE R == OpToRel(<, Nat)
  <2>3. \A m, n \in Nat : m < n => <<m, n>> \in R
    BY Zenon DEF OpToRel
  <2>4. IsWellFoundedOn(R, Nat)
    BY NatLessThanWellFounded
  <2> HIDE DEF R, T
  <2>5. PICK n \in T : \A m \in T : ~(<<m, n>> \in R)
    BY <2>2, <2>4, WFMin
  <2>6. \A m \in T : n <= m
    <3>1. \A m \in T : m \in Nat /\ n \in Nat /\ ~(m < n)
      BY <2>2, <2>3, <2>5, Zenon
    <3> QED BY <3>1
  <2>7. PICK p \in P : n = Len(x) - Len(p)
    BY <2>5 DEF T
  <2>8. \A q \in P : Len(x) - Len(p) <= Len(x) - Len(q)
    BY <2>6, <2>7 DEF T
  <2>9. longest(p)
    BY <2>1, <2>8
  <2> QED BY <2>9
<1> HIDE DEF P
<1>4. mergeBase(x, y) = CHOOSE p \in P : longest(p)
  BY DEF mergeBase, LongestCommonPrefix, P
<1>5. mergeBase(x, y) \in P
  BY <1>3, <1>4
<1> QED BY <1>1, <1>5

(***************************************************************************)
(* Types. A call only works on a candidate that has a promotion row.       *)
(***************************************************************************)
CallsOK == \A c \in Calls : call[c] # Idle => stage[call[c].candidate] # "none"

\* The empty store is well typed.
LEMMA InitTypeOK == Init => TypeOK /\ CallsOK
<1> SUFFICES ASSUME Init PROVE TypeOK /\ CallsOK
  OBVIOUS
<1>1. 1 \in 1..MaxVersion /\ 1 \in 1..MaxConfig
  BY BoundsAssumption
<1>2. <<>> \in Commit
  BY DEF Commit
<1> QED BY <1>1, <1>2 DEF Init, TypeOK, CallsOK, TaskStatus, Stage, submitted

\* What a submitted worktree has at its head is a commit, and so is its base.
LEMMA SubmittedCommits ==
  ASSUME TypeOK, NEW t \in Tasks, NEW k \in Candidates, NEW s \in startingPoints(t)
  PROVE  /\ {s, Append(s, k)} \subseteq Commit
         /\ \A h \in {s, Append(s, k)} : /\ mergeBase(h, ref[Main]) \in Commit
                                        /\ IsPrefix(mergeBase(h, ref[Main]), h)
<1>1. ref[Main] \in Commit
  BY MainAssumption DEF TypeOK
<1>2. s \in Commit
  <2>1. CASE s \in Prefixes(ref[Main])
    BY <1>1, <2>1, PrefixesAreSequences DEF Commit
  <2>2. CASE \E j \in Candidates : submitted(j) /\ s = sha(j)
    BY <2>2 DEF TypeOK, submitted, sha, Submission
  <2> QED BY <2>1, <2>2 DEF startingPoints
<1>3. k \in 0..MaxCandidates
  BY BoundsAssumption DEF Candidates
<1>4. Append(s, k) \in Commit
  BY <1>2, <1>3, PrefixOfAppend DEF Commit
<1> QED BY <1>1, <1>2, <1>4, MergeBaseIsPrefix DEF Commit

\* The other commands keep the types.
LEMMA OthersTypeOK == TypeOK /\ CallsOK /\ Others => TypeOK' /\ CallsOK'
<1> SUFFICES ASSUME TypeOK, CallsOK, Others PROVE TypeOK' /\ CallsOK'
  OBVIOUS
<1>1. ASSUME NEW t \in Tasks, resubmit(t) \/ reopen(t) \/ redefine(t)
      PROVE  TypeOK' /\ CallsOK'
  BY <1>1, BoundsAssumption
     DEF resubmit, reopen, redefine, TypeOK, CallsOK, rows, TaskStatus, submitted
<1>2. ASSUME NEW t \in Tasks, NEW k \in Candidates, NEW h \in Commit, submit(t, k, h),
             mergeBase(h, ref[Main]) \in Commit
      PROVE  TypeOK' /\ CallsOK'
  <2> DEFINE new == [task |-> t, version |-> task[t].version, sha |-> h,
                     base |-> mergeBase(h, ref[Main])]
  <2>1. new \in Submission
    BY <1>2 DEF TypeOK, Submission
  <2> HIDE DEF new
  <2>2. /\ candidate' = [candidate EXCEPT ![k] = new]
        /\ task' = [task EXCEPT ![t].status = "review"]
        /\ UNCHANGED <<config, ref, run, stage, pinned, verdict, attempt, outcome, receipt, call>>
    BY <1>2 DEF submit, rows, new
  <2>3. \A j \in Candidates : submitted(j) => submitted(j)'
    BY <2>1, <2>2, NoneAssumption DEF TypeOK, submitted
  <2> QED BY <2>1, <2>2, <2>3 DEF TypeOK, CallsOK, TaskStatus
<1>3. ASSUME NEW r \in Runs, NEW k \in Candidates, dispatchReview(r, k)
      PROVE  TypeOK' /\ CallsOK'
  BY <1>3 DEF dispatchReview, TypeOK, CallsOK, rows, Review, submitted
<1>4. ASSUME NEW r \in Runs, NEW v \in Verdict, completeReview(r, v)
      PROVE  TypeOK' /\ CallsOK'
  BY <1>4 DEF completeReview, TypeOK, CallsOK, rows, Review, submitted
<1>5. ASSUME editConfig PROVE TypeOK' /\ CallsOK'
  BY <1>5, BoundsAssumption DEF editConfig, TypeOK, CallsOK, rows, submitted
<1>6. ASSUME NEW b \in Branches, push(b) PROVE TypeOK' /\ CallsOK'
  <2>1. /\ UNCHANGED <<task, config, candidate, run, stage, pinned, verdict, attempt, outcome, receipt, call>>
        /\ \E h \in Commit : ref' = [ref EXCEPT ![b] = h]
    <3>1. Append(ref[b], 0) \in Commit
      BY BoundsAssumption, PrefixOfAppend DEF TypeOK, Commit
    <3>2. \A k \in Candidates : submitted(k) => sha(k) \in Commit
      BY DEF TypeOK, submitted, sha, Submission
    <3> QED BY <1>6, <3>1, <3>2 DEF push, rows
  <2> QED BY <2>1 DEF TypeOK, CallsOK, submitted
<1> QED BY <1>1, <1>2, <1>3, <1>4, <1>5, <1>6, SubmittedCommits DEF Others

\* The record of a call at its next step, and its candidate.
LEMMA CallFields ==
  ASSUME TypeOK, NEW c \in Calls, NEW step \in Step, call[c] # Idle
  PROVE  /\ call[c] \in Promoting /\ call[c].candidate \in Candidates
         /\ call[c].run \in Runs /\ call[c].target \in Branches
         /\ [call[c] EXCEPT !.step = step] \in Promoting
         /\ [call[c] EXCEPT !.step = step].candidate = call[c].candidate
         /\ [call[c] EXCEPT !.step = step].run = call[c].run
         /\ [call[c] EXCEPT !.step = step].target = call[c].target
         /\ [call[c] EXCEPT !.step = step].step = step
  BY DEF TypeOK, Promoting

\* A call at a step is a call in flight.
LEMMA AtStep ==
  ASSUME NEW c \in Calls, NEW step \in Step, at(c, step)
  PROVE  call[c] # Idle
  BY DEF at, Idle, Step

\* A step of a promotion keeps the types.
LEMMA CallsTypeOK ==
  ASSUME TypeOK, CallsOK, NEW c \in Calls,
         \/ Advance(c) \/ abort(c)
         \/ \E k \in Candidates, r \in Runs, b \in Branches : promote(c, k, r, b)
  PROVE  TypeOK' /\ CallsOK'
<1>1. ASSUME NEW k \in Candidates, NEW r \in Runs, NEW b \in Branches, promote(c, k, r, b)
      PROVE  TypeOK' /\ CallsOK'
  <2>1. [step |-> "started", candidate |-> k, run |-> r, target |-> b] \in Promoting
    BY DEF Promoting, Step
  <2>2. /\ UNCHANGED <<task, config, ref, candidate, run, verdict, attempt, outcome, receipt>>
        /\ \A d \in Calls \ {c} : call'[d] = call[d]
        /\ call' \in [Calls -> Promoting \cup {Idle}]
        /\ call'[c].candidate = k
    BY <1>1, <2>1 DEF promote, world, TypeOK
  <2>3. CASE stage[k] = "none"
    <3>1. /\ stage' = [stage EXCEPT ![k] = "created"]
          /\ pinned' = [pinned EXCEPT ![k] = config]
          /\ submitted(k)
      BY <1>1, <2>3 DEF promote
    <3>2. config \in 1..MaxConfig /\ config # None
      BY NoneAssumption DEF TypeOK
    <3> QED BY <2>2, <3>1, <3>2 DEF TypeOK, CallsOK, submitted, Stage
  <2>4. CASE stage[k] # "none"
    <3>1. UNCHANGED <<stage, pinned>>
      BY <1>1, <2>4 DEF promote
    <3> QED BY <2>2, <2>4, <3>1 DEF TypeOK, CallsOK, submitted
  <2> QED BY <2>3, <2>4
<1>2. ASSUME abort(c) PROVE TypeOK' /\ CallsOK'
  BY <1>2 DEF abort, return, TypeOK, CallsOK, world, rows, submitted
<1>3. ASSUME Advance(c) PROVE TypeOK' /\ CallsOK'
  <2>1. call[c] # Idle
    BY <1>3, AtStep DEF Advance, completeChecks, recordValidatedVerdict, judge, resume, verified,
       ensureIntegrationAttempt, startIntegration, forward, recordIntegrationOutcome,
       requireSuccessfulIntegration, closePromotedTask, Step
  <2> DEFINE k == call[c].candidate
  <2>2. k \in Candidates /\ call[c].run \in Runs /\ call[c].target \in Branches /\ stage[k] # "none"
    BY <2>1, CallFields DEF CallsOK, Step
  <2>3. submitted(k) /\ sha(k) \in Commit /\ taskOf(k) \in Tasks
    BY <2>2 DEF TypeOK, submitted, sha, taskOf, Submission
  <2>4. /\ call' \in [Calls -> Promoting \cup {Idle}]
        /\ \A d \in Calls : call'[d] # Idle => call[d] # Idle /\ call'[d].candidate = call[d].candidate
    <3>1. ASSUME NEW step \in Step, goTo(c, step)
          PROVE  /\ call' \in [Calls -> Promoting \cup {Idle}]
                 /\ \A d \in Calls : call'[d] # Idle => call[d] # Idle /\ call'[d].candidate = call[d].candidate
      <4> DEFINE next == [call[c] EXCEPT !.step = step]
      <4>1. next \in Promoting /\ next.candidate = call[c].candidate
        BY <2>1, CallFields
      <4>2. call' = [call EXCEPT ![c] = next]
        BY <3>1 DEF goTo
      <4> HIDE DEF next
      <4> QED BY <2>1, <4>1, <4>2 DEF TypeOK
    <3>2. ASSUME return(c)
          PROVE  /\ call' \in [Calls -> Promoting \cup {Idle}]
                 /\ \A d \in Calls : call'[d] # Idle => call[d] # Idle /\ call'[d].candidate = call[d].candidate
      BY <3>2 DEF return, TypeOK
    <3>3. return(c) \/ \E step \in Step : goTo(c, step)
      BY <1>3 DEF Advance, completeChecks, recordValidatedVerdict, judge, resume, verified,
         ensureIntegrationAttempt, startIntegration, forward, recordIntegrationOutcome,
         requireSuccessfulIntegration, closePromotedTask, Step
    <3> QED BY <3>1, <3>2, <3>3
  <2>5. /\ stage' \in [Candidates -> Stage]
        /\ \A j \in Candidates : stage'[j] = "none" <=> stage[j] = "none"
        /\ verdict' \in [Candidates -> Runs \cup {None}]
        /\ attempt' \in [Candidates -> Intent \cup {None}]
        /\ outcome' \in [Candidates -> Outcome \cup {None}]
        /\ receipt' \in [Candidates -> Receipt \cup {None}]
        /\ task' \in [Tasks -> [status: TaskStatus, version: 1..MaxVersion]]
        /\ ref' \in [Branches -> Commit]
        /\ UNCHANGED <<config, candidate, run, pinned>>
    <3>1. CASE completeChecks(c)
      BY <2>2, <3>1 DEF completeChecks, TypeOK, Stage, world
    <3>2. CASE recordValidatedVerdict(c)
      BY <2>2, <3>2 DEF recordValidatedVerdict, TypeOK, world
    <3>3. CASE judge(c)
      BY <2>2, <3>3 DEF judge, TypeOK, Stage, world
    <3>4. CASE resume(c) \/ verified(c)
      BY <3>4 DEF resume, verified, TypeOK, world, rows
    <3>5. CASE ensureIntegrationAttempt(c)
      <4>1. [target |-> call[c].target, before |-> ref[call[c].target]] \in Intent
        BY <2>2 DEF TypeOK, Intent
      <4> QED BY <2>2, <3>5, <4>1 DEF ensureIntegrationAttempt, TypeOK, world
    <3>6. CASE startIntegration(c)
      BY <2>2, <3>6 DEF startIntegration, TypeOK, Stage, world
    <3>7. CASE forward(c)
      BY <2>2, <2>3, <3>7 DEF forward, fastForwardRef, TypeOK, rows
    <3>8. CASE recordIntegrationOutcome(c)
      BY <2>2, <3>8 DEF recordIntegrationOutcome, integrationObservation, TypeOK, Outcome, world
    <3>9. CASE requireSuccessfulIntegration(c)
      BY <2>2, <3>9 DEF requireSuccessfulIntegration, TypeOK, Stage, world
    <3>10. CASE closePromotedTask(c)
      <4>1. [run |-> call[c].run, target |-> call[c].target] \in Receipt
        BY <2>2 DEF Receipt
      <4>2. [task[taskOf(k)] EXCEPT !.status = "done"] \in [status: TaskStatus, version: 1..MaxVersion]
        BY <2>3 DEF TypeOK, TaskStatus
      <4> QED BY <2>2, <2>3, <3>10, <4>1, <4>2 DEF closePromotedTask, TypeOK, Stage
    <3> QED BY <1>3, <3>1, <3>2, <3>3, <3>4, <3>5, <3>6, <3>7, <3>8, <3>9, <3>10 DEF Advance
  <2>6. TypeOK'
    BY <2>4, <2>5 DEF TypeOK, submitted
  <2>7. \A d \in Calls : call[d] # Idle => call[d].candidate \in Candidates
    BY CallFields DEF Step
  <2>8. CallsOK'
    BY <2>4, <2>5, <2>7 DEF CallsOK
  <2> QED BY <2>6, <2>8
<1> QED BY <1>1, <1>2, <1>3

\* The types are inductive.
LEMMA NextTypeOK == TypeOK /\ CallsOK /\ [Next]_vars => TypeOK' /\ CallsOK'
<1>1. TypeOK /\ CallsOK /\ UNCHANGED vars => TypeOK' /\ CallsOK'
  BY DEF vars, world, rows, TypeOK, CallsOK, submitted
<1> QED BY <1>1, OthersTypeOK, CallsTypeOK DEF Next

\* Every reachable state of the promotion is well typed, and a candidate has its
\* configuration pinned as soon as it has a stage.
THEOREM TypeCorrect == Spec => []TypeOK
<1>1. Spec => [](TypeOK /\ CallsOK)
  BY InitTypeOK, NextTypeOK, PTL DEF Spec
<1> QED BY <1>1, PTL

(***************************************************************************)
(* The inductive invariant.                                                *)
(***************************************************************************)

\* At most one call is between two of its writes.
holdsStore(c) == call[c].step \notin {"idle", "verifying"}
OneWriter == \A c, d \in Calls : holdsStore(c) /\ holdsStore(d) => c = d

\* What a call has established, and nobody undoes while it holds the store.
CallOK(c) ==
  LET k == call[c].candidate IN
  /\ at(c, "checked") => stage[k] # "created" /\ validateReviewerRun(k, call[c].run)
  /\ at(c, "judged") => /\ stage[k] = "checks-completed"
                        /\ verdict[k] = call[c].run
  /\ at(c, "integrating") => stage[k] \in {"approved", "integration-pending"}
  /\ at(c, "attempted") => stage[k] \in {"approved", "integration-pending"} /\ attempt[k] # None
  /\ at(c, "forwarding") \/ at(c, "forwarded") =>
       stage[k] = "integration-pending" /\ attempt[k] # None /\ outcome[k] = None
  /\ at(c, "observed") => stage[k] = "integration-pending" /\ outcome[k] # None
  /\ at(c, "closing") => stage[k] = "integrated"

\* The rows of a candidate: beyond what StageMatchesEvidence says, the verdict is a
\* completed review of the candidate, the attempt starts from its base, its base is
\* an ancestor, and the receipt comes with the stage.
RowOK(k) ==
  /\ evidenceOf(k)
  /\ verdict[k] # None => stage[k] # "none" /\ validateReviewerRun(k, verdict[k])
  /\ attempt[k] # None => attempt[k].before = candidate[k].base
  /\ submitted(k) => IsPrefix(candidate[k].base, sha(k))
  /\ receipt[k] # None <=> stage[k] = "closed"
  /\ receipt[k] # None => task[taskOf(k)].status = "done"

ClosedOnce ==
  \A t \in Tasks : task[t].status = "done" =>
    \E k \in Candidates : \A j \in Candidates :
      receipt[j] # None /\ taskOf(j) = t <=> j = k

Inv ==
  /\ TypeOK /\ CallsOK /\ OneWriter /\ ClosedOnce
  /\ \A c \in Calls : CallOK(c)
  /\ \A k \in Candidates : RowOK(k)

(***************************************************************************)
(* What no step takes back.                                                *)
(***************************************************************************)
Grows ==
  /\ \A k \in Candidates : submitted(k) => candidate'[k] = candidate[k]
  /\ \A k \in Candidates :
       submitted(k)' => submitted(k) \/ IsPrefix(candidate'[k].base, candidate'[k].sha)
  /\ \A r \in Runs : run[r] # None /\ run[r].output # None => run'[r] = run[r]
  /\ \A b \in Branches : IsPrefix(ref[b], ref'[b])
  /\ \A t \in Tasks : task[t].status = "done" => task'[t].status = "done"

\* A branch that a step leaves alone, and one whose head it moves forward.
LEMMA BranchesGrow ==
  ASSUME TypeOK
  PROVE  /\ UNCHANGED ref => \A b \in Branches : IsPrefix(ref[b], ref'[b])
         /\ \A b \in Branches, h \in Commit :
              ref' = [ref EXCEPT ![b] = h] /\ IsPrefix(ref[b], h) =>
                \A x \in Branches : IsPrefix(ref[x], ref'[x])
<1>1. \A b \in Branches : ref[b] \in Commit /\ IsPrefix(ref[b], ref[b])
  BY PrefixReflexive DEF TypeOK, Commit
<1> QED BY <1>1 DEF TypeOK

\* The other commands take nothing back: submissions are immutable, pushes append.
LEMMA OthersGrow == TypeOK /\ Others => Grows
<1> SUFFICES ASSUME TypeOK, Others PROVE Grows
  OBVIOUS
<1>1. ASSUME NEW t \in Tasks, resubmit(t) \/ reopen(t) \/ redefine(t) PROVE Grows
  <2>1. UNCHANGED <<ref, candidate, run>>
    BY <1>1 DEF resubmit, reopen, redefine
  <2>2. \A x \in Tasks : task[x].status = "done" => task'[x].status = "done"
    <3>1. CASE resubmit(t) \/ reopen(t)
      BY <3>1 DEF resubmit, reopen, TypeOK
    <3>2. CASE redefine(t)
      <4>1. task' = [task EXCEPT ![t] = [task[t] EXCEPT !.version = @ + 1]]
        BY <3>2 DEF redefine
      <4>2. [task[t] EXCEPT !.version = @ + 1].status = task[t].status
        BY DEF TypeOK
      <4> QED BY <4>1, <4>2 DEF TypeOK
    <3> QED BY <1>1, <3>1, <3>2
  <2> QED BY <2>1, <2>2, BranchesGrow DEF Grows, submitted
<1>2. ASSUME NEW t \in Tasks, NEW k \in Candidates, NEW h \in Commit, submit(t, k, h),
             IsPrefix(mergeBase(h, ref[Main]), h)
      PROVE  Grows
  <2>1. ~submitted(k)
    BY <1>2 DEF submit, Candidates
  <2>2. /\ candidate' = [candidate EXCEPT ![k] =
             [task |-> t, version |-> task[t].version, sha |-> h, base |-> mergeBase(h, ref[Main])]]
        /\ task[t].status # "done"
        /\ task' = [task EXCEPT ![t].status = "review"]
        /\ UNCHANGED <<ref, run>>
    BY <1>2 DEF submit
  <2>3. /\ \A j \in Candidates : submitted(j) => candidate'[j] = candidate[j]
        /\ \A j \in Candidates :
             submitted(j)' => submitted(j) \/ IsPrefix(candidate'[j].base, candidate'[j].sha)
    BY <1>2, <2>1, <2>2 DEF TypeOK, submitted
  <2> QED BY <2>2, <2>3, BranchesGrow DEF Grows, TypeOK
<1>3. ASSUME NEW r \in Runs, NEW k \in Candidates, dispatchReview(r, k) PROVE Grows
  BY <1>3, BranchesGrow DEF dispatchReview, Grows, submitted, TypeOK
<1>4. ASSUME NEW r \in Runs, NEW v \in Verdict, completeReview(r, v) PROVE Grows
  BY <1>4, BranchesGrow DEF completeReview, Grows, submitted, TypeOK
<1>5. ASSUME editConfig PROVE Grows
  BY <1>5, BranchesGrow DEF editConfig, Grows, submitted
<1>6. ASSUME NEW b \in Branches, push(b) PROVE Grows
  <2>1. \E h \in Commit : IsPrefix(ref[b], h) /\ ref' = [ref EXCEPT ![b] = h]
    <3>1. Append(ref[b], 0) \in Commit /\ IsPrefix(ref[b], Append(ref[b], 0))
      BY BoundsAssumption, PrefixOfAppend DEF TypeOK, Commit
    <3>2. \A k \in Candidates : submitted(k) => sha(k) \in Commit
      BY DEF TypeOK, submitted, sha, Submission
    <3> QED BY <1>6, <3>1, <3>2 DEF push, IsStrictPrefix
  <2>2. UNCHANGED <<task, candidate, run>>
    BY <1>6 DEF push
  <2> QED BY <2>1, <2>2, BranchesGrow DEF Grows, submitted
<1> QED BY <1>1, <1>2, <1>3, <1>4, <1>5, <1>6, SubmittedCommits DEF Others

\* The update-ref of a promotion moves a branch forward, as the attempt starts from
\* the base of the candidate.
LEMMA ForwardGrows ==
  ASSUME Inv, NEW c \in Calls, forward(c)
  PROVE  Grows
<1> DEFINE k == call[c].candidate
<1>1. k \in Candidates /\ submitted(k) /\ attempt[k] # None
  <2>1. call[c] # Idle
    BY AtStep DEF forward, Step
  <2>2. k \in Candidates
    BY <2>1, CallFields DEF Inv, Step
  <2> QED BY <2>1, <2>2 DEF Inv, CallOK, CallsOK, TypeOK, forward
<1>2. attempt[k].target \in Branches /\ sha(k) \in Commit
  BY <1>1 DEF Inv, TypeOK, Intent, submitted, sha, Submission
<1>3. IsPrefix(attempt[k].before, sha(k))
  BY <1>1 DEF Inv, RowOK
<1>4. UNCHANGED <<task, candidate, run>>
  BY DEF forward
<1>5. \A b \in Branches : IsPrefix(ref[b], ref'[b])
  BY <1>1, <1>2, <1>3, BranchesGrow DEF forward, fastForwardRef, Inv
<1> QED BY <1>4, <1>5 DEF Grows, submitted

\* No step takes anything back.
LEMMA NextGrows == Inv /\ [Next]_vars => Grows
<1> SUFFICES ASSUME Inv, [Next]_vars PROVE Grows
  OBVIOUS
<1>1. CASE Others
  BY <1>1, OthersGrow DEF Inv
<1>2. ASSUME NEW c \in Calls, forward(c) PROVE Grows
  BY <1>2, ForwardGrows
<1>3. ASSUME NEW c \in Calls, closePromotedTask(c) PROVE Grows
  BY <1>3, BranchesGrow DEF closePromotedTask, Grows, submitted, Inv, TypeOK
<1>4. ASSUME UNCHANGED world PROVE Grows
  BY <1>4, BranchesGrow DEF world, Grows, submitted, Inv
<1>5. CASE UNCHANGED world \/ Others \/ \E c \in Calls : forward(c) \/ closePromotedTask(c)
  BY <1>1, <1>2, <1>3, <1>4, <1>5
<1>6. UNCHANGED world \/ Others \/ \E c \in Calls : forward(c) \/ closePromotedTask(c)
  BY DEF Next, vars, promote, Advance, abort, completeChecks, recordValidatedVerdict, judge, resume,
     verified, ensureIntegrationAttempt, startIntegration, recordIntegrationOutcome,
     requireSuccessfulIntegration
<1> QED BY <1>5, <1>6

(***************************************************************************)
(* The rows and the calls.                                                 *)
(***************************************************************************)

\* A completed review stays as it is.
LEMMA ReviewsStay ==
  ASSUME Grows, NEW k \in Candidates, NEW r \in Runs, validateReviewerRun(k, r)
  PROVE  run'[r] = run[r] /\ validateReviewerRun(k, r)'
  BY DEF Grows, validateReviewerRun

\* A branch that contains a candidate goes on containing it.
LEMMA LandedStays ==
  ASSUME TypeOK, TypeOK', Grows, NEW k \in Candidates, submitted(k), NEW b \in Branches, contains(b, k)
  PROVE  contains(b, k)'
<1>1. sha(k)' = sha(k) /\ sha(k) \in Commit
  BY DEF Grows, sha, submitted, TypeOK, Submission
<1>2. ref[b] \in Commit /\ ref'[b] \in Commit /\ IsPrefix(ref[b], ref'[b])
  BY DEF Grows, TypeOK
<1> QED BY <1>1, <1>2, PrefixTransitive DEF contains, Commit

\* A candidate that is not submitted has no rows.
LEMMA UnsubmittedHasNoRows ==
  ASSUME Inv, NEW k \in Candidates, ~submitted(k)
  PROVE  /\ stage[k] = "none" /\ verdict[k] = None /\ attempt[k] = None
         /\ outcome[k] = None /\ receipt[k] = None
  BY DEF Inv, TypeOK, RowOK, evidenceOf, approved

sameRow(k) ==
  /\ stage'[k] = stage[k] /\ verdict'[k] = verdict[k] /\ attempt'[k] = attempt[k]
  /\ outcome'[k] = outcome[k] /\ receipt'[k] = receipt[k]

\* The review on record of a candidate says what it said.
LEMMA ApprovalStays ==
  ASSUME Inv, Grows, NEW k \in Candidates, verdict'[k] = verdict[k]
  PROVE  approved(k)' <=> approved(k)
<1>1. CASE verdict[k] = None
  BY <1>1 DEF approved
<1>2. CASE verdict[k] # None
  <2>1. verdict[k] \in Runs /\ validateReviewerRun(k, verdict[k])
    BY <1>2 DEF Inv, RowOK, TypeOK
  <2> QED BY <2>1, ReviewsStay DEF approved, validateReviewerRun
<1> QED BY <1>1, <1>2

\* The rows of a candidate stay right as long as nobody writes them.
LEMMA RowStaysOK ==
  ASSUME Inv, TypeOK', Grows, NEW k \in Candidates, sameRow(k)
  PROVE  RowOK(k)'
<1>1. CASE ~submitted(k)
  <2>1. /\ stage'[k] = "none" /\ verdict'[k] = None /\ attempt'[k] = None
        /\ outcome'[k] = None /\ receipt'[k] = None
    BY <1>1, UnsubmittedHasNoRows DEF sameRow
  <2>2. evidenceOf(k)'
    BY <2>1, NoneAssumption DEF evidenceOf, Outcome
  <2>3. submitted(k)' => IsPrefix(candidate'[k].base, candidate'[k].sha)
    BY <1>1 DEF Grows
  <2> QED BY <2>1, <2>2, <2>3 DEF RowOK, sha
<1>2. CASE submitted(k)
  <2>1. candidate'[k] = candidate[k] /\ taskOf(k) \in Tasks
    BY <1>2 DEF Grows, Inv, TypeOK, submitted, taskOf, Submission
  <2>2. approved(k)' <=> approved(k)
    BY ApprovalStays DEF sameRow
  <2>3. outcome[k] = "succeeded" => contains(attempt[k].target, k)'
    <3>1. SUFFICES ASSUME outcome[k] = "succeeded" PROVE contains(attempt[k].target, k)'
      OBVIOUS
    <3>2. attempt[k] # None /\ contains(attempt[k].target, k)
      BY <3>1, NoneAssumption DEF Inv, RowOK, evidenceOf, Outcome
    <3>3. attempt[k].target \in Branches
      BY <3>2 DEF Inv, TypeOK, Intent
    <3>4. PICK b \in Branches : b = attempt[k].target
      BY <3>3
    <3>5. contains(b, k)'
      BY <1>2, <3>2, <3>4, LandedStays DEF Inv
    <3> QED BY <3>4, <3>5 DEF sameRow, contains
  <2>4. evidenceOf(k)'
    BY <2>2, <2>3 DEF Inv, RowOK, evidenceOf, sameRow, contains
  <2>5. verdict'[k] # None => stage'[k] # "none" /\ validateReviewerRun(k, verdict[k])'
    BY ReviewsStay DEF Inv, RowOK, TypeOK, sameRow
  <2>6. receipt'[k] # None => task'[taskOf(k)].status = "done"
    BY <2>1 DEF Inv, RowOK, Grows, sameRow
  <2> QED BY <1>2, <2>1, <2>4, <2>5, <2>6 DEF Inv, RowOK, sameRow, submitted, sha, taskOf, validateReviewerRun
<1> QED BY <1>1, <1>2

\* While a call holds the store, no other call does.
LEMMA StoreIsHeld ==
  ASSUME Inv, NEW c \in Calls,
         \/ Advance(c)
         \/ \E k \in Candidates, r \in Runs, b \in Branches : promote(c, k, r, b)
  PROVE  \A d \in Calls \ {c} : ~holdsStore(d) /\ call'[d] = call[d]
<1>1. storeIsFree \/ holdsStore(c)
  BY DEF Advance, completeChecks, recordValidatedVerdict, judge, resume, verified,
     ensureIntegrationAttempt, startIntegration, forward, recordIntegrationOutcome,
     requireSuccessfulIntegration, closePromotedTask, promote, at, holdsStore
<1>2. \A d \in Calls \ {c} : ~holdsStore(d)
  BY <1>1 DEF Inv, OneWriter, storeIsFree, holdsStore
<1>3. \A d \in Calls \ {c} : call'[d] = call[d]
  BY DEF Advance, completeChecks, recordValidatedVerdict, judge, resume, verified,
     ensureIntegrationAttempt, startIntegration, forward, recordIntegrationOutcome,
     requireSuccessfulIntegration, closePromotedTask, promote, goTo, return, Inv, TypeOK
<1> QED BY <1>2, <1>3

\* A call that does not hold the store relies on nothing.
LEMMA FreeCallIsOK ==
  ASSUME NEW c \in Calls, ~holdsStore(c)
  PROVE  CallOK(c)
  BY DEF CallOK, holdsStore, at

\* The candidate of a call that is at one of its steps, and its rows.
LEMMA CallInFlight ==
  ASSUME Inv, NEW c \in Calls, Advance(c)
  PROVE  /\ call[c] # Idle
         /\ call[c].candidate \in Candidates /\ call[c].run \in Runs /\ call[c].target \in Branches
         /\ submitted(call[c].candidate)
         /\ stage[call[c].candidate] # "none"
<1>1. call[c] # Idle
  BY AtStep DEF Advance, completeChecks, recordValidatedVerdict, judge, resume, verified,
     ensureIntegrationAttempt, startIntegration, forward, recordIntegrationOutcome,
     requireSuccessfulIntegration, closePromotedTask, Step
<1>2. "started" \in Step /\ TypeOK
  BY DEF Step, Inv
<1>3. call[c].candidate \in Candidates /\ call[c].run \in Runs /\ call[c].target \in Branches
  BY <1>1, <1>2, CallFields
<1>4. stage[call[c].candidate] # "none"
  BY <1>1 DEF Inv, CallsOK
<1>5. submitted(call[c].candidate)
  BY <1>2, <1>3, <1>4 DEF TypeOK
<1> QED BY <1>1, <1>3, <1>4, <1>5

\* A call writes the rows of its own candidate only.
LEMMA OtherRowsStay ==
  ASSUME Inv, NEW c \in Calls, Advance(c), NEW j \in Candidates, j # call[c].candidate
  PROVE  sameRow(j)
  BY CallInFlight DEF Advance, completeChecks, recordValidatedVerdict, judge, resume, verified,
     ensureIntegrationAttempt, startIntegration, forward, recordIntegrationOutcome,
     requireSuccessfulIntegration, closePromotedTask, rows, sameRow, Inv, TypeOK

\* Where a call is after a step.
LEMMA AtAfter ==
  ASSUME TypeOK, NEW c \in Calls, call[c] # Idle, NEW step \in Step, goTo(c, step)
  PROVE  /\ call'[c].step = step
         /\ call'[c].candidate = call[c].candidate
         /\ call'[c].run = call[c].run
<1> DEFINE next == [call[c] EXCEPT !.step = step]
<1>1. /\ next.step = step /\ next.candidate = call[c].candidate /\ next.run = call[c].run
  BY CallFields
<1>2. call' = [call EXCEPT ![c] = next]
  BY DEF goTo
<1> HIDE DEF next
<1> QED BY <1>1, <1>2 DEF TypeOK

\* A call that ended relies on nothing.
LEMMA EndedCallIsOK ==
  ASSUME TypeOK, NEW c \in Calls, return(c)
  PROVE  CallOK(c)'
  BY DEF return, TypeOK, CallOK, at, Idle

\* What a step leaves of a submitted candidate, its review and its landing.
LEMMA SubmittedStays ==
  ASSUME Inv, TypeOK', Grows, NEW k \in Candidates, submitted(k)
  PROVE  /\ submitted(k)' /\ candidate'[k] = candidate[k]
         /\ IsPrefix(candidate'[k].base, sha(k)')
         /\ task[taskOf(k)].status = "done" => task'[taskOf(k)'].status = "done"
         /\ \A r \in Runs : validateReviewerRun(k, r) => run'[r] = run[r] /\ validateReviewerRun(k, r)'
         /\ \A b \in Branches : contains(b, k) => contains(b, k)'
<1>1. candidate'[k] = candidate[k] /\ taskOf(k) \in Tasks /\ IsPrefix(candidate[k].base, sha(k))
  BY DEF Grows, Inv, RowOK, TypeOK, submitted, taskOf, Submission
<1>2. task[taskOf(k)].status = "done" => task'[taskOf(k)'].status = "done"
  BY <1>1 DEF Grows, taskOf
<1> QED BY <1>1, <1>2, ReviewsStay, LandedStays DEF Inv, submitted, sha

\* The judgement of a candidate.
LEMMA JudgingIsOK ==
  ASSUME Inv, TypeOK', Grows, NEW c \in Calls, NEW k \in Candidates, k = call[c].candidate,
         completeChecks(c) \/ recordValidatedVerdict(c) \/ judge(c) \/ resume(c) \/ verified(c)
  PROVE  RowOK(k)' /\ CallOK(c)'
<1>1. submitted(k) /\ call[c].run \in Runs /\ call[c] # Idle
  BY CallInFlight DEF Advance
<1>2. RowOK(k) /\ TypeOK
  BY <1>1 DEF Inv
<1>3. CASE completeChecks(c)
  <2>1. /\ validateReviewerRun(k, call[c].run)
        /\ stage' = [stage EXCEPT ![k] = IF @ = "created" THEN "checks-completed" ELSE @]
        /\ goTo(c, "checked")
        /\ UNCHANGED <<task, config, ref, candidate, run, verdict, attempt, outcome, receipt>>
    BY <1>3 DEF completeChecks, world
  <2>2. stage'[k] = IF stage[k] = "created" THEN "checks-completed" ELSE stage[k]
    BY <1>1, <1>2, <2>1 DEF TypeOK
  <2>3. RowOK(k)'
    <3>1. stage'[k] = stage[k] \/ (stage[k] = "created" /\ stage'[k] = "checks-completed")
      BY <2>2
    <3>2. approved(k)' <=> approved(k)
      BY <2>1 DEF approved, validateReviewerRun
    <3>3. \A b : contains(b, k)' <=> contains(b, k)
      BY <2>1 DEF contains, sha
    <3>4. evidenceOf(k)'
      BY <1>2, <2>1, <3>1, <3>2, <3>3 DEF RowOK, evidenceOf
    <3> QED BY <1>2, <2>1, <3>1, <3>4 DEF RowOK, validateReviewerRun, sha, submitted, taskOf
  <2>4. CallOK(c)'
    BY <1>1, <1>2, <2>1, <2>2, AtAfter DEF CallOK, at, Step, validateReviewerRun
  <2> QED BY <2>3, <2>4
<1>4. CASE recordValidatedVerdict(c)
  <2>1. /\ stage[k] = "checks-completed" /\ validateReviewerRun(k, call[c].run)
        /\ verdict' = [verdict EXCEPT ![k] = call[c].run]
        /\ goTo(c, "judged")
        /\ UNCHANGED <<task, config, ref, candidate, run, stage, attempt, outcome, receipt>>
    BY <1>4 DEF recordValidatedVerdict, world, Inv, CallOK
  <2>2. verdict'[k] = call[c].run
    BY <1>1, <1>2, <2>1 DEF TypeOK
  <2>3. verdict[k] \in {None, call[c].run} /\ (verdict[k] = None => ~approved(k))
    BY <1>4 DEF recordValidatedVerdict, approved
  <2>4. RowOK(k)'
    BY <1>2, <2>1, <2>2, <2>3 DEF RowOK, evidenceOf, approved, validateReviewerRun, contains, sha, submitted, taskOf
  <2>5. CallOK(c)'
    BY <1>1, <1>2, <2>1, <2>2, AtAfter DEF CallOK, at, Step
  <2> QED BY <2>4, <2>5
<1>5. CASE judge(c)
  <2>1. /\ stage[k] = "checks-completed" /\ verdict[k] = call[c].run /\ verdict[k] # None
        /\ validateReviewerRun(k, verdict[k])
        /\ UNCHANGED <<task, config, ref, candidate, run, verdict, attempt, outcome, receipt>>
    BY <1>1, <1>2, <1>5, NoneAssumption DEF judge, world, Inv, CallOK, RowOK
  <2>2. CASE run[call[c].run].output = "approve"
    <3>1. stage'[k] = "approved" /\ goTo(c, "verifying") /\ approved(k)
      BY <1>1, <1>2, <1>5, <2>1, <2>2 DEF judge, TypeOK, approved
    <3>2. RowOK(k)'
      BY <1>2, <2>1, <3>1 DEF RowOK, evidenceOf, approved, validateReviewerRun, contains, sha, submitted, taskOf
    <3> QED BY <1>1, <1>2, <3>1, <3>2, AtAfter DEF CallOK, at, Step
  <2>3. CASE run[call[c].run].output # "approve"
    <3>1. stage'[k] = "rejected" /\ return(c) /\ ~approved(k)
      BY <1>1, <1>2, <1>5, <2>1, <2>3 DEF judge, TypeOK, approved
    <3>2. RowOK(k)'
      BY <1>2, <2>1, <3>1 DEF RowOK, evidenceOf, approved, validateReviewerRun, contains, sha, submitted, taskOf
    <3> QED BY <1>2, <3>1, <3>2, EndedCallIsOK
  <2> QED BY <2>2, <2>3
<1>6. CASE resume(c) \/ verified(c)
  <2>1. sameRow(k) /\ UNCHANGED stage
    BY <1>6 DEF resume, verified, rows, sameRow
  <2>2. CallOK(c)'
    BY <1>1, <1>2, <1>6, <2>1, AtAfter DEF CallOK, at, Step, resume, verified
  <2> QED BY <1>1, <2>1, <2>2, RowStaysOK
<1> QED BY <1>3, <1>4, <1>5, <1>6

\* The integration of a candidate and the closing of its task.
LEMMA IntegratingIsOK ==
  ASSUME Inv, TypeOK', Grows, NEW c \in Calls, NEW k \in Candidates, k = call[c].candidate,
         \/ ensureIntegrationAttempt(c) \/ startIntegration(c) \/ forward(c)
         \/ recordIntegrationOutcome(c) \/ requireSuccessfulIntegration(c) \/ closePromotedTask(c)
  PROVE  RowOK(k)' /\ CallOK(c)'
<1>1. submitted(k) /\ call[c].run \in Runs /\ call[c].target \in Branches /\ call[c] # Idle
  BY CallInFlight DEF Advance
<1>2. RowOK(k) /\ TypeOK /\ CallOK(c)
  BY <1>1 DEF Inv
<1>3. CASE ensureIntegrationAttempt(c)
  <2>1. /\ stage[k] \in {"approved", "integration-pending"}
        /\ goTo(c, "attempted")
        /\ UNCHANGED <<task, config, ref, candidate, run, stage, verdict, outcome, receipt>>
    BY <1>2, <1>3 DEF ensureIntegrationAttempt, world, CallOK
  <2>2. attempt'[k] # None /\ attempt'[k].before = candidate[k].base
        /\ (attempt[k] # None => attempt'[k] = attempt[k])
    <3>1. CASE attempt[k] = None
      <4> DEFINE intent == [target |-> call[c].target, before |-> ref[call[c].target]]
      <4>1. intent \in Intent /\ intent # None
        BY <1>1, <1>2, NoneAssumption DEF TypeOK, Intent
      <4>2. attempt' = [attempt EXCEPT ![k] = intent] /\ intent.before = candidate[k].base
        BY <1>3, <3>1 DEF ensureIntegrationAttempt
      <4> HIDE DEF intent
      <4> QED BY <1>2, <3>1, <4>1, <4>2 DEF TypeOK
    <3>2. CASE attempt[k] # None
      BY <1>2, <1>3, <3>2 DEF ensureIntegrationAttempt, RowOK
    <3> QED BY <3>1, <3>2
  <2>3. outcome[k] # None => attempt[k] # None
    BY <1>2 DEF RowOK, evidenceOf
  <2>4. outcome[k] = "succeeded" => outcome[k] # None
    BY NoneAssumption DEF Outcome
  <2>5. RowOK(k)'
    BY <1>2, <2>1, <2>2, <2>3, <2>4
       DEF RowOK, evidenceOf, approved, validateReviewerRun, contains, sha, submitted, taskOf
  <2> QED BY <1>1, <1>2, <2>1, <2>2, <2>5, AtAfter DEF CallOK, at, Step
<1>4. CASE startIntegration(c)
  <2>1. /\ stage[k] \in {"approved", "integration-pending"} /\ attempt[k] # None
        /\ stage'[k] = "integration-pending"
        /\ goTo(c, IF outcome[k] = None THEN "forwarding" ELSE "observed")
        /\ UNCHANGED <<task, config, ref, candidate, run, verdict, attempt, outcome, receipt>>
    BY <1>2, <1>4 DEF startIntegration, world, CallOK, TypeOK
  <2>2. RowOK(k)'
    BY <1>2, <2>1 DEF RowOK, evidenceOf, approved, validateReviewerRun, contains, sha, submitted, taskOf
  <2>3. CASE outcome[k] = None
    BY <1>1, <1>2, <2>1, <2>2, <2>3, AtAfter DEF CallOK, at, Step
  <2>4. CASE outcome[k] # None
    BY <1>1, <1>2, <2>1, <2>2, <2>4, AtAfter DEF CallOK, at, Step
  <2> QED BY <2>3, <2>4
<1>5. CASE forward(c)
  <2>1. sameRow(k) /\ stage[k] = "integration-pending" /\ attempt[k] # None /\ outcome[k] = None
        /\ goTo(c, "forwarded")
    BY <1>2, <1>5 DEF forward, rows, sameRow, CallOK
  <2>2. CallOK(c)'
    BY <1>1, <1>2, <2>1, AtAfter DEF CallOK, at, Step, sameRow
  <2> QED BY <2>1, <2>2, RowStaysOK
<1>6. CASE recordIntegrationOutcome(c)
  <2>1. /\ stage[k] = "integration-pending" /\ attempt[k] # None
        /\ goTo(c, "observed")
        /\ UNCHANGED <<task, config, ref, candidate, run, stage, verdict, attempt, receipt>>
        /\ outcome'[k] \in {integrationObservation(k), "unknown"}
    BY <1>2, <1>6 DEF recordIntegrationOutcome, world, CallOK, TypeOK
  <2>2. outcome'[k] # None /\ (outcome'[k] = "succeeded" => ref[attempt[k].target] = sha(k))
    BY <2>1, NoneAssumption DEF integrationObservation, Outcome
  <2>3. IsPrefix(sha(k), sha(k))
    BY <1>1, <1>2, PrefixReflexive DEF TypeOK, submitted, sha, Submission, Commit
  <2>4. RowOK(k)'
    BY <1>2, <2>1, <2>2, <2>3
       DEF RowOK, evidenceOf, approved, validateReviewerRun, contains, sha, submitted, taskOf
  <2> QED BY <1>1, <1>2, <2>1, <2>2, <2>4, AtAfter DEF CallOK, at, Step
<1>7. CASE requireSuccessfulIntegration(c)
  <2>1. /\ stage[k] = "integration-pending" /\ outcome[k] \in Outcome
        /\ UNCHANGED <<task, config, ref, candidate, run, verdict, attempt, outcome, receipt>>
    BY <1>2, <1>7 DEF requireSuccessfulIntegration, world, CallOK, TypeOK
  <2>2. CASE outcome[k] = "succeeded"
    <3>1. stage'[k] = "integrated" /\ goTo(c, "closing")
      BY <1>2, <1>7, <2>2 DEF requireSuccessfulIntegration, TypeOK
    <3>2. RowOK(k)'
      BY <1>2, <2>1, <2>2, <3>1
         DEF RowOK, evidenceOf, approved, validateReviewerRun, contains, sha, submitted, taskOf
    <3> QED BY <1>1, <1>2, <3>1, <3>2, AtAfter DEF CallOK, at, Step
  <2>3. CASE outcome[k] # "succeeded"
    <3>1. stage'[k] = "blocked" /\ return(c) /\ outcome[k] \in {"failed", "unknown"}
      BY <1>2, <1>7, <2>1, <2>3 DEF requireSuccessfulIntegration, TypeOK, Outcome
    <3>2. RowOK(k)'
      BY <1>2, <2>1, <3>1
         DEF RowOK, evidenceOf, approved, validateReviewerRun, contains, sha, submitted, taskOf
    <3> QED BY <1>2, <3>1, <3>2, EndedCallIsOK
  <2> QED BY <2>2, <2>3
<1>8. CASE closePromotedTask(c)
  <2>1. /\ stage[k] = "integrated" /\ stage'[k] = "closed" /\ receipt'[k] # None
        /\ UNCHANGED <<ref, candidate, run, verdict, attempt, outcome>>
        /\ task'[taskOf(k)].status = "done"
        /\ return(c)
    <3> DEFINE new == [run |-> call[c].run, target |-> call[c].target]
    <3>1. new # None
      BY <1>1, NoneAssumption DEF Receipt
    <3>2. receipt' = [receipt EXCEPT ![k] = new]
      BY <1>8 DEF closePromotedTask
    <3> HIDE DEF new
    <3>3. taskOf(k) \in Tasks
      BY <1>1, <1>2 DEF TypeOK, submitted, taskOf, Submission
    <3>4. task'[taskOf(k)].status = "done"
      BY <1>2, <1>8, <3>3 DEF closePromotedTask, TypeOK
    <3> QED BY <1>2, <1>8, <3>1, <3>2, <3>4 DEF closePromotedTask, TypeOK
  <2>2. RowOK(k)'
    BY <1>2, <2>1 DEF RowOK, evidenceOf, approved, validateReviewerRun, contains, sha, submitted, taskOf
  <2> QED BY <1>2, <2>1, <2>2, EndedCallIsOK
<1> QED BY <1>3, <1>4, <1>5, <1>6, <1>7, <1>8

\* The commands on tasks make none done and write no receipt.
LEMMA EditsCloseNothing ==
  ASSUME Inv, NEW t \in Tasks,
         \/ resubmit(t) \/ reopen(t) \/ redefine(t)
         \/ \E k \in Candidates, h \in Commit : submit(t, k, h)
  PROVE  UNCHANGED receipt /\ \A x \in Tasks : task'[x].status = "done" => task[x].status = "done"
<1>1. CASE ~redefine(t)
  BY <1>1 DEF resubmit, reopen, submit, rows, Inv, TypeOK
<1>2. CASE redefine(t)
  <2> DEFINE new == [task[t] EXCEPT !.version = @ + 1]
  <2>1. new.status = task[t].status
    BY DEF Inv, TypeOK
  <2>2. task' = [task EXCEPT ![t] = new]
    BY <1>2 DEF redefine
  <2> HIDE DEF new
  <2> QED BY <1>2, <2>1, <2>2 DEF redefine, rows, Inv, TypeOK
<1> QED BY <1>1, <1>2

\* Only the closing of a promoted task makes a task done or writes a receipt.
LEMMA OnlyClosingCloses ==
  ASSUME Inv, [Next]_vars, ~\E c \in Calls : closePromotedTask(c)
  PROVE  UNCHANGED receipt /\ \A t \in Tasks : task'[t].status = "done" => task[t].status = "done"
<1>1. CASE UNCHANGED <<task, receipt>>
  BY <1>1
<1>2. \/ UNCHANGED <<task, receipt>>
      \/ \E t \in Tasks : \/ resubmit(t) \/ reopen(t) \/ redefine(t)
                          \/ \E k \in Candidates, h \in Commit : submit(t, k, h)
  <2>1. CASE Others
    BY <2>1, SubmittedCommits DEF Inv, Others, dispatchReview, completeReview, editConfig, push, rows
  <2>2. CASE ~Others
    BY <2>2 DEF Next, vars, world, rows, promote, Advance, abort, completeChecks,
       recordValidatedVerdict, judge, resume, verified, ensureIntegrationAttempt, startIntegration,
       forward, recordIntegrationOutcome, requireSuccessfulIntegration
  <2> QED BY <2>1, <2>2
<1> QED BY <1>1, <1>2, EditsCloseNothing

\* A receipt is of a submitted candidate, which keeps its task.
LEMMA ReceiptsStay ==
  ASSUME Inv, Grows, NEW k \in Candidates, receipt[k] # None
  PROVE  submitted(k) /\ taskOf(k)' = taskOf(k) /\ taskOf(k) \in Tasks
                      /\ task[taskOf(k)].status = "done"
<1>1. submitted(k)
  BY UnsubmittedHasNoRows
<1> QED BY <1>1 DEF Grows, Inv, RowOK, TypeOK, submitted, taskOf, Submission

\* A task is closed by one candidate only: one under review has no receipt yet.
LEMMA ClosedOnceStays == Inv /\ Grows /\ [Next]_vars => ClosedOnce'
<1> SUFFICES ASSUME Inv, Grows, [Next]_vars, NEW t \in Tasks, task'[t].status = "done"
             PROVE  \E k \in Candidates : \A j \in Candidates :
                      receipt'[j] # None /\ taskOf(j)' = t <=> j = k
  BY DEF ClosedOnce
<1>1. ASSUME task[t].status = "done",
             \A j \in Candidates : receipt'[j] # None /\ taskOf(j)' = t <=> receipt[j] # None /\ taskOf(j) = t
      PROVE  \E k \in Candidates : \A j \in Candidates :
               receipt'[j] # None /\ taskOf(j)' = t <=> j = k
  BY <1>1, Zenon DEF Inv, ClosedOnce
<1>2. CASE ~\E c \in Calls : closePromotedTask(c)
  <2>1. UNCHANGED receipt /\ task[t].status = "done"
    BY <1>2, OnlyClosingCloses
  <2> QED BY <1>1, <2>1, ReceiptsStay
<1>3. ASSUME NEW c \in Calls, closePromotedTask(c)
      PROVE  \E k \in Candidates : \A j \in Candidates :
               receipt'[j] # None /\ taskOf(j)' = t <=> j = k
  <2>1. PICK k \in Candidates : k = call[c].candidate
    BY <1>3, CallInFlight DEF Advance
  <2>2. submitted(k) /\ call[c].run \in Runs /\ call[c].target \in Branches
    BY <1>3, <2>1, CallInFlight DEF Advance
  <2>3. taskOf(k) \in Tasks /\ UNCHANGED candidate /\ task[taskOf(k)].status = "review"
        /\ task' = [task EXCEPT ![taskOf(k)].status = "done"]
    BY <1>3, <2>1, <2>2 DEF closePromotedTask, Inv, TypeOK, submitted, taskOf, Submission
  <2>4. \A j \in Candidates : receipt'[j] # None <=> receipt[j] # None \/ j = k
    <3> DEFINE new == [run |-> call[c].run, target |-> call[c].target]
    <3>1. new # None
      BY <2>2, NoneAssumption DEF Receipt
    <3>2. receipt' = [receipt EXCEPT ![k] = new]
      BY <1>3, <2>1 DEF closePromotedTask
    <3> HIDE DEF new
    <3> QED BY <3>1, <3>2 DEF Inv, TypeOK
  <2>5. \A j \in Candidates : receipt[j] # None => taskOf(j) # taskOf(k)
    BY <2>3, ReceiptsStay
  <2>6. \A j \in Candidates : taskOf(j)' = taskOf(j)
    BY <2>3 DEF taskOf
  <2>7. CASE t = taskOf(k)
    BY <2>4, <2>5, <2>6, <2>7
  <2>8. CASE t # taskOf(k)
    <3>1. task[t].status = "done"
      BY <2>3, <2>8 DEF Inv, TypeOK
    <3> QED BY <1>1, <2>4, <2>6, <2>8, <3>1
  <2> QED BY <2>7, <2>8
<1> QED BY <1>2, <1>3

\* The invariant holds of the empty store.
LEMMA InitInv == Init => Inv
<1> SUFFICES ASSUME Init PROVE Inv
  OBVIOUS
<1>1. TypeOK /\ CallsOK
  BY InitTypeOK
<1>2. \A c \in Calls : ~holdsStore(c)
  BY DEF Init, Idle, holdsStore
<1>3. OneWriter /\ \A c \in Calls : CallOK(c)
  BY <1>2, FreeCallIsOK DEF OneWriter
<1>4. ClosedOnce
  BY DEF Init, ClosedOnce
<1>5. \A k \in Candidates : RowOK(k)
  BY NoneAssumption DEF Init, RowOK, evidenceOf, submitted, Outcome
<1> QED BY <1>1, <1>3, <1>4, <1>5 DEF Inv

\* The invariant is inductive.
LEMMA NextInv == Inv /\ [Next]_vars => Inv'
<1> SUFFICES ASSUME Inv, [Next]_vars PROVE Inv'
  OBVIOUS
<1>1. TypeOK' /\ CallsOK' /\ Grows /\ ClosedOnce'
  BY NextTypeOK, NextGrows, ClosedOnceStays DEF Inv
<1>2. ASSUME UNCHANGED <<rows, call>>
      PROVE  OneWriter' /\ (\A c \in Calls : CallOK(c)') /\ (\A k \in Candidates : RowOK(k)')
  <2>1. \A k \in Candidates : RowOK(k)'
    BY <1>1, <1>2, RowStaysOK DEF sameRow, rows
  <2>2. ASSUME NEW c \in Calls PROVE CallOK(c)'
    <3>1. CASE call[c] = Idle
      BY <1>2, <3>1 DEF CallOK, at, Idle
    <3>2. CASE call[c] # Idle
      <4>1. CallOK(c) /\ call[c].candidate \in Candidates /\ call[c].run \in Runs
        BY <3>2, CallFields DEF Inv, Step
      <4>2. validateReviewerRun(call[c].candidate, call[c].run) =>
              validateReviewerRun(call[c].candidate, call[c].run)'
        <5>1. PICK k \in Candidates, r \in Runs : k = call[c].candidate /\ r = call[c].run
          BY <4>1
        <5>2. validateReviewerRun(k, r) => validateReviewerRun(k, r)'
          BY <1>1, ReviewsStay
        <5> QED BY <1>2, <5>1, <5>2 DEF validateReviewerRun
      <4> QED BY <1>2, <4>1, <4>2 DEF CallOK, at, rows
    <3> QED BY <3>1, <3>2
  <2>3. OneWriter'
    BY <1>2 DEF Inv, OneWriter, holdsStore
  <2> QED BY <2>1, <2>2, <2>3
<1>3. ASSUME NEW c \in Calls, \A d \in Calls \ {c} : ~holdsStore(d) /\ call'[d] = call[d]
      PROVE  OneWriter' /\ \A d \in Calls \ {c} : CallOK(d)'
  <2>1. \A d \in Calls \ {c} : ~holdsStore(d)'
    BY <1>3 DEF holdsStore
  <2> QED BY <2>1, FreeCallIsOK DEF OneWriter, CallOK, holdsStore, at
<1>4. ASSUME NEW c \in Calls, Advance(c)
      PROVE  OneWriter' /\ (\A d \in Calls : CallOK(d)') /\ (\A k \in Candidates : RowOK(k)')
  <2>1. OneWriter' /\ \A d \in Calls \ {c} : CallOK(d)'
    BY <1>3, <1>4, StoreIsHeld
  <2>2. PICK k \in Candidates : k = call[c].candidate
    BY <1>4, CallInFlight
  <2>3. RowOK(k)' /\ CallOK(c)'
    BY <1>1, <1>4, <2>2, JudgingIsOK, IntegratingIsOK DEF Advance
  <2>4. \A j \in Candidates : j # k => RowOK(j)'
    BY <1>1, <1>4, <2>2, OtherRowsStay, RowStaysOK
  <2> QED BY <2>1, <2>3, <2>4
<1>5. ASSUME NEW c \in Calls, NEW k \in Candidates, NEW r \in Runs, NEW b \in Branches, promote(c, k, r, b)
      PROVE  OneWriter' /\ (\A d \in Calls : CallOK(d)') /\ (\A j \in Candidates : RowOK(j)')
  <2>1. OneWriter' /\ \A d \in Calls \ {c} : CallOK(d)'
    BY <1>3, <1>5, StoreIsHeld
  <2>2. CallOK(c)'
    <3>1. call'[c].step = "started"
      BY <1>5 DEF promote, Inv, TypeOK
    <3> QED BY <3>1 DEF CallOK, at
  <2>3. ASSUME NEW j \in Candidates PROVE RowOK(j)'
    <3>1. CASE j = k /\ stage[k] = "none"
      <4>1. /\ stage'[j] = "created"
            /\ UNCHANGED <<task, config, ref, candidate, run, verdict, attempt, outcome, receipt>>
        BY <1>5, <3>1 DEF promote, world, Inv, TypeOK
      <4>2. RowOK(j)
        BY DEF Inv
      <4> QED BY <3>1, <4>1, <4>2
              DEF RowOK, evidenceOf, approved, validateReviewerRun, contains, sha, submitted, taskOf
    <3>2. CASE ~(j = k /\ stage[k] = "none")
      <4>1. sameRow(j)
        BY <1>5, <3>2 DEF promote, sameRow, Inv, TypeOK
      <4> QED BY <1>1, <4>1, RowStaysOK
    <3> QED BY <3>1, <3>2
  <2> QED BY <2>1, <2>2, <2>3
<1>6. ASSUME NEW c \in Calls, abort(c)
      PROVE  OneWriter' /\ (\A d \in Calls : CallOK(d)') /\ (\A k \in Candidates : RowOK(k)')
  <2>1. UNCHANGED <<world, rows>> /\ return(c)
    BY <1>6 DEF abort
  <2>2. \A k \in Candidates : RowOK(k)'
    BY <1>1, <2>1, RowStaysOK DEF sameRow, rows
  <2>3. call'[c] = Idle /\ \A d \in Calls \ {c} : call'[d] = call[d]
    BY <2>1 DEF return, Inv, TypeOK
  <2>4. \A d \in Calls \ {c} : CallOK(d)'
    BY <2>1, <2>3 DEF Inv, CallOK, at, world, rows, validateReviewerRun
  <2>5. OneWriter'
    BY <2>3 DEF Inv, OneWriter, holdsStore, Idle
  <2> QED BY <2>1, <2>2, <2>4, <2>5, EndedCallIsOK DEF Inv
<1>7. UNCHANGED <<rows, call>> \/ \E c \in Calls :
        Advance(c) \/ abort(c) \/ \E k \in Candidates, r \in Runs, b \in Branches : promote(c, k, r, b)
  <2>1. Others => UNCHANGED <<rows, call>>
    BY DEF Others, resubmit, reopen, redefine, submit, dispatchReview, completeReview, editConfig, push
  <2>2. UNCHANGED vars => UNCHANGED <<rows, call>>
    BY DEF vars
  <2> QED BY <2>1, <2>2 DEF Next
<1>8. OneWriter' /\ (\A c \in Calls : CallOK(c)') /\ (\A k \in Candidates : RowOK(k)')
  BY <1>2, <1>4, <1>5, <1>6, <1>7
<1> QED BY <1>1, <1>8 DEF Inv

\* The invariant holds in every reachable state.
LEMMA InvHolds == Spec => []Inv
  BY InitInv, NextInv, PTL DEF Spec

(***************************************************************************)
(* The properties.                                                         *)
(***************************************************************************)

\* The stage of a candidate and the rows written on the way agree after a crash at
\* any point of any call.
THEOREM EvidenceMatches == Spec => []StageMatchesEvidence
<1>1. Inv => StageMatchesEvidence
  BY DEF Inv, RowOK, StageMatchesEvidence
<1> QED BY <1>1, InvHolds, PTL

\* A task is done exactly when one candidate of it, and one only, was approved,
\* landed and closed.
THEOREM DoneSafety == Spec => []DoneWasApprovedAndLanded
<1>1. ASSUME Inv, NEW k \in Candidates, receipt[k] # None
      PROVE  /\ task[taskOf(k)].status = "done"
             /\ approved(k)
             /\ attempt[k] # None /\ contains(attempt[k].target, k)
  <2>1. RowOK(k) /\ stage[k] = "closed" /\ outcome[k] = "succeeded"
    BY <1>1 DEF Inv, RowOK, evidenceOf
  <2>2. outcome[k] # None
    BY <2>1, NoneAssumption DEF Outcome
  <2> QED BY <1>1, <2>1, <2>2 DEF RowOK, evidenceOf
<1>2. Inv => DoneWasApprovedAndLanded
  BY <1>1 DEF Inv, ClosedOnce, DoneWasApprovedAndLanded
<1> QED BY <1>2, InvHolds, PTL

\* Whatever is pushed between the reads of a promotion and its update-ref, no branch
\* loses a change.
THEOREM NoChangeLost == Spec => NoChangeIsLost
<1>1. Inv /\ [Next]_vars => [\A b \in Branches : IsPrefix(ref[b], ref'[b])]_vars
  BY NextGrows DEF Grows
<1> QED BY <1>1, InvHolds, PTL DEF Spec, NoChangeIsLost

\* A promotion moves a branch only from the base of an approved candidate to its
\* commit.
THEOREM ApprovedLands == Spec => OnlyApprovedWorkLands
<1> DEFINE landing(b) == \E k \in Candidates : submitted(k) /\ approved(k)
                           /\ ref[b] = candidate[k].base /\ ref'[b] = sha(k)
<1>1. ASSUME Inv, NEW c \in Calls, forward(c), NEW b \in Branches, ref'[b] # ref[b]
      PROVE  landing(b)
  <2>1. PICK k \in Candidates : k = call[c].candidate
    BY <1>1, CallInFlight DEF Advance
  <2>2. submitted(k) /\ RowOK(k) /\ CallOK(c)
    BY <1>1, <2>1, CallInFlight DEF Advance, Inv
  <2>3. attempt[k] # None /\ approved(k) /\ attempt[k].before = candidate[k].base
    BY <1>1, <2>1, <2>2 DEF forward, CallOK, RowOK, evidenceOf
  <2>4. attempt[k].target \in Branches
    BY <1>1, <2>3 DEF Inv, TypeOK, Intent
  <2>5. /\ ref[attempt[k].target] = attempt[k].before
        /\ ref' = [ref EXCEPT ![attempt[k].target] = sha(k)]
    BY <1>1, <2>1 DEF forward, fastForwardRef
  <2>6. b = attempt[k].target /\ ref'[b] = sha(k)
    BY <1>1, <2>4, <2>5 DEF Inv, TypeOK
  <2> QED BY <2>2, <2>3, <2>5, <2>6
<1>2. ASSUME Inv, [Next]_vars, NEW b \in Branches, ref'[b] # ref[b], call' # call
      PROVE  \E c \in Calls : forward(c)
  <2>1. ~Others
    BY <1>2 DEF Others, resubmit, reopen, redefine, submit, dispatchReview, completeReview, editConfig, push
  <2> QED BY <1>2, <2>1 DEF Next, vars, world, promote, Advance, abort, completeChecks,
          recordValidatedVerdict, judge, resume, verified, ensureIntegrationAttempt,
          startIntegration, recordIntegrationOutcome, requireSuccessfulIntegration, closePromotedTask
<1>3. Inv /\ [Next]_vars =>
        [\A b \in Branches : ref'[b] # ref[b] /\ call' # call => landing(b)]_vars
  BY <1>1, <1>2
<1> QED BY <1>3, InvHolds, PTL DEF Spec, OnlyApprovedWorkLands

(***************************************************************************)
(* The promotion implements ReviewedIntegration.                           *)
(***************************************************************************)

\* A step that judges and closes nothing and submits no candidate.
LEMMA SameWork ==
  ASSUME UNCHANGED candidate,
         \A k \in Candidates :
           \/ stage'[k] = stage[k]
           \/ {stage[k], stage'[k]} \subseteq {"none", "created", "checks-completed"}
           \/ {stage[k], stage'[k]} \subseteq {"approved", "integration-pending", "integrated", "blocked"}
  PROVE  UNCHANGED <<work, owner>>
  BY DEF work, owner, submitted, taskOf

\* A step that moves no branch and submits nothing merges nothing.
LEMMA SameMerged == UNCHANGED <<candidate, ref>> => UNCHANGED merged
  BY DEF merged, submitted, contains, sha

\* A step that closes no task leaves the tasks that are done.
LEMMA SameDone ==
  ASSUME \A t \in Tasks : task'[t].status = "done" <=> task[t].status = "done"
  PROVE  UNCHANGED done
  BY DEF done

\* The empty store promises nothing.
LEMMA InitImplements == Init => Reviewed!Init
<1> SUFFICES ASSUME Init PROVE Reviewed!Init
  OBVIOUS
<1>1. \A k \in Candidates : ~submitted(k)
  BY DEF Init, submitted
<1>2. \A t \in Tasks : task[t].status # "done"
  BY DEF Init
<1> QED BY <1>1, <1>2 DEF Reviewed!Init, work, owner, merged, done

\* Whatever moves one branch is a merge.
LEMMA MovedBranchIsMerge ==
  ASSUME Inv, TypeOK', Grows, UNCHANGED <<task, candidate, stage>>, NEW b \in Branches,
         \A x \in Branches \ {b} : ref'[x] = ref[x]
  PROVE  Reviewed!Merge(b)
<1>1. UNCHANGED <<work, owner, done>>
  BY SameWork, SameDone
<1> DEFINE ks == {k \in Candidates : submitted(k) /\ contains(b, k)'}
<1>2. ks \in SUBSET {k \in Candidates : work[k] # "unknown"}
  BY DEF work, Inv, TypeOK, Stage
<1>3. \A k \in Candidates : submitted(k)' <=> submitted(k)
  BY DEF submitted
<1>4. \A x \in Branches, k \in Candidates : x # b /\ submitted(k) => (contains(x, k)' <=> contains(x, k))
  BY DEF contains, sha
<1>5. \A k \in Candidates : submitted(k) /\ contains(b, k) => contains(b, k)'
  BY SubmittedStays
<1>6. \A x \in Branches : merged'[x] = IF x = b THEN merged[b] \cup ks ELSE merged[x]
  BY <1>3, <1>4, <1>5 DEF merged
<1>7. merged' = [merged EXCEPT ![b] = @ \cup ks]
  BY <1>6 DEF merged
<1> QED BY <1>1, <1>2, <1>7 DEF Reviewed!Merge

\* The submission of a candidate proposes it.
LEMMA SubmitImplements ==
  ASSUME Inv, TypeOK', Grows, NEW t \in Tasks, NEW k \in Candidates, NEW h \in Commit, submit(t, k, h)
  PROVE  Reviewed!Propose(t, k)
<1> DEFINE new == [task |-> t, version |-> task[t].version, sha |-> h, base |-> mergeBase(h, ref[Main])]
<1>1. /\ candidate' = [candidate EXCEPT ![k] = new]
      /\ ~submitted(k) /\ stage[k] = "none"
      /\ task' = [task EXCEPT ![t].status = "review"] /\ task[t].status = "open"
      /\ UNCHANGED <<ref, stage>>
  <2>1. ~submitted(k)
    BY DEF submit, Candidates
  <2> QED BY <2>1, UnsubmittedHasNoRows DEF submit, rows
<1>2. candidate'[k] = new /\ \A j \in Candidates \ {k} : candidate'[j] = candidate[j]
  BY <1>1 DEF Inv, TypeOK
<1>3. candidate'[k].task = t /\ candidate'[k] # None
  <2>1. candidate'[k].task = t
    BY <1>2
  <2>2. submitted(k)'
    <3>1. mergeBase(h, ref[Main]) \in Commit
      BY MainAssumption, MergeBaseIsPrefix DEF Inv, TypeOK, Commit
    <3>2. new \in Submission
      BY <3>1 DEF Submission, Inv, TypeOK
    <3> QED BY <1>2, <3>2, NoneAssumption DEF submitted
  <2> QED BY <2>1, <2>2 DEF submitted
<1> HIDE DEF new
<1>4. work[k] = "unknown" /\ work' = [work EXCEPT ![k] = "proposed"]
  BY <1>1, <1>2, <1>3 DEF work, submitted
<1>5. owner' = [owner EXCEPT ![k] = t]
  <2>1. \A j \in Candidates : owner'[j] = IF j = k THEN t ELSE owner[j]
    BY <1>2, <1>3 DEF owner, submitted, taskOf
  <2> QED BY <2>1 DEF owner
<1>6. UNCHANGED done /\ t \notin done
  BY <1>1 DEF done, Inv, TypeOK
<1> DEFINE bs == {b \in Branches : contains(b, k)'}
<1>7. merged' = [b \in Branches |-> IF b \in bs THEN merged[b] \cup {k} ELSE merged[b]]
  <2>1. \A j \in Candidates \ {k} : (submitted(j)' <=> submitted(j)) /\ sha(j)' = sha(j)
    BY <1>2 DEF submitted, sha
  <2>2. submitted(k)' /\ ~submitted(k)
    BY <1>1, <1>3 DEF submitted
  <2>3. \A b \in Branches, j \in Candidates \ {k} : contains(b, j)' <=> contains(b, j)
    BY <1>1, <2>1 DEF contains
  <2>4. ASSUME NEW b \in Branches
        PROVE  merged'[b] = IF b \in bs THEN merged[b] \cup {k} ELSE merged[b]
    BY <2>1, <2>2, <2>3 DEF merged
  <2> QED BY <2>4 DEF merged
<1>8. bs \in SUBSET Branches
  OBVIOUS
<1> QED BY <1>4, <1>5, <1>6, <1>7, <1>8 DEF Reviewed!Propose

\* Acting on the recorded verdict judges the candidate.
LEMMA JudgeImplements ==
  ASSUME Inv, NEW c \in Calls, NEW k \in Candidates, k = call[c].candidate, judge(c)
  PROVE  Reviewed!Judge(k)
<1>1. submitted(k) /\ stage[k] = "checks-completed"
  BY CallInFlight DEF Advance, Inv, CallOK, judge
<1>2. PICK v \in {"approved", "rejected"} : stage' = [stage EXCEPT ![k] = v]
  BY DEF judge
<1>3. UNCHANGED <<task, ref, candidate>>
  BY DEF judge, world
<1>4. work[k] = "proposed" /\ work' = [work EXCEPT ![k] = v]
  BY <1>1, <1>2, <1>3 DEF work, submitted, Inv, TypeOK
<1>5. UNCHANGED <<owner, merged, done>>
  BY <1>3, SameMerged, SameDone DEF owner, submitted, taskOf
<1> QED BY <1>4, <1>5 DEF Reviewed!Judge

\* The closing transaction closes a candidate that is in a branch.
LEMMA CloseImplements ==
  ASSUME Inv, NEW c \in Calls, NEW k \in Candidates, k = call[c].candidate, closePromotedTask(c)
  PROVE  Reviewed!Close(k)
<1>1. /\ submitted(k) /\ stage[k] = "integrated" /\ task[taskOf(k)].status = "review"
      /\ stage' = [stage EXCEPT ![k] = "closed"]
      /\ task' = [task EXCEPT ![taskOf(k)].status = "done"]
      /\ UNCHANGED <<ref, candidate>>
  BY CallInFlight DEF Advance, closePromotedTask
<1>2. taskOf(k) \in Tasks /\ owner[k] = taskOf(k)
  BY <1>1 DEF owner, Inv, TypeOK, submitted, taskOf, Submission
<1>3. work[k] = "approved" /\ work' = [work EXCEPT ![k] = "closed"]
  BY <1>1 DEF work, submitted, Inv, TypeOK
<1>4. \E b \in Branches : k \in merged[b]
  <2>1. outcome[k] = "succeeded" /\ RowOK(k)
    BY <1>1 DEF Inv, RowOK, evidenceOf
  <2>2. attempt[k] # None /\ contains(attempt[k].target, k)
    BY <2>1, NoneAssumption DEF RowOK, evidenceOf, Outcome
  <2>3. PICK b \in Branches : b = attempt[k].target
    BY <2>2 DEF Inv, TypeOK, Intent
  <2> QED BY <1>1, <2>2, <2>3 DEF merged
<1>5. owner[k] \notin done /\ done' = done \cup {owner[k]}
  BY <1>1, <1>2 DEF done, Inv, TypeOK
<1>6. UNCHANGED <<owner, merged>>
  BY <1>1, SameMerged DEF owner, submitted, taskOf
<1> QED BY <1>3, <1>4, <1>5, <1>6 DEF Reviewed!Close

\* A command that is not a promotion proposes a candidate, merges or does nothing.
LEMMA OthersImplement ==
  ASSUME Inv, TypeOK', Grows, Others
  PROVE  [Reviewed!Next]_(Reviewed!vars)
<1>1. ASSUME NEW t \in Tasks, NEW k \in Candidates, NEW h \in Commit, submit(t, k, h)
      PROVE  Reviewed!Next
  BY <1>1, SubmitImplements DEF Reviewed!Next
<1>2. ASSUME NEW b \in Branches, push(b) PROVE Reviewed!Next
  <2>1. UNCHANGED <<task, candidate, stage>> /\ \A x \in Branches \ {b} : ref'[x] = ref[x]
    BY <1>2 DEF push, rows, Inv, TypeOK
  <2> QED BY <2>1, MovedBranchIsMerge DEF Reviewed!Next
<1>3. ASSUME UNCHANGED <<ref, candidate, stage>>,
             \A t \in Tasks : task'[t].status = "done" <=> task[t].status = "done"
      PROVE  UNCHANGED Reviewed!vars
  BY <1>3, SameWork, SameMerged, SameDone DEF Reviewed!vars
<1>4. ASSUME NEW t \in Tasks, resubmit(t) \/ reopen(t) \/ redefine(t) PROVE UNCHANGED Reviewed!vars
  <2>1. \A x \in Tasks : task'[x].status = "done" => task[x].status = "done"
    BY <1>4, EditsCloseNothing
  <2>2. UNCHANGED <<ref, candidate, stage>>
    BY <1>4 DEF resubmit, reopen, redefine, rows
  <2> QED BY <1>3, <2>1, <2>2 DEF Grows
<1>5. ASSUME \/ editConfig
             \/ \E r \in Runs : \/ \E k \in Candidates : dispatchReview(r, k)
                                \/ \E v \in Verdict : completeReview(r, v)
      PROVE  UNCHANGED Reviewed!vars
  BY <1>3, <1>5 DEF editConfig, dispatchReview, completeReview, rows
<1> QED BY <1>1, <1>2, <1>4, <1>5, SubmittedCommits DEF Others, Inv

\* A step of a call judges, merges, closes or does nothing.
LEMMA CallsImplement ==
  ASSUME Inv, TypeOK', Grows, NEW c \in Calls, Advance(c)
  PROVE  [Reviewed!Next]_(Reviewed!vars)
<1>1. PICK k \in Candidates : k = call[c].candidate
  BY CallInFlight
<1>2. CASE judge(c)
  BY <1>1, <1>2, JudgeImplements DEF Reviewed!Next
<1>3. CASE closePromotedTask(c)
  BY <1>1, <1>3, CloseImplements DEF Reviewed!Next
<1>4. CASE forward(c)
  <2>1. UNCHANGED <<task, candidate, stage>> /\ attempt[k] # None
    BY <1>1, <1>4 DEF forward, rows, Inv, CallOK
  <2>2. PICK b \in Branches : b = attempt[k].target
    BY <2>1 DEF Inv, TypeOK, Intent
  <2>3. \A x \in Branches \ {b} : ref'[x] = ref[x]
    BY <1>1, <1>4, <2>2 DEF forward, fastForwardRef, Inv, TypeOK
  <2> QED BY <2>1, <2>3, MovedBranchIsMerge DEF Reviewed!Next
<1>5. ASSUME UNCHANGED <<task, ref, candidate>>,
             \/ stage'[k] = stage[k]
             \/ {stage[k], stage'[k]} \subseteq {"none", "created", "checks-completed"}
             \/ {stage[k], stage'[k]} \subseteq {"approved", "integration-pending", "integrated", "blocked"}
      PROVE  UNCHANGED Reviewed!vars
  <2>1. \A j \in Candidates : j # k => stage'[j] = stage[j]
    BY <1>1, OtherRowsStay DEF sameRow
  <2> QED BY <1>5, <2>1, SameWork, SameMerged, SameDone DEF Reviewed!vars
<1>6. CASE completeChecks(c)
  <2>1. stage'[k] = IF stage[k] = "created" THEN "checks-completed" ELSE stage[k]
    BY <1>1, <1>6 DEF completeChecks, Inv, TypeOK
  <2> QED BY <1>5, <1>6, <2>1 DEF completeChecks, world
<1>7. CASE recordValidatedVerdict(c) \/ resume(c) \/ verified(c) \/ ensureIntegrationAttempt(c)
           \/ recordIntegrationOutcome(c)
  BY <1>5, <1>7 DEF recordValidatedVerdict, resume, verified, ensureIntegrationAttempt,
     recordIntegrationOutcome, world, rows
<1>8. CASE startIntegration(c)
  <2>1. stage[k] \in {"approved", "integration-pending"} /\ stage'[k] = "integration-pending"
    BY <1>1, <1>8 DEF startIntegration, Inv, CallOK, TypeOK
  <2> QED BY <1>5, <1>8, <2>1 DEF startIntegration, world
<1>9. CASE requireSuccessfulIntegration(c)
  <2>1. stage[k] = "integration-pending" /\ stage'[k] \in {"integrated", "blocked"}
    BY <1>1, <1>9 DEF requireSuccessfulIntegration, Inv, CallOK, TypeOK
  <2> QED BY <1>5, <1>9, <2>1 DEF requireSuccessfulIntegration, world
<1> QED BY <1>2, <1>3, <1>4, <1>6, <1>7, <1>8, <1>9 DEF Advance

\* The promotion implements the promise: a candidate is judged once, a task is done
\* once and by an approved candidate that is in a branch, and branches only grow.
THEOREM ReviewedIntegrationImplemented == Spec => ImplementsReviewedIntegration
<1>1. Inv /\ [Next]_vars => [Reviewed!Next]_(Reviewed!vars)
  <2> SUFFICES ASSUME Inv, [Next]_vars PROVE [Reviewed!Next]_(Reviewed!vars)
    OBVIOUS
  <2>1. TypeOK' /\ Grows
    BY NextTypeOK, NextGrows DEF Inv
  <2>2. ASSUME UNCHANGED <<task, ref, candidate, stage>> PROVE UNCHANGED Reviewed!vars
    BY <2>2, SameWork, SameMerged, SameDone DEF Reviewed!vars
  <2>3. ASSUME NEW c \in Calls, NEW k \in Candidates, NEW r \in Runs, NEW b \in Branches, promote(c, k, r, b)
        PROVE  UNCHANGED Reviewed!vars
    <3>1. UNCHANGED <<task, ref, candidate>>
      BY <2>3 DEF promote, world
    <3>2. \A j \in Candidates : \/ stage'[j] = stage[j]
                                \/ {stage[j], stage'[j]} \subseteq {"none", "created", "checks-completed"}
      BY <2>3 DEF promote, Inv, TypeOK
    <3> QED BY <3>1, <3>2, SameWork, SameMerged, SameDone DEF Reviewed!vars
  <2>4. ASSUME NEW c \in Calls, abort(c) PROVE UNCHANGED Reviewed!vars
    BY <2>2, <2>4 DEF abort, world, rows
  <2>5. CASE UNCHANGED vars
    BY <2>2, <2>5 DEF vars, world, rows
  <2> QED BY <2>1, <2>3, <2>4, <2>5, OthersImplement, CallsImplement DEF Next
<1> QED BY <1>1, InitImplements, InvHolds, PTL DEF Spec, ImplementsReviewedIntegration, Reviewed!Spec
=============================================================================
