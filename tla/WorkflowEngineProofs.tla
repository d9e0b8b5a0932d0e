------------------------ MODULE WorkflowEngineProofs ------------------------
(***************************************************************************)
(* Safety of WorkflowEngine for any definitions, runs, coordinators,       *)
(* people, outputs and faults: one effect carries each open run, only the  *)
(* holder of the current claim closes it, and runs follow the routes of    *)
(* the version they were started with.                                     *)
(***************************************************************************)
EXTENDS WorkflowEngine, FiniteSetTheorems, SequenceTheorems, TLAPS

----------------------------------------------------------------------------
(* The inductive invariant.                                                *)

\* What registration lets through, and the keys of its steps.
Sound == {d \in Candidates : validateDefinition(d)}
Keys == UNION {StepKeys(d) : d \in Candidates}

RunStatus == {"RUNNING", "WAITING", "COMPLETED", "FAILED"}
EffectStatus == {"PENDING", "CLAIMED", "COMPLETED", "FAILED"}
EventType == {"started", "effect_claimed", "effect_recovered", "effect_retry_scheduled",
              "step_advanced", "completed", "failed"}
Phases == {"down", "starting", "idle", "recovered", "executing"}
Processes == Workers \cup Humans

Version == [status : {"ACTIVE", "RETIRED"}, body : Sound]
Run == [def : Ids, ver : Nat, step : Keys \cup {None}, status : RunStatus, revision : Nat]
Effect == [run : Nat, step : Keys, attempt : Nat, status : EffectStatus,
           owner : Processes \cup {None}, fresh : BOOLEAN, claims : Nat]

StoreTypeOK ==
  /\ versions \in [Ids -> Seq(Version)]
  /\ runs \in Seq(Run)
  /\ effects \in Seq(Effect)
  /\ events \in Seq(Seq(EventType))

ProcessTypeOK ==
  /\ policy \in [ErrorCodes -> BOOLEAN]
  /\ worker \in [Workers -> [phase : Phases, stopping : BOOLEAN, effect : Nat, claim : Nat]]
  /\ resolving \in [Humans -> [effect : Nat, output : Outputs \cup {Otherwise}, claim : Nat]]
  /\ faults \in Nat

\* The foreign keys: a run names a stored version, an effect a run and one of
\* the steps of that run's version.
PointersOK ==
  /\ \A r \in DOMAIN runs : runs[r].ver \in DOMAIN versions[runs[r].def]
  /\ \A e \in DOMAIN effects :
       effects[e].run \in DOMAIN runs /\ effects[e].step \in StepKeys(pinned(effects[e].run))

\* The revision of a run numbers its events.
RevisionNumbersEvents ==
  /\ Len(events) = Len(runs)
  /\ \A r \in DOMAIN runs : Len(events[r]) = runs[r].revision

Live(e) == effects[e].status \in {"PENDING", "CLAIMED"}

\* OpenRunHasItsEffect, effect by effect: one that is to be done stands where
\* its run stands, an open run has one, and no run has two.
OneEffectEach ==
  /\ \A e \in DOMAIN effects : Live(e) =>
       /\ Open(effects[e].run)
       /\ runs[effects[e].run].step = effects[e].step
       /\ runs[effects[e].run].status = statusFor(stepOf(e).executor)
  /\ \A r \in DOMAIN runs : Open(r) => \E e \in DOMAIN effects : Live(e) /\ effects[e].run = r
  /\ \A e, f \in DOMAIN effects : Live(e) /\ Live(f) /\ effects[e].run = effects[f].run => e = f

\* Only a claimed effect has an owner, and a coordinator owns no person's.
OwnersOK ==
  /\ \A e \in DOMAIN effects : effects[e].owner # None => effects[e].status = "CLAIMED"
  /\ \A e \in DOMAIN effects : effects[e].owner \in Workers => stepOf(e).executor # "human"

\* The effect a process works on, and which claim of the effect it holds.
heldEffect(x) == IF x \in Workers THEN worker[x].effect ELSE resolving[x].effect
heldClaim(x) == IF x \in Workers THEN worker[x].claim ELSE resolving[x].claim

\* No two processes remember the same claim, none a claim still to come, and
\* the owner of an effect, if it is alive, remembers the last one.
HoldersOK ==
  /\ \A w \in Workers : IF worker[w].phase = "executing"
                          THEN worker[w].effect \in DOMAIN effects ELSE worker[w].effect = 0
  /\ \A h \in Humans : resolving[h] # NoAnswer => resolving[h].effect \in DOMAIN effects
  /\ \A x \in Processes : heldEffect(x) \in DOMAIN effects =>
       /\ heldClaim(x) <= effects[heldEffect(x)].claims
       /\ effects[heldEffect(x)].owner = x => heldClaim(x) = effects[heldEffect(x)].claims
  /\ \A x, y \in Processes :
       /\ heldEffect(x) \in DOMAIN effects
       /\ heldEffect(x) = heldEffect(y) /\ heldClaim(x) = heldClaim(y)
       => x = y

DataOK == StoreTypeOK /\ PointersOK /\ RevisionNumbersEvents /\ OneEffectEach /\ OwnersOK
IInv == DataOK /\ ProcessTypeOK /\ HoldersOK
----------------------------------------------------------------------------
(* Rows of a table, and the definitions they point at.                     *)

\* Replacing a row.
LEMMA RowReplaced ==
  ASSUME NEW S, NEW s \in Seq(S), NEW i \in DOMAIN s, NEW x \in S
  PROVE  /\ [s EXCEPT ![i] = x] \in Seq(S)
         /\ Len([s EXCEPT ![i] = x]) = Len(s)
         /\ DOMAIN [s EXCEPT ![i] = x] = DOMAIN s
         /\ [s EXCEPT ![i] = x][i] = x
         /\ \A j \in DOMAIN s \ {i} : [s EXCEPT ![i] = x][j] = s[j]
BY ExceptSeq

\* Appending a row.
LEMMA RowAppended ==
  ASSUME NEW S, NEW s \in Seq(S), NEW x \in S
  PROVE  /\ Append(s, x) \in Seq(S)
         /\ Len(Append(s, x)) = Len(s) + 1
         /\ Len(s) \in Nat
         /\ Len(s) + 1 \notin DOMAIN s
         /\ DOMAIN Append(s, x) = DOMAIN s \cup {Len(s) + 1}
         /\ Append(s, x)[Len(s) + 1] = x
         /\ \A j \in DOMAIN s : Append(s, x)[j] = s[j]
<1>1. Len(s) \in Nat /\ DOMAIN s = 1..Len(s)
  BY LenProperties
<1>2. /\ Append(s, x) \in Seq(S) /\ Len(Append(s, x)) = Len(s) + 1
      /\ DOMAIN Append(s, x) = 1..(Len(s) + 1)
      /\ Append(s, x)[Len(s) + 1] = x
      /\ \A j \in 1..Len(s) : Append(s, x)[j] = s[j]
  BY <1>1, AppendProperties, LenProperties
<1> QED BY <1>1, <1>2

\* A nonempty set of naturals has a least element.
LEMMA LeastElement ==
  ASSUME NEW T \in SUBSET Nat, T # {}
  PROVE  \E x \in T : \A y \in T : x <= y
<1> DEFINE Below(x) == 0..(x - 1)
           R == StrictSubsetOrdering(Nat)
           F == FiniteSubsetsOf(Nat)
           B == {Below(x) : x \in T}
<1>1. \A x \in T : Below(x) \in F
  BY FS_Interval DEF FiniteSubsetsOf
<1>2. B \subseteq F /\ B # {}
  BY <1>1
<1>3. PICK s \in B : \A t \in B : ~ (<<t, s>> \in R)
  <2> HIDE DEF B, F, R
  <2>1. IsWellFoundedOn(R, F)
    BY FS_StrictSubsetOrderingWellFounded DEF R, F
  <2> QED BY <1>2, <2>1, WFMin
<1>4. PICK x \in T : s = Below(x)
  OBVIOUS
<1>5. ASSUME NEW y \in T, y < x PROVE FALSE
  <2>1. Below(y) \subseteq Below(x) /\ Below(y) # Below(x)
    <3>1. x \in Nat /\ y \in Nat
      OBVIOUS
    <3>2. y \in Below(x) /\ y \notin Below(y)
      BY <3>1, <1>5
    <3> QED BY <3>1, <3>2, <1>5
  <2>2. <<Below(y), Below(x)>> \in R
    BY <2>1 DEF StrictSubsetOrdering
  <2> QED BY <2>2, <1>3, <1>4
<1> QED
  <2>1. \A y \in T : ~(y < x)
    BY <1>5
  <2> QED BY <2>1

\* What registration has checked of a stored definition.
LEMMA SoundDefinition ==
  ASSUME NEW d \in Sound
  PROVE  /\ d.start \in StepKeys(d)
         /\ StepKeys(d) \subseteq Keys
         /\ \A q \in Range(d.routes) :
              /\ q.from \in StepKeys(d)
              /\ q.target = None \/ q.target \in StepKeys(d)
              /\ q.priority \in Nat
BY DEF Sound, Keys, validateDefinition, validateRoutes, validateRoute, validateRouteEndpoints

\* The version a run names is a registered one.
LEMMA PinnedSound ==
  ASSUME StoreTypeOK, PointersOK, NEW r \in DOMAIN runs
  PROVE  pinned(r) \in Sound
<1>1. runs[r] \in Run
  BY ElementOfSeq, LenProperties DEF StoreTypeOK
<1>2. versions[runs[r].def] \in Seq(Version) /\ runs[r].ver \in DOMAIN versions[runs[r].def]
  BY <1>1 DEF StoreTypeOK, PointersOK, Run
<1>3. versions[runs[r].def][runs[r].ver] \in Version
  BY <1>2, ElementOfSeq, LenProperties
<1> QED BY <1>3 DEF pinned, Version

\* A definition is fixed for the runs and effects that keep naming it.
LEMMA StepKept ==
  ASSUME NEW e \in DOMAIN effects, UNCHANGED versions,
         effects'[e].run = effects[e].run, effects'[e].step = effects[e].step,
         runs'[effects[e].run].def = runs[effects[e].run].def,
         runs'[effects[e].run].ver = runs[effects[e].run].ver
  PROVE  /\ pinned(effects[e].run)' = pinned(effects[e].run)
         /\ stepOf(e)' = stepOf(e)
BY DEF stepOf, pinned

\* The typed rows of the tables.
LEMMA Rows ==
  ASSUME StoreTypeOK, PointersOK, RevisionNumbersEvents
  PROVE  /\ \A r \in DOMAIN runs : /\ runs[r] \in Run /\ r \in DOMAIN events
                                   /\ events[r] \in Seq(EventType) /\ r \in Nat
         /\ \A e \in DOMAIN effects : /\ effects[e] \in Effect /\ e \in Nat /\ e # 0
                                      /\ effects[e].run \in DOMAIN runs
                                      /\ effects[e].step \in StepKeys(pinned(effects[e].run))
<1>1. DOMAIN runs = 1..Len(runs) /\ DOMAIN events = 1..Len(events) /\ DOMAIN effects = 1..Len(effects)
  BY LenProperties DEF StoreTypeOK
<1>2. /\ \A r \in DOMAIN runs : runs[r] \in Run
      /\ \A e \in DOMAIN effects : effects[e] \in Effect
      /\ \A r \in DOMAIN events : events[r] \in Seq(EventType)
  BY <1>1, ElementOfSeq DEF StoreTypeOK
<1>3. \A r \in DOMAIN runs : r \in DOMAIN events
  BY <1>1 DEF RevisionNumbersEvents
<1>4. (\A r \in DOMAIN runs : r \in Nat) /\ \A e \in DOMAIN effects : e \in Nat /\ e # 0
  <2>1. Len(runs) \in Nat /\ Len(effects) \in Nat
    BY LenProperties DEF StoreTypeOK
  <2> QED BY <1>1, <2>1
<1> QED BY <1>2, <1>3, <1>4 DEF PointersOK

\* The row advance writes.
advancedRow(x, status, key) == [x EXCEPT !.status = status, !.step = key, !.revision = @ + 1]

\* It is a row, of the same version, with the next revision.
LEMMA AdvancedRow ==
  ASSUME NEW x \in Run, NEW status \in RunStatus, NEW key \in Keys \cup {None}
  PROVE  /\ advancedRow(x, status, key) \in Run
         /\ advancedRow(x, status, key).status = status
         /\ advancedRow(x, status, key).step = key
         /\ advancedRow(x, status, key).def = x.def
         /\ advancedRow(x, status, key).ver = x.ver
         /\ advancedRow(x, status, key).revision = x.revision + 1
<1> DEFINE x1 == [x EXCEPT !.status = status]
           x2 == [x1 EXCEPT !.step = key]
           x3 == [x2 EXCEPT !.revision = x.revision + 1]
<1>1. x1 \in Run /\ x1.status = status /\ x1.def = x.def /\ x1.ver = x.ver
  BY DEF Run
<1>2. x2 \in Run /\ x2.status = status /\ x2.step = key /\ x2.def = x.def /\ x2.ver = x.ver
  <2> HIDE DEF x1
  <2> QED BY <1>1 DEF Run
<1>3. /\ x3 \in Run /\ x3.status = status /\ x3.step = key
      /\ x3.def = x.def /\ x3.ver = x.ver /\ x3.revision = x.revision + 1
  <2>1. x.revision + 1 \in Nat
    BY DEF Run
  <2> HIDE DEF x2
  <2> QED BY <1>2, <2>1 DEF Run
<1> QED BY <1>3 DEF advancedRow

\* advance writes one run and appends the event of its new revision.
LEMMA Advance ==
  ASSUME StoreTypeOK, PointersOK, RevisionNumbersEvents,
         NEW r \in DOMAIN runs, NEW status \in RunStatus, NEW key \in Keys \cup {None},
         NEW type \in EventType, advance(r, status, key, type)
  PROVE  /\ runs' \in Seq(Run) /\ DOMAIN runs' = DOMAIN runs
         /\ \A q \in DOMAIN runs : runs'[q].def = runs[q].def /\ runs'[q].ver = runs[q].ver
         /\ \A q \in DOMAIN runs \ {r} : runs'[q] = runs[q]
         /\ runs'[r].status = status /\ runs'[r].step = key
         /\ events' \in Seq(Seq(EventType))
         /\ RevisionNumbersEvents'
<1>1. runs[r] \in Run /\ r \in DOMAIN events /\ events[r] \in Seq(EventType)
  BY Rows
<1> DEFINE row == advancedRow(runs[r], status, key)
<1>2. /\ row \in Run /\ row.status = status /\ row.step = key
      /\ row.def = runs[r].def /\ row.ver = runs[r].ver
      /\ row.revision = runs[r].revision + 1
  BY <1>1, AdvancedRow
<1>3. runs' = [runs EXCEPT ![r] = row]
  BY DEF advance, advancedRow
<1> HIDE DEF row
<1>4. runs \in Seq(Run) /\ events \in Seq(Seq(EventType))
  BY DEF StoreTypeOK
<1>5. /\ runs' \in Seq(Run) /\ DOMAIN runs' = DOMAIN runs /\ Len(runs') = Len(runs)
      /\ runs'[r] = row /\ \A q \in DOMAIN runs \ {r} : runs'[q] = runs[q]
  BY <1>2, <1>3, <1>4, RowReplaced
<1>6. Append(events[r], type) \in Seq(EventType) /\ Len(Append(events[r], type)) = Len(events[r]) + 1
  BY <1>1, AppendProperties
<1>7. events' = [events EXCEPT ![r] = Append(events[r], type)]
  BY DEF advance
<1>8. /\ events' \in Seq(Seq(EventType)) /\ Len(events') = Len(events)
      /\ events'[r] = Append(events[r], type)
      /\ \A q \in DOMAIN events \ {r} : events'[q] = events[q]
  BY <1>1, <1>4, <1>6, <1>7, RowReplaced
<1>9. RevisionNumbersEvents'
  <2>1. \A q \in DOMAIN runs : Len(events[q]) = runs[q].revision /\ q \in DOMAIN events
    BY Rows DEF RevisionNumbersEvents
  <2>2. ASSUME NEW q \in DOMAIN runs' PROVE Len(events'[q]) = runs'[q].revision
    <3>1. CASE q = r
      BY <1>2, <1>5, <1>6, <1>8, <2>1, <3>1
    <3>2. CASE q # r
      BY <1>5, <1>8, <2>1, <3>2
    <3> QED BY <3>1, <3>2
  <2> QED BY <1>5, <1>8, <2>2 DEF RevisionNumbersEvents
<1> QED BY <1>2, <1>5, <1>8, <1>9

\* The row of an effect that is closed: its owner and its lease are gone.
LEMMA ClosedRow ==
  ASSUME StoreTypeOK, PointersOK, RevisionNumbersEvents,
         NEW e \in DOMAIN effects, NEW status \in EffectStatus
  PROVE  /\ closed(e, status) \in Effect
         /\ closed(e, status).status = status /\ closed(e, status).owner = None
         /\ closed(e, status).run = effects[e].run /\ closed(e, status).step = effects[e].step
         /\ closed(e, status).attempt = effects[e].attempt
         /\ closed(e, status).claims = effects[e].claims
<1> DEFINE x1 == [effects[e] EXCEPT !.status = status]
           x2 == [x1 EXCEPT !.owner = None]
           x3 == [x2 EXCEPT !.fresh = FALSE]
<1>1. /\ x1 \in Effect /\ x1.status = status /\ x1.run = effects[e].run
      /\ x1.step = effects[e].step /\ x1.attempt = effects[e].attempt /\ x1.claims = effects[e].claims
  <2>1. effects[e] \in Effect
    BY Rows
  <2> QED BY <2>1 DEF Effect
<1>2. /\ x2 \in Effect /\ x2.status = status /\ x2.owner = None /\ x2.run = effects[e].run
      /\ x2.step = effects[e].step /\ x2.attempt = effects[e].attempt /\ x2.claims = effects[e].claims
  <2> HIDE DEF x1
  <2> QED BY <1>1 DEF Effect
<1>3. /\ x3 \in Effect /\ x3.status = status /\ x3.owner = None /\ x3.run = effects[e].run
      /\ x3.step = effects[e].step /\ x3.attempt = effects[e].attempt /\ x3.claims = effects[e].claims
  <2> HIDE DEF x2
  <2> QED BY <1>2 DEF Effect
<1> QED BY <1>3 DEF closed

\* persistClaim gives the effect to its new owner, under the next claim.
LEMMA ClaimedRow ==
  ASSUME StoreTypeOK, PointersOK, RevisionNumbersEvents,
         NEW e \in DOMAIN effects, NEW owner \in Processes, persistClaim(e, owner)
  PROVE  /\ effects' \in Seq(Effect) /\ DOMAIN effects' = DOMAIN effects
         /\ \A f \in DOMAIN effects \ {e} : effects'[f] = effects[f]
         /\ effects[e].status = "PENDING" /\ effects'[e].status = "CLAIMED"
         /\ effects'[e].owner = owner /\ effects'[e].claims = effects[e].claims + 1
         /\ effects'[e].run = effects[e].run /\ effects'[e].step = effects[e].step
<1> DEFINE x1 == [effects[e] EXCEPT !.status = "CLAIMED"]
           x2 == [x1 EXCEPT !.owner = owner]
           x3 == [x2 EXCEPT !.fresh = TRUE]
           x4 == [x3 EXCEPT !.claims = effects[e].claims + 1]
<1>0. effects[e] \in Effect
  BY Rows
<1>1. /\ x1 \in Effect /\ x1.status = "CLAIMED" /\ x1.run = effects[e].run /\ x1.step = effects[e].step
  BY <1>0 DEF Effect, EffectStatus
<1>2. /\ x2 \in Effect /\ x2.status = "CLAIMED" /\ x2.run = effects[e].run /\ x2.step = effects[e].step
      /\ x2.owner = owner
  <2> HIDE DEF x1
  <2> QED BY <1>1 DEF Effect
<1>3. /\ x3 \in Effect /\ x3.status = "CLAIMED" /\ x3.run = effects[e].run /\ x3.step = effects[e].step
      /\ x3.owner = owner
  <2> HIDE DEF x2
  <2> QED BY <1>2 DEF Effect
<1>4. /\ x4 \in Effect /\ x4.status = "CLAIMED" /\ x4.run = effects[e].run /\ x4.step = effects[e].step
      /\ x4.owner = owner /\ x4.claims = effects[e].claims + 1
  <2>1. effects[e].claims + 1 \in Nat
    BY <1>0 DEF Effect
  <2> HIDE DEF x3
  <2> QED BY <1>3, <2>1 DEF Effect
<1>5. effects[e].status = "PENDING" /\ effects' = [effects EXCEPT ![e] = x4]
  BY DEF persistClaim
<1> HIDE DEF x4
<1> QED BY <1>4, <1>5, RowReplaced DEF StoreTypeOK

\* The first row of a step's effect, and its retries.
LEMMA NewRow ==
  ASSUME StoreTypeOK, NEW r \in Nat, NEW key \in Keys, NEW n \in Nat
  PROVE  newEffect(r, key, n) \in Effect
BY EngineAssumption DEF newEffect, Effect, EffectStatus, Processes

\* An effect is closed and the next one appended.
LEMMA EffectAppended ==
  ASSUME StoreTypeOK, PointersOK, RevisionNumbersEvents,
         NEW e \in DOMAIN effects, NEW status \in EffectStatus, NEW x \in Effect,
         effects' = Append([effects EXCEPT ![e] = closed(e, status)], x)
  PROVE  /\ effects' \in Seq(Effect)
         /\ DOMAIN effects' = DOMAIN effects \cup {Len(effects) + 1}
         /\ Len(effects) + 1 \notin DOMAIN effects
         /\ effects'[Len(effects) + 1] = x
         /\ effects'[e] = closed(e, status)
         /\ \A f \in DOMAIN effects \ {e} : effects'[f] = effects[f]
<1> DEFINE done == [effects EXCEPT ![e] = closed(e, status)]
<1>1. /\ done \in Seq(Effect) /\ Len(done) = Len(effects) /\ DOMAIN done = DOMAIN effects
      /\ done[e] = closed(e, status) /\ \A f \in DOMAIN effects \ {e} : done[f] = effects[f]
  BY ClosedRow, RowReplaced DEF StoreTypeOK
<1>2. effects' = Append(done, x)
  OBVIOUS
<1> HIDE DEF done
<1>3. /\ Append(done, x) \in Seq(Effect)
      /\ DOMAIN Append(done, x) = DOMAIN done \cup {Len(done) + 1}
      /\ Len(done) + 1 \notin DOMAIN done
      /\ Append(done, x)[Len(done) + 1] = x
      /\ \A j \in DOMAIN done : Append(done, x)[j] = done[j]
  BY <1>1, RowAppended
<1> QED BY <1>1, <1>2, <1>3

\* While no version is written, runs that keep naming theirs keep it.
LEMMA PointersKept ==
  ASSUME PointersOK, UNCHANGED versions,
         \A q \in DOMAIN runs : runs'[q].def = runs[q].def /\ runs'[q].ver = runs[q].ver
  PROVE  \A q \in DOMAIN runs :
           pinned(q)' = pinned(q) /\ runs'[q].ver \in DOMAIN versions'[runs'[q].def]
BY DEF PointersOK, pinned

----------------------------------------------------------------------------
(* Every write keeps the tables consistent.                                *)

\* No run is started and none moves.
RunsStand ==
  /\ DOMAIN runs' = DOMAIN runs
  /\ \A q \in DOMAIN runs : /\ pinned(q)' = pinned(q) /\ runs'[q].step = runs[q].step
                            /\ runs'[q].status = runs[q].status

\* While runs and effects keep their steps and what they say of being done, each
\* open run keeps its effect.
LEMMA EffectsFollow ==
  ASSUME OneEffectEach, DOMAIN runs' = DOMAIN runs, DOMAIN effects' = DOMAIN effects,
         \A q \in DOMAIN runs : runs'[q].status = runs[q].status /\ runs'[q].step = runs[q].step,
         \A f \in DOMAIN effects :
           /\ effects[f].run \in DOMAIN runs
           /\ effects'[f].run = effects[f].run /\ effects'[f].step = effects[f].step
           /\ stepOf(f)' = stepOf(f) /\ (Live(f)' <=> Live(f))
  PROVE  OneEffectEach'
<1>1. \A q \in DOMAIN runs : Open(q)' <=> Open(q)
  BY DEF Open
<1>2. ASSUME NEW f \in DOMAIN effects', Live(f)'
      PROVE  /\ Open(effects[f].run)'
             /\ runs'[effects'[f].run].step = effects'[f].step
             /\ runs'[effects'[f].run].status = statusFor(stepOf(f)'.executor)
  BY <1>1, <1>2 DEF OneEffectEach
<1>3. ASSUME NEW q \in DOMAIN runs', Open(q)'
      PROVE  \E f \in DOMAIN effects' : Live(f)' /\ effects'[f].run = q
  BY <1>1, <1>3 DEF OneEffectEach
<1>4. \A f, g \in DOMAIN effects' : Live(f)' /\ Live(g)' /\ effects'[f].run = effects'[g].run => f = g
  BY DEF OneEffectEach
<1> QED BY <1>2, <1>3, <1>4 DEF OneEffectEach

\* A claim changes neither the step of the run nor its status.
LEMMA ClaimKeepsData ==
  ASSUME DataOK, UNCHANGED versions, NEW e \in DOMAIN effects, NEW owner \in Processes,
         owner \in Workers => stepOf(e).executor # "human", persistClaim(e, owner)
  PROVE  DataOK' /\ RunsStand
<1> USE DEF DataOK
<1> DEFINE r == effects[e].run
<1>1. /\ effects[e] \in Effect /\ r \in DOMAIN runs /\ runs[r] \in Run
  BY Rows
<1>2. /\ effects' \in Seq(Effect) /\ DOMAIN effects' = DOMAIN effects
      /\ \A f \in DOMAIN effects \ {e} : effects'[f] = effects[f]
      /\ effects[e].status = "PENDING" /\ effects'[e].status = "CLAIMED"
      /\ effects'[e].owner = owner
      /\ effects'[e].run = r /\ effects'[e].step = effects[e].step
  BY ClaimedRow
<1>3. /\ runs' \in Seq(Run) /\ DOMAIN runs' = DOMAIN runs
      /\ \A q \in DOMAIN runs : runs'[q].def = runs[q].def /\ runs'[q].ver = runs[q].ver
      /\ \A q \in DOMAIN runs \ {r} : runs'[q] = runs[q]
      /\ runs'[r].status = runs[r].status /\ runs'[r].step = runs[r].step
      /\ events' \in Seq(Seq(EventType)) /\ RevisionNumbersEvents'
  <2> DEFINE status == runs[r].status
             key == runs[r].step
  <2>1. status \in RunStatus /\ key \in Keys \cup {None}
    BY <1>1 DEF Run
  <2>2. advance(r, status, key, "effect_claimed")
    BY DEF persistClaim
  <2>3. "effect_claimed" \in EventType
    BY DEF EventType
  <2> HIDE DEF r, status, key
  <2>4. /\ runs' \in Seq(Run) /\ DOMAIN runs' = DOMAIN runs
        /\ \A q \in DOMAIN runs : runs'[q].def = runs[q].def /\ runs'[q].ver = runs[q].ver
        /\ \A q \in DOMAIN runs \ {r} : runs'[q] = runs[q]
        /\ runs'[r].status = status /\ runs'[r].step = key
        /\ events' \in Seq(Seq(EventType)) /\ RevisionNumbersEvents'
    BY <1>1, <2>1, <2>2, <2>3, Advance
  <2> QED BY <2>4 DEF status, key
<1>4. StoreTypeOK'
  BY <1>2, <1>3 DEF StoreTypeOK
<1>5. \A q \in DOMAIN runs :
        pinned(q)' = pinned(q) /\ runs'[q].ver \in DOMAIN versions'[runs'[q].def]
  BY <1>3, PointersKept
<1>6. \A f \in DOMAIN effects :
        /\ effects'[f].run = effects[f].run /\ effects'[f].step = effects[f].step
        /\ effects[f].run \in DOMAIN runs /\ stepOf(f)' = stepOf(f)
  <2>1. \A f \in DOMAIN effects : effects'[f].run = effects[f].run /\ effects'[f].step = effects[f].step
    BY <1>2
  <2> QED BY <2>1, <1>3, Rows, StepKept
<1>7. PointersOK'
  BY <1>2, <1>3, <1>5, <1>6 DEF PointersOK
<1>8. \A q \in DOMAIN runs : runs'[q].status = runs[q].status /\ runs'[q].step = runs[q].step
  BY <1>3
<1>9. \A f \in DOMAIN effects : Live(f)' <=> Live(f)
  BY <1>2 DEF Live
<1>10. OneEffectEach'
  BY <1>2, <1>3, <1>6, <1>8, <1>9, EffectsFollow
<1>11. OwnersOK'
  BY <1>2, <1>6 DEF OwnersOK
<1> QED BY <1>3, <1>4, <1>5, <1>7, <1>8, <1>10, <1>11 DEF RunsStand

\* A lease that runs out changes nothing but its own freshness.
LEMMA ExpiryKeepsData ==
  ASSUME DataOK, NEW e \in DOMAIN effects, leaseExpires(e) \/ leaseExpiresEarly(e)
  PROVE  /\ DataOK' /\ DOMAIN effects' = DOMAIN effects /\ RunsStand
         /\ \A f \in DOMAIN effects : /\ effects'[f].owner = effects[f].owner
                                      /\ effects'[f].claims = effects[f].claims
                                      /\ effects'[f].status = effects[f].status
<1> USE DEF DataOK
<1> DEFINE row == [effects[e] EXCEPT !.fresh = FALSE]
<1>1. /\ row \in Effect /\ row.run = effects[e].run /\ row.step = effects[e].step
      /\ row.status = effects[e].status /\ row.owner = effects[e].owner
      /\ row.claims = effects[e].claims
  <2>1. effects[e] \in Effect
    BY Rows
  <2> QED BY <2>1 DEF Effect
<1>2. effects' = [effects EXCEPT ![e] = row] /\ UNCHANGED <<versions, runs, events>>
  BY DEF leaseExpires, leaseExpiresEarly
<1> HIDE DEF row
<1>3. /\ effects' \in Seq(Effect) /\ DOMAIN effects' = DOMAIN effects
      /\ effects'[e] = row /\ \A f \in DOMAIN effects \ {e} : effects'[f] = effects[f]
  <2>1. effects \in Seq(Effect)
    BY DEF StoreTypeOK
  <2> QED BY <1>1, <1>2, <2>1, RowReplaced
<1>4. \A f \in DOMAIN effects :
        /\ effects'[f].run = effects[f].run /\ effects'[f].step = effects[f].step
        /\ effects'[f].status = effects[f].status /\ effects'[f].owner = effects[f].owner
        /\ effects'[f].claims = effects[f].claims
  BY <1>1, <1>3
<1>5. \A f \in DOMAIN effects : stepOf(f)' = stepOf(f) /\ (Live(f)' <=> Live(f))
  BY <1>2, <1>4, StepKept DEF Live
<1>6. \A q \in DOMAIN runs : pinned(q)' = pinned(q)
  BY <1>2, PointersKept
<1>7. StoreTypeOK' /\ RevisionNumbersEvents'
  BY <1>2, <1>3 DEF StoreTypeOK, RevisionNumbersEvents
<1>8. PointersOK'
  BY <1>2, <1>3, <1>4, <1>6, Rows DEF PointersOK
<1>9. OneEffectEach'
  BY <1>2, <1>3, <1>4, <1>5, Rows, EffectsFollow
<1>10. OwnersOK'
  BY <1>3, <1>4, <1>5 DEF OwnersOK
<1>11. RunsStand
  BY <1>2, <1>6 DEF RunsStand
<1> QED BY <1>3, <1>4, <1>7, <1>8, <1>9, <1>10, <1>11

\* Claims are never forgotten, and an owner is never replaced by another one.
OwnersOnlyLeave ==
  \A f \in DOMAIN effects : /\ f \in DOMAIN effects'
                            /\ effects'[f].claims = effects[f].claims
                            /\ effects'[f].owner \in {effects[f].owner, None}

\* The effect that is done is closed and its run ends: nobody works for it.
LEMMA EndKeepsData ==
  ASSUME DataOK, UNCHANGED versions, NEW e \in DOMAIN effects, Live(e),
         NEW status \in {"COMPLETED", "FAILED"}, NEW ending \in {"COMPLETED", "FAILED"},
         NEW key \in Keys \cup {None}, NEW type \in EventType,
         effects' = [effects EXCEPT ![e] = closed(e, status)],
         advance(effects[e].run, ending, key, type)
  PROVE  /\ DataOK' /\ OwnersOnlyLeave
         /\ \A f \in DOMAIN effects \ {e} : effects'[f].status = effects[f].status
<1> USE DEF DataOK
<1>1. PICK r \in DOMAIN runs : r = effects[e].run
  BY Rows
<1>2. /\ effects' \in Seq(Effect) /\ DOMAIN effects' = DOMAIN effects
      /\ \A f \in DOMAIN effects \ {e} : effects'[f] = effects[f]
      /\ effects'[e].status = status /\ effects'[e].owner = None
      /\ effects'[e].run = r /\ effects'[e].step = effects[e].step
      /\ effects'[e].claims = effects[e].claims
  <2>1. status \in EffectStatus
    BY DEF EffectStatus
  <2>2. effects \in Seq(Effect)
    BY DEF StoreTypeOK
  <2> QED BY <1>1, <2>1, <2>2, ClosedRow, RowReplaced
<1>3. /\ runs' \in Seq(Run) /\ DOMAIN runs' = DOMAIN runs
      /\ \A q \in DOMAIN runs : runs'[q].def = runs[q].def /\ runs'[q].ver = runs[q].ver
      /\ \A q \in DOMAIN runs \ {r} : runs'[q] = runs[q]
      /\ runs'[r].status = ending /\ runs'[r].step = key
      /\ events' \in Seq(Seq(EventType)) /\ RevisionNumbersEvents'
  <2>1. ending \in RunStatus /\ advance(r, ending, key, type)
    BY <1>1 DEF RunStatus
  <2> QED BY <1>1, <2>1, Advance
<1>4. StoreTypeOK'
  BY <1>2, <1>3 DEF StoreTypeOK
<1>5. \A q \in DOMAIN runs :
        pinned(q)' = pinned(q) /\ runs'[q].ver \in DOMAIN versions'[runs'[q].def]
  BY <1>3, PointersKept
<1>6. \A f \in DOMAIN effects :
        /\ effects'[f].run = effects[f].run /\ effects'[f].step = effects[f].step
        /\ effects[f].run \in DOMAIN runs /\ stepOf(f)' = stepOf(f)
  <2>1. \A f \in DOMAIN effects : effects'[f].run = effects[f].run /\ effects'[f].step = effects[f].step
    BY <1>1, <1>2
  <2> QED BY <2>1, <1>3, Rows, StepKept
<1>7. PointersOK'
  BY <1>2, <1>3, <1>5, <1>6, Rows DEF PointersOK
<1>8. ASSUME NEW f \in DOMAIN effects, Live(f)'
      PROVE  f # e /\ Live(f) /\ effects[f].run # r
  <2>1. f # e /\ Live(f)
    BY <1>2, <1>8 DEF Live
  <2> QED BY <1>1, <2>1 DEF OneEffectEach
<1>9. ~Open(r)' /\ \A q \in DOMAIN runs \ {r} : Open(q)' <=> Open(q)
  BY <1>3 DEF Open
<1>10. ASSUME NEW f \in DOMAIN effects', Live(f)'
       PROVE  /\ Open(effects[f].run)'
              /\ runs'[effects'[f].run].step = effects'[f].step
              /\ runs'[effects'[f].run].status = statusFor(stepOf(f)'.executor)
  <2>1. f \in DOMAIN effects /\ Live(f) /\ effects[f].run # r /\ effects[f].run \in DOMAIN runs
    BY <1>2, <1>6, <1>8, <1>10
  <2>2. /\ Open(effects[f].run) /\ runs[effects[f].run].step = effects[f].step
        /\ runs[effects[f].run].status = statusFor(stepOf(f).executor)
    BY <2>1 DEF OneEffectEach
  <2>3. runs'[effects[f].run] = runs[effects[f].run] /\ effects'[f].run = effects[f].run
    BY <1>3, <1>6, <2>1
  <2> QED BY <1>6, <2>1, <2>2, <2>3 DEF Open
<1>11. ASSUME NEW q \in DOMAIN runs', Open(q)'
       PROVE  \E f \in DOMAIN effects' : Live(f)' /\ effects'[f].run = q
  <2>1. q \in DOMAIN runs /\ q # r /\ Open(q)
    BY <1>3, <1>9, <1>11
  <2>2. PICK f \in DOMAIN effects : Live(f) /\ effects[f].run = q
    BY <2>1 DEF OneEffectEach
  <2> QED BY <1>1, <1>2, <2>1, <2>2 DEF Live
<1>12. \A f, g \in DOMAIN effects' : Live(f)' /\ Live(g)' /\ effects'[f].run = effects'[g].run => f = g
  BY <1>2, <1>6, <1>8 DEF OneEffectEach
<1>13. OneEffectEach'
  BY <1>10, <1>11, <1>12 DEF OneEffectEach
<1>14. OwnersOK'
  BY <1>2, <1>6, EngineAssumption DEF OwnersOK
<1>15. OwnersOnlyLeave /\ \A f \in DOMAIN effects \ {e} : effects'[f].status = effects[f].status
  BY <1>2 DEF OwnersOnlyLeave
<1> QED BY <1>3, <1>4, <1>7, <1>13, <1>14, <1>15

\* The effect that is done is closed and the next one stands where the run now
\* stands: the next step of the run, or the same one again.
LEMMA MoveKeepsData ==
  ASSUME DataOK, UNCHANGED versions, NEW e \in DOMAIN effects, Live(e),
         NEW status \in {"COMPLETED", "FAILED"}, NEW n \in Nat,
         NEW key \in StepKeys(pinned(effects[e].run)), NEW type \in EventType,
         effects' = Append([effects EXCEPT ![e] = closed(e, status)],
                           newEffect(effects[e].run, key, n)),
         advance(effects[e].run, statusFor(step(pinned(effects[e].run), key).executor), key, type)
  PROVE  /\ DataOK' /\ OwnersOnlyLeave
         /\ \A f \in DOMAIN effects \ {e} : effects'[f].status = effects[f].status
<1> USE DEF DataOK
<1>0. PICK new \in Nat : new = Len(effects) + 1
  BY LenProperties DEF StoreTypeOK
<1>1. PICK r \in DOMAIN runs : r = effects[e].run
  BY Rows
<1>2. PICK d \in Sound : d = pinned(r)
  BY PinnedSound
<1>3. key \in Keys /\ r \in Nat /\ key \in StepKeys(d)
  BY <1>1, <1>2, SoundDefinition, Rows
<1>4. PICK x \in Effect : x = newEffect(r, key, n)
  BY <1>3, NewRow
<1>5. x.run = r /\ x.step = key /\ x.status = "PENDING" /\ x.owner = None
  BY <1>4 DEF newEffect
<1>6. /\ effects' \in Seq(Effect) /\ DOMAIN effects' = DOMAIN effects \cup {new}
      /\ new \notin DOMAIN effects /\ effects'[new] = x
      /\ \A f \in DOMAIN effects \ {e} : effects'[f] = effects[f]
      /\ effects'[e].status = status /\ effects'[e].owner = None
      /\ effects'[e].run = r /\ effects'[e].step = effects[e].step
      /\ effects'[e].claims = effects[e].claims
  <2>1. status \in EffectStatus
    BY DEF EffectStatus
  <2>2. effects' = Append([effects EXCEPT ![e] = closed(e, status)], x)
    BY <1>1, <1>4
  <2> QED BY <1>0, <1>1, <2>1, <2>2, ClosedRow, EffectAppended
<1>7. PICK standing \in RunStatus : standing = statusFor(step(d, key).executor)
  BY DEF RunStatus, statusFor
<1>8. /\ runs' \in Seq(Run) /\ DOMAIN runs' = DOMAIN runs
      /\ \A q \in DOMAIN runs : runs'[q].def = runs[q].def /\ runs'[q].ver = runs[q].ver
      /\ \A q \in DOMAIN runs \ {r} : runs'[q] = runs[q]
      /\ runs'[r].status = standing /\ runs'[r].step = key
      /\ events' \in Seq(Seq(EventType)) /\ RevisionNumbersEvents'
  <2>1. advance(r, standing, key, type)
    BY <1>1, <1>2, <1>7
  <2> QED BY <1>3, <2>1, Advance
<1>9. StoreTypeOK'
  BY <1>6, <1>8 DEF StoreTypeOK
<1>10. \A q \in DOMAIN runs :
         pinned(q)' = pinned(q) /\ runs'[q].ver \in DOMAIN versions'[runs'[q].def]
  BY <1>8, PointersKept
<1>11. \A f \in DOMAIN effects :
         /\ effects'[f].run = effects[f].run /\ effects'[f].step = effects[f].step
         /\ effects[f].run \in DOMAIN runs /\ stepOf(f)' = stepOf(f)
  <2>1. \A f \in DOMAIN effects : effects'[f].run = effects[f].run /\ effects'[f].step = effects[f].step
    BY <1>1, <1>6
  <2> QED BY <2>1, <1>8, Rows, StepKept
<1>12. /\ effects'[new].run = r /\ effects'[new].step = key /\ effects'[new].status = "PENDING"
       /\ effects'[new].owner = None
  BY <1>5, <1>6
<1>13. stepOf(new)' = step(d, key) /\ key \in StepKeys(pinned(r)')
  <2>1. pinned(r)' = d
    BY <1>2, <1>10
  <2>2. stepOf(new)' = step(pinned(r)', key)
    BY <1>12 DEF stepOf, pinned
  <2> QED BY <1>3, <2>1, <2>2
<1>14. PointersOK'
  <2>1. \A q \in DOMAIN runs' : runs'[q].ver \in DOMAIN versions'[runs'[q].def]
    BY <1>8, <1>10
  <2>2. ASSUME NEW f \in DOMAIN effects'
        PROVE  effects'[f].run \in DOMAIN runs' /\ effects'[f].step \in StepKeys(pinned(effects[f].run)')
    <3>1. CASE f = new
      BY <1>8, <1>12, <1>13, <3>1
    <3>2. CASE f \in DOMAIN effects
      <4>1. effects[f].run \in DOMAIN runs /\ effects[f].step \in StepKeys(pinned(effects[f].run))
        BY <3>2, Rows
      <4>2. pinned(effects[f].run)' = pinned(effects[f].run) /\ effects'[f].run = effects[f].run
            /\ effects'[f].step = effects[f].step
        BY <1>10, <1>11, <3>2, <4>1
      <4> QED BY <1>8, <4>1, <4>2
    <3> QED BY <1>6, <3>1, <3>2
  <2> QED BY <2>1, <2>2 DEF PointersOK
<1>15. ASSUME NEW f \in DOMAIN effects, Live(f)'
       PROVE  f # e /\ Live(f) /\ effects[f].run # r
  <2>1. f # e /\ Live(f)
    BY <1>6, <1>15 DEF Live
  <2> QED BY <1>1, <2>1 DEF OneEffectEach
<1>16. /\ Open(r)' /\ Open(r) /\ Live(new)'
       /\ \A q \in DOMAIN runs \ {r} : Open(q)' <=> Open(q)
  <2>1. standing \in {"RUNNING", "WAITING"}
    BY <1>7 DEF statusFor
  <2> QED BY <1>1, <1>8, <1>12, <2>1 DEF Open, Live, OneEffectEach
<1>17. ASSUME NEW f \in DOMAIN effects', Live(f)'
       PROVE  /\ Open(effects[f].run)'
              /\ runs'[effects'[f].run].step = effects'[f].step
              /\ runs'[effects'[f].run].status = statusFor(stepOf(f)'.executor)
  <2>1. CASE f = new
    BY <1>7, <1>8, <1>12, <1>13, <1>16, <2>1
  <2>2. CASE f \in DOMAIN effects
    <3>1. Live(f) /\ effects[f].run # r /\ effects[f].run \in DOMAIN runs
      BY <1>11, <1>15, <1>17, <2>2
    <3>2. /\ Open(effects[f].run) /\ runs[effects[f].run].step = effects[f].step
          /\ runs[effects[f].run].status = statusFor(stepOf(f).executor)
      BY <2>2, <3>1 DEF OneEffectEach
    <3>3. runs'[effects[f].run] = runs[effects[f].run] /\ effects'[f].run = effects[f].run
      BY <1>8, <1>11, <2>2, <3>1
    <3> QED BY <1>11, <2>2, <3>1, <3>2, <3>3 DEF Open
  <2> QED BY <1>6, <2>1, <2>2
<1>18. ASSUME NEW q \in DOMAIN runs', Open(q)'
       PROVE  \E f \in DOMAIN effects' : Live(f)' /\ effects'[f].run = q
  <2>1. CASE q = r
    BY <1>6, <1>12, <1>16, <2>1
  <2>2. CASE q # r
    <3>1. q \in DOMAIN runs /\ Open(q)
      BY <1>8, <1>16, <1>18, <2>2
    <3>2. PICK f \in DOMAIN effects : Live(f) /\ effects[f].run = q
      BY <3>1 DEF OneEffectEach
    <3> QED BY <1>1, <1>6, <2>2, <3>2 DEF Live
  <2> QED BY <2>1, <2>2
<1>19. \A f, g \in DOMAIN effects' : Live(f)' /\ Live(g)' /\ effects'[f].run = effects'[g].run => f = g
  <2> SUFFICES ASSUME NEW f \in DOMAIN effects', NEW g \in DOMAIN effects', Live(f)', Live(g)',
                      effects'[f].run = effects'[g].run
               PROVE  f = g
    OBVIOUS
  <2>1. \A h \in {f, g} : h = new \/ (h \in DOMAIN effects /\ Live(h) /\ effects[h].run # r
                                       /\ effects'[h].run = effects[h].run)
    BY <1>6, <1>11, <1>15
  <2> QED BY <1>12, <2>1 DEF OneEffectEach
<1>20. OneEffectEach'
  BY <1>17, <1>18, <1>19 DEF OneEffectEach
<1>21. OwnersOK'
  BY <1>6, <1>11, <1>12, EngineAssumption DEF OwnersOK
<1>22. OwnersOnlyLeave /\ \A f \in DOMAIN effects \ {e} : effects'[f].status = effects[f].status
  BY <1>6 DEF OwnersOnlyLeave
<1> QED BY <1>8, <1>9, <1>14, <1>20, <1>21, <1>22

\* Some route matches and the one of lowest priority is taken.
LEMMA RouteTaken ==
  ASSUME DataOK, NEW e \in DOMAIN effects, NEW output, matching(e, output) # {}
  PROVE  \E q \in Range(pinned(effects[e].run).routes) :
           /\ q.from = effects[e].step /\ q.target = routeTarget(e, output)
           /\ q.target = None \/ q.target \in StepKeys(pinned(effects[e].run))
<1> DEFINE d == pinned(effects[e].run)
           M == matching(e, output)
           P == {q.priority : q \in M}
<1>1. effects[e].run \in DOMAIN runs
  BY Rows DEF DataOK
<1>2. d \in Sound
  BY <1>1, PinnedSound DEF DataOK
<1>3. M \subseteq Range(d.routes) /\ \A q \in M : q.from = effects[e].step
  BY DEF matching
<1>4. \A q \in M : q.priority \in Nat /\ (q.target = None \/ q.target \in StepKeys(d))
  <2> HIDE DEF d, M
  <2> QED BY <1>2, <1>3, SoundDefinition
<1>5. P \in SUBSET Nat /\ P # {}
  BY <1>4
<1>6. PICK x \in P : \A y \in P : x <= y
  <2> HIDE DEF P
  <2> QED BY <1>5, LeastElement
<1>7. \E q \in M : \A p \in M : q.priority <= p.priority
  BY <1>6
<1>8. PICK q \in M : q = (CHOOSE m \in M : \A p \in M : m.priority <= p.priority)
  <2> HIDE DEF M
  <2> QED BY <1>7
<1>9. q.target = routeTarget(e, output)
  BY <1>8 DEF routeTarget
<1> QED BY <1>3, <1>4, <1>8, <1>9

\* An answer moves the run along a route of its version, or ends it.
LEMMA CompleteKeepsData ==
  ASSUME DataOK, UNCHANGED versions, NEW e \in DOMAIN effects, NEW owner, NEW output,
         completable(e, owner, output), complete(e, output)
  PROVE  /\ DataOK' /\ OwnersOnlyLeave
         /\ \A f \in DOMAIN effects \ {e} : effects'[f].status = effects[f].status
<1>1. Live(e)
  BY DEF completable, claimed, Live
<1>2. PICK q \in Range(pinned(effects[e].run).routes) :
        /\ q.target = routeTarget(e, output)
        /\ q.target = None \/ q.target \in StepKeys(pinned(effects[e].run))
  BY RouteTaken DEF completable
<1>3. CASE /\ q.target = None
           /\ effects' = [effects EXCEPT ![e] = closed(e, "COMPLETED")]
           /\ advance(effects[e].run, "COMPLETED", None, "completed")
  BY <1>1, <1>3, EndKeepsData DEF EventType
<1>4. CASE /\ q.target # None
           /\ effects' = Append([effects EXCEPT ![e] = closed(e, "COMPLETED")],
                                newEffect(effects[e].run, q.target, 1))
           /\ advance(effects[e].run, statusFor(step(pinned(effects[e].run), q.target).executor),
                      q.target, "step_advanced")
  BY <1>1, <1>2, <1>4, MoveKeepsData DEF EventType
<1> QED BY <1>2, <1>3, <1>4 DEF complete

\* A failure opens the next attempt of the same step, or ends the run.
LEMMA FailKeepsData ==
  ASSUME DataOK, UNCHANGED versions, NEW e \in DOMAIN effects, NEW w \in Workers,
         claimed(e, w), NEW retryable, failEffect(e, retryable)
  PROVE  /\ DataOK' /\ OwnersOnlyLeave
         /\ \A f \in DOMAIN effects \ {e} : effects'[f].status = effects[f].status
<1>1. Live(e) /\ effects[e].owner = w
  BY DEF claimed, Live
<1>2. /\ effects[e] \in Effect /\ effects[e].run \in DOMAIN runs
      /\ effects[e].step \in StepKeys(pinned(effects[e].run))
  BY Rows DEF DataOK
<1>3. runs[effects[e].run].step = effects[e].step /\ stepOf(e).executor # "human"
  BY <1>1 DEF DataOK, OneEffectEach, OwnersOK
<1>4. CASE scheduleRetry(e)
  <2>1. statusFor(step(pinned(effects[e].run), effects[e].step).executor) = "RUNNING"
    BY <1>3 DEF statusFor, stepOf
  <2>2. effects[e].attempt + 1 \in Nat
    BY <1>2 DEF Effect
  <2>3. /\ effects' = Append([effects EXCEPT ![e] = closed(e, "FAILED")],
               newEffect(effects[e].run, effects[e].step, effects[e].attempt + 1))
        /\ advance(effects[e].run, "RUNNING", effects[e].step, "effect_retry_scheduled")
    BY <1>3, <1>4 DEF scheduleRetry
  <2> QED BY <1>1, <1>2, <2>1, <2>2, <2>3, MoveKeepsData DEF EventType
<1>5. CASE failWorkflow(e)
  <2>1. effects[e].step \in Keys
    BY <1>2 DEF Effect
  <2>2. /\ effects' = [effects EXCEPT ![e] = closed(e, "FAILED")]
        /\ advance(effects[e].run, "FAILED", effects[e].step, "failed")
    BY <1>3, <1>5 DEF failWorkflow
  <2> QED BY <1>1, <2>1, <2>2, EndKeepsData DEF EventType
<1> QED BY <1>4, <1>5 DEF failEffect

\* Rewriting every row of a table.
LEMMA RowsRewritten ==
  ASSUME NEW S, NEW s \in Seq(S), NEW t, DOMAIN t = DOMAIN s, t = [j \in DOMAIN s |-> t[j]],
         \A j \in DOMAIN s : t[j] \in S
  PROVE  t \in Seq(S) /\ Len(t) = Len(s)
<1>1. Len(s) \in Nat /\ DOMAIN s = 1..Len(s)
  BY LenProperties
<1>2. t \in [1..Len(s) -> S]
  BY <1>1
<1>3. t \in Seq(S)
  BY <1>1, <1>2, SeqDef
<1>4. Len(t) \in Nat /\ DOMAIN t = 1..Len(t)
  BY <1>3, LenProperties
<1>5. Len(t) = Len(s)
  BY <1>1, <1>4
<1> QED BY <1>3, <1>5

\* Recovering gives the expired effects back to be claimed; their runs stay where
\* they are, with the status they had.
LEMMA RecoverKeepsData ==
  ASSUME DataOK, UNCHANGED versions, recoverExpired
  PROVE  /\ DataOK' /\ OwnersOnlyLeave /\ RunsStand
         /\ \A f \in DOMAIN effects : effects'[f].status \in {effects[f].status, "PENDING"}
<1> USE DEF DataOK
<1> DEFINE hit == {effects[e].run : e \in expired}
           one(r) == CHOOSE e \in expired : effects[e].run = r
<1>1. \A e \in expired : e \in DOMAIN effects /\ Live(e) /\ effects[e].run \in DOMAIN runs
  BY Rows DEF expired, Live
<1>2. \A r \in hit : /\ r \in DOMAIN runs
                     /\ statusFor(stepOf(one(r)).executor) = runs[r].status
  <2>1. ASSUME NEW r \in hit PROVE one(r) \in expired /\ effects[one(r)].run = r
    OBVIOUS
  <2> HIDE DEF hit, one
  <2> QED BY <1>1, <2>1 DEF OneEffectEach
<1>3. ASSUME NEW f \in DOMAIN effects
      PROVE  /\ effects'[f] = IF f \in expired THEN closed(f, "PENDING") ELSE effects[f]
             /\ effects'[f] \in Effect
             /\ effects'[f].run = effects[f].run /\ effects'[f].step = effects[f].step
             /\ effects'[f].claims = effects[f].claims
             /\ effects'[f].owner \in {effects[f].owner, None}
             /\ effects'[f].status \in {effects[f].status, "PENDING"}
             /\ Live(f)' <=> Live(f)
             /\ effects'[f].owner # None => effects'[f].owner = effects[f].owner
                                            /\ effects'[f].status = effects[f].status
  <2>1. effects'[f] = IF f \in expired THEN closed(f, "PENDING") ELSE effects[f]
    BY DEF recoverExpired
  <2>2. "PENDING" \in EffectStatus /\ effects[f] \in Effect
    BY Rows DEF EffectStatus
  <2>3. CASE f \in expired
    BY <1>1, <2>1, <2>2, <2>3, ClosedRow DEF Live
  <2>4. CASE f \notin expired
    BY <2>1, <2>2, <2>4 DEF Live
  <2> QED BY <2>1, <2>3, <2>4
<1>4. effects' \in Seq(Effect) /\ DOMAIN effects' = DOMAIN effects
  <2>1. /\ DOMAIN effects' = DOMAIN effects /\ effects \in Seq(Effect)
        /\ effects' = [f \in DOMAIN effects |-> effects'[f]]
    BY DEF recoverExpired, StoreTypeOK
  <2> QED BY <1>3, <2>1, RowsRewritten
<1>5. ASSUME NEW q \in DOMAIN runs
      PROVE  /\ runs'[q] \in Run /\ runs'[q].def = runs[q].def /\ runs'[q].ver = runs[q].ver
             /\ runs'[q].status = runs[q].status /\ runs'[q].step = runs[q].step
             /\ runs'[q].revision = runs[q].revision + (IF q \in hit THEN 1 ELSE 0)
  <2>1. runs[q] \in Run
    BY Rows
  <2>2. runs'[q] = IF q \in hit THEN [runs[q] EXCEPT !.status = statusFor(stepOf(one(q)).executor),
                                                    !.revision = @ + 1]
                   ELSE runs[q]
    BY DEF recoverExpired
  <2>3. CASE q \in hit
    <3> DEFINE x1 == [runs[q] EXCEPT !.status = runs[q].status]
               x2 == [x1 EXCEPT !.revision = runs[q].revision + 1]
    <3>1. /\ x1 \in Run /\ x1.def = runs[q].def /\ x1.ver = runs[q].ver
          /\ x1.status = runs[q].status /\ x1.step = runs[q].step
      BY <2>1 DEF Run
    <3>2. /\ x2 \in Run /\ x2.def = runs[q].def /\ x2.ver = runs[q].ver
          /\ x2.status = runs[q].status /\ x2.step = runs[q].step
          /\ x2.revision = runs[q].revision + 1
      <4>1. runs[q].revision + 1 \in Nat
        BY <2>1 DEF Run
      <4> HIDE DEF x1
      <4> QED BY <3>1, <4>1 DEF Run
    <3>3. runs'[q] = x2
      <4>1. statusFor(stepOf(one(q)).executor) = runs[q].status
        BY <1>2, <2>3
      <4> QED BY <2>2, <2>3, <4>1
    <3> HIDE DEF x2
    <3> QED BY <2>3, <3>2, <3>3
  <2>4. CASE q \notin hit
    <3>1. runs'[q] = runs[q]
      BY <2>2, <2>4
    <3>2. runs[q].revision \in Nat
      BY <2>1 DEF Run
    <3> QED BY <2>1, <2>4, <3>1, <3>2
  <2> QED BY <2>3, <2>4
<1>6. runs' \in Seq(Run) /\ DOMAIN runs' = DOMAIN runs /\ Len(runs') = Len(runs)
  <2>1. /\ DOMAIN runs' = DOMAIN runs /\ runs \in Seq(Run)
        /\ runs' = [q \in DOMAIN runs |-> runs'[q]]
    BY DEF recoverExpired, StoreTypeOK
  <2> QED BY <1>5, <2>1, RowsRewritten
<1>7. ASSUME NEW q \in DOMAIN runs
      PROVE  /\ events'[q] \in Seq(EventType)
             /\ Len(events'[q]) = runs[q].revision + (IF q \in hit THEN 1 ELSE 0)
  <2>1. q \in DOMAIN events /\ events[q] \in Seq(EventType) /\ Len(events[q]) = runs[q].revision
    BY Rows DEF RevisionNumbersEvents
  <2>2. events'[q] = IF q \in hit THEN Append(events[q], "effect_recovered") ELSE events[q]
    BY <2>1 DEF recoverExpired
  <2>3. "effect_recovered" \in EventType
    BY DEF EventType
  <2>4. /\ Append(events[q], "effect_recovered") \in Seq(EventType)
        /\ Len(Append(events[q], "effect_recovered")) = Len(events[q]) + 1
        /\ Len(events[q]) \in Nat
    BY <2>1, <2>3, AppendProperties, LenProperties
  <2> HIDE DEF hit
  <2> QED BY <2>1, <2>2, <2>4
<1>8. events' \in Seq(Seq(EventType)) /\ Len(events') = Len(events) /\ DOMAIN events' = DOMAIN events
  <2>1. DOMAIN events = DOMAIN runs
    BY LenProperties DEF RevisionNumbersEvents, StoreTypeOK
  <2>2. /\ DOMAIN events' = DOMAIN events /\ events \in Seq(Seq(EventType))
        /\ events' = [q \in DOMAIN events |-> events'[q]]
    BY DEF recoverExpired, StoreTypeOK
  <2> QED BY <1>7, <2>1, <2>2, RowsRewritten
<1> HIDE DEF hit, one
<1>9. StoreTypeOK'
  BY <1>4, <1>6, <1>8 DEF StoreTypeOK
<1>10. RevisionNumbersEvents'
  BY <1>5, <1>6, <1>7, <1>8 DEF RevisionNumbersEvents
<1>11. \A f \in DOMAIN effects : stepOf(f)' = stepOf(f) /\ effects[f].run \in DOMAIN runs
  BY <1>3, <1>5, Rows, StepKept
<1>12. PointersOK'
  <2>1. \A q \in DOMAIN runs :
          pinned(q)' = pinned(q) /\ runs'[q].ver \in DOMAIN versions'[runs'[q].def]
    BY <1>5, PointersKept
  <2> QED BY <1>3, <1>4, <1>6, <2>1, Rows DEF PointersOK
<1>13. OneEffectEach'
  BY <1>3, <1>4, <1>5, <1>6, <1>11, EffectsFollow
<1>14. OwnersOK'
  BY <1>3, <1>4, <1>11, EngineAssumption DEF OwnersOK
<1>15. RunsStand
  BY <1>5, <1>6, PointersKept DEF RunsStand
<1> QED BY <1>15, <1>3, <1>4, <1>9, <1>10, <1>12, <1>13, <1>14 DEF OwnersOnlyLeave

\* Registering a version keeps the body of every stored one.
LEMMA SaveKeepsBodies ==
  ASSUME StoreTypeOK, NEW d \in Sound, saveDefinition(d)
  PROVE  /\ versions' \in [Ids -> Seq(Version)]
         /\ \A id \in Ids : \A v \in DOMAIN versions[id] :
              v \in DOMAIN versions'[id] /\ versions'[id][v].body = versions[id][v].body
<1>1. CASE d.id \notin Ids
  <2>1. versions' = versions
    BY <1>1 DEF saveDefinition, StoreTypeOK
  <2> QED BY <2>1 DEF StoreTypeOK
<1>2. CASE d.id \in Ids
  <2>1. PICK old \in Seq(Version) : old = versions[d.id]
    BY <1>2 DEF StoreTypeOK
  <2> DEFINE retiredRows == [i \in DOMAIN old |-> [old[i] EXCEPT !.status = "RETIRED"]]
             row == [status |-> "ACTIVE", body |-> d]
  <2>2. \A i \in DOMAIN old : retiredRows[i] \in Version /\ retiredRows[i].body = old[i].body
    <3>1. \A i \in DOMAIN old : old[i] \in Version
      BY ElementOfSeq, LenProperties
    <3> QED BY <3>1 DEF Version
  <2>3. retiredRows \in Seq(Version) /\ DOMAIN retiredRows = DOMAIN old
    BY <2>2, RowsRewritten
  <2>4. row \in Version
    BY DEF Version
  <2>5. versions' = [versions EXCEPT ![d.id] = Append(retiredRows, row)]
    BY <2>1 DEF saveDefinition
  <2> HIDE DEF retiredRows, row
  <2>6. /\ Append(retiredRows, row) \in Seq(Version)
        /\ \A i \in DOMAIN old : /\ i \in DOMAIN Append(retiredRows, row)
                                 /\ Append(retiredRows, row)[i].body = old[i].body
    BY <2>2, <2>3, <2>4, RowAppended
  <2>7. /\ versions'[d.id] = Append(retiredRows, row)
        /\ \A id \in Ids \ {d.id} : versions'[id] = versions[id]
        /\ versions' \in [Ids -> Seq(Version)]
    BY <1>2, <2>5, <2>6 DEF StoreTypeOK
  <2> QED BY <2>1, <2>6, <2>7
<1> QED BY <1>1, <1>2

\* A registered version concerns no run that was started before.
LEMMA RegisterKeepsData ==
  ASSUME DataOK, NEW d \in Candidates, registerWorkflowDefinition(d)
  PROVE  DataOK' /\ RunsStand
<1> USE DEF DataOK
<1>1. UNCHANGED <<runs, effects, events>> /\ d \in Sound /\ saveDefinition(d)
  BY DEF registerWorkflowDefinition, stored, Sound
<1>2. /\ versions' \in [Ids -> Seq(Version)]
      /\ \A id \in Ids : \A v \in DOMAIN versions[id] :
           v \in DOMAIN versions'[id] /\ versions'[id][v].body = versions[id][v].body
  BY <1>1, SaveKeepsBodies
<1>3. ASSUME NEW r \in DOMAIN runs
      PROVE  pinned(r)' = pinned(r) /\ runs[r].ver \in DOMAIN versions'[runs[r].def]
  <2>1. runs[r].def \in Ids /\ runs[r].ver \in DOMAIN versions[runs[r].def]
    BY Rows DEF Run, PointersOK
  <2> QED BY <1>1, <1>2, <2>1 DEF pinned
<1>4. \A e \in DOMAIN effects : stepOf(e)' = stepOf(e) /\ effects[e].run \in DOMAIN runs
  BY <1>1, <1>3, Rows DEF stepOf
<1>5. StoreTypeOK' /\ RevisionNumbersEvents'
  BY <1>1, <1>2 DEF StoreTypeOK, RevisionNumbersEvents
<1>6. PointersOK'
  BY <1>1, <1>3, Rows DEF PointersOK
<1>7. OneEffectEach'
  BY <1>1, <1>4, EffectsFollow DEF Live
<1>8. OwnersOK'
  BY <1>1, <1>4 DEF OwnersOK
<1>9. RunsStand
  BY <1>1, <1>3 DEF RunsStand
<1> QED BY <1>9, <1>5, <1>6, <1>7, <1>8

\* A started run stands at the first step of its version, with the effect of
\* that step and one event.
LEMMA StartKeepsData ==
  ASSUME DataOK, NEW id \in Ids, NEW asked, NEW contract, startWorkflow(id, asked, contract)
  PROVE  /\ DataOK' /\ OwnersOnlyLeave
         /\ \A f \in DOMAIN effects : effects'[f] = effects[f]
         /\ \E d \in Sound : \E x \in Run :
              /\ runs' = Append(runs, x) /\ x.step = d.start /\ x.status \in {"RUNNING", "WAITING"}
              /\ d = versions[x.def][x.ver].body
<1> USE DEF DataOK
<1>1. UNCHANGED versions
  BY DEF startWorkflow
<1>2. PICK v \in DOMAIN versions[id] : insertRun(id, v)
  BY DEF startWorkflow, definition
<1>3. PICK d \in Sound : d = versions[id][v].body
  <2>1. versions[id] \in Seq(Version)
    BY DEF StoreTypeOK
  <2>2. versions[id][v] \in Version /\ v \in Nat
    BY <2>1, ElementOfSeq, LenProperties
  <2> QED BY <2>2 DEF Version
<1>4. d.start \in StepKeys(d) /\ d.start \in Keys /\ v \in Nat
  <2>1. versions[id] \in Seq(Version)
    BY DEF StoreTypeOK
  <2>2. v \in Nat
    BY <2>1, LenProperties
  <2> QED BY <2>2, SoundDefinition
<1>5. PICK x \in Run : x = [def |-> id, ver |-> v, step |-> d.start,
               status |-> statusFor(step(d, d.start).executor), revision |-> 1]
  <2> DEFINE standing == statusFor(step(d, d.start).executor)
  <2>1. standing \in RunStatus
    BY DEF RunStatus, statusFor
  <2> HIDE DEF standing
  <2>2. [def |-> id, ver |-> v, step |-> d.start, status |-> standing, revision |-> 1] \in Run
    BY <1>4, <2>1 DEF Run
  <2> QED BY <2>2 DEF standing
<1>6. PICK n \in Nat : n = Len(runs) + 1
  BY LenProperties DEF StoreTypeOK
<1>7. PICK new \in Nat : new = Len(effects) + 1
  BY LenProperties DEF StoreTypeOK
<1>8. PICK y \in Effect : y = newEffect(n, d.start, 1)
  BY <1>4, NewRow
<1>9. /\ runs' = Append(runs, x) /\ effects' = Append(effects, y)
      /\ events' = Append(events, <<"started">>)
  BY <1>2, <1>3, <1>5, <1>6, <1>8 DEF insertRun
<1>10. /\ x.def = id /\ x.ver = v /\ x.step = d.start /\ x.revision = 1
       /\ x.status = statusFor(step(d, d.start).executor) /\ x.status \in {"RUNNING", "WAITING"}
       /\ y.run = n /\ y.step = d.start /\ y.status = "PENDING" /\ y.owner = None
  BY <1>5, <1>8 DEF newEffect, statusFor
<1>11. /\ runs' \in Seq(Run) /\ DOMAIN runs' = DOMAIN runs \cup {n} /\ n \notin DOMAIN runs
       /\ runs'[n] = x /\ \A q \in DOMAIN runs : runs'[q] = runs[q]
       /\ Len(runs') = Len(runs) + 1
  <2>1. runs \in Seq(Run)
    BY DEF StoreTypeOK
  <2>2. /\ Append(runs, x) \in Seq(Run) /\ DOMAIN Append(runs, x) = DOMAIN runs \cup {n}
        /\ n \notin DOMAIN runs /\ Append(runs, x)[n] = x
        /\ Len(Append(runs, x)) = Len(runs) + 1
    BY <1>6, <2>1, RowAppended
  <2>3. \A q \in DOMAIN runs : Append(runs, x)[q] = runs[q]
    BY <2>1, RowAppended
  <2> QED BY <1>9, <2>2, <2>3
<1>12. /\ effects' \in Seq(Effect) /\ DOMAIN effects' = DOMAIN effects \cup {new}
       /\ new \notin DOMAIN effects /\ effects'[new] = y
       /\ \A f \in DOMAIN effects : effects'[f] = effects[f]
  BY <1>7, <1>9, RowAppended DEF StoreTypeOK
<1>13. /\ events' \in Seq(Seq(EventType)) /\ Len(events') = Len(events) + 1
       /\ events'[n] = <<"started">> /\ \A q \in DOMAIN runs : events'[q] = events[q]
  <2>1. <<"started">> \in Seq(EventType)
    BY DEF EventType
  <2>2. n = Len(events) + 1 /\ DOMAIN runs = DOMAIN events
    BY <1>6, LenProperties DEF RevisionNumbersEvents, StoreTypeOK
  <2> QED BY <1>9, <2>1, <2>2, RowAppended DEF StoreTypeOK
<1>14. StoreTypeOK' /\ RevisionNumbersEvents'
  <2>1. StoreTypeOK'
    BY <1>1, <1>11, <1>12, <1>13 DEF StoreTypeOK
  <2>2. Len(<<"started">>) = 1 /\ Len(events') = Len(runs')
    BY <1>11, <1>13 DEF RevisionNumbersEvents
  <2>3. \A q \in DOMAIN runs' : Len(events'[q]) = runs'[q].revision
    BY <1>10, <1>11, <1>13, <2>2 DEF RevisionNumbersEvents
  <2> QED BY <2>1, <2>2, <2>3 DEF RevisionNumbersEvents
<1>15. \A q \in DOMAIN runs : pinned(q)' = pinned(q) /\ runs'[q].ver \in DOMAIN versions'[runs'[q].def]
  BY <1>1, <1>11, PointersKept
<1>16. pinned(n)' = d
  BY <1>1, <1>3, <1>10, <1>11 DEF pinned
<1>17. \A f \in DOMAIN effects : effects[f].run \in DOMAIN runs /\ stepOf(f)' = stepOf(f)
  BY <1>1, <1>11, <1>12, Rows, StepKept
<1>18. stepOf(new)' = step(d, d.start)
  <2>1. effects'[new].run = n /\ effects'[new].step = d.start
    BY <1>10, <1>12
  <2>2. stepOf(new)' = step(pinned(n)', d.start)
    BY <2>1 DEF stepOf, pinned
  <2> QED BY <1>16, <2>2
<1>19. PointersOK'
  <2>1. \A q \in DOMAIN runs' : runs'[q].ver \in DOMAIN versions'[runs'[q].def]
    BY <1>1, <1>10, <1>11, <1>15
  <2>2. ASSUME NEW f \in DOMAIN effects'
        PROVE  effects'[f].run \in DOMAIN runs' /\ effects'[f].step \in StepKeys(pinned(effects[f].run)')
    <3>1. CASE f = new
      <4>1. effects'[f].run = n /\ effects'[f].step = d.start
        BY <1>10, <1>12, <3>1
      <4> QED BY <1>4, <1>11, <1>16, <4>1
    <3>2. CASE f \in DOMAIN effects
      BY <1>11, <1>12, <1>15, <3>2, Rows
    <3> QED BY <1>12, <3>1, <3>2
  <2> QED BY <2>1, <2>2 DEF PointersOK
<1>20. /\ \A q \in DOMAIN runs : Open(q)' <=> Open(q)
       /\ \A f \in DOMAIN effects : Live(f)' <=> Live(f)
       /\ Open(n)' /\ Live(new)'
  BY <1>10, <1>11, <1>12 DEF Open, Live
<1>21. ASSUME NEW f \in DOMAIN effects', Live(f)'
       PROVE  /\ Open(effects[f].run)'
              /\ runs'[effects'[f].run].step = effects'[f].step
              /\ runs'[effects'[f].run].status = statusFor(stepOf(f)'.executor)
  <2>1. CASE f = new
    BY <1>10, <1>11, <1>12, <1>18, <1>20, <2>1
  <2>2. CASE f \in DOMAIN effects
    BY <1>11, <1>12, <1>17, <1>20, <1>21, <2>2 DEF OneEffectEach
  <2> QED BY <1>12, <2>1, <2>2
<1>22. ASSUME NEW q \in DOMAIN runs', Open(q)'
       PROVE  \E f \in DOMAIN effects' : Live(f)' /\ effects'[f].run = q
  <2>1. CASE q = n
    BY <1>10, <1>12, <1>20, <2>1
  <2>2. CASE q \in DOMAIN runs
    BY <1>12, <1>20, <1>22, <2>2 DEF OneEffectEach
  <2> QED BY <1>11, <2>1, <2>2
<1>23. \A f, g \in DOMAIN effects' : Live(f)' /\ Live(g)' /\ effects'[f].run = effects'[g].run => f = g
  BY <1>10, <1>11, <1>12, <1>17, <1>20 DEF OneEffectEach
<1>24. OneEffectEach'
  BY <1>21, <1>22, <1>23 DEF OneEffectEach
<1>25. OwnersOK'
  BY <1>10, <1>12, <1>17, EngineAssumption DEF OwnersOK
<1> QED BY <1>3, <1>9, <1>10, <1>12, <1>14, <1>19, <1>24, <1>25 DEF OwnersOnlyLeave

----------------------------------------------------------------------------
(* What the processes remember.                                            *)

\* A process goes on with the claim it remembers, or forgets it.
MemoryOnlyFades ==
  /\ \A w \in Workers :
       \/ /\ worker'[w].effect = worker[w].effect /\ worker'[w].claim = worker[w].claim
          /\ worker'[w].phase = worker[w].phase
       \/ worker'[w].effect = 0 /\ worker'[w].phase # "executing"
  /\ \A h \in Humans : resolving'[h] \in {resolving[h], NoAnswer}

\* Then no memory becomes a wrong one.
LEMMA HoldersFade ==
  ASSUME StoreTypeOK', HoldersOK, OwnersOnlyLeave, MemoryOnlyFades
  PROVE  HoldersOK'
<1>1. 0 \notin DOMAIN effects' /\ NoAnswer.effect = 0
  <2>1. DOMAIN effects' = 1..Len(effects') /\ Len(effects') \in Nat
    BY LenProperties DEF StoreTypeOK
  <2> QED BY <2>1 DEF NoAnswer
<1>2. \A x \in Processes : heldEffect(x)' # 0 =>
        /\ heldEffect(x)' = heldEffect(x) /\ heldClaim(x)' = heldClaim(x)
  BY <1>1 DEF MemoryOnlyFades, heldEffect, heldClaim, Processes
<1>3. ASSUME NEW x \in Processes, heldEffect(x)' \in DOMAIN effects'
      PROVE  /\ heldEffect(x)' = heldEffect(x) /\ heldClaim(x)' = heldClaim(x)
             /\ heldEffect(x) \in DOMAIN effects
  <2>1. heldEffect(x)' = heldEffect(x) /\ heldClaim(x)' = heldClaim(x) /\ heldEffect(x) # 0
    BY <1>1, <1>2, <1>3
  <2>2. CASE x \in Workers
    BY <2>1, <2>2 DEF HoldersOK, heldEffect
  <2>3. CASE x \notin Workers
    BY <1>1, <2>1, <2>3 DEF HoldersOK, heldEffect, Processes
  <2> QED BY <2>1, <2>2, <2>3
<1>4. \A w \in Workers : IF worker'[w].phase = "executing"
                           THEN worker'[w].effect \in DOMAIN effects' ELSE worker'[w].effect = 0
  BY DEF MemoryOnlyFades, HoldersOK, OwnersOnlyLeave
<1>5. \A h \in Humans : resolving'[h] # NoAnswer => resolving'[h].effect \in DOMAIN effects'
  BY DEF MemoryOnlyFades, HoldersOK, OwnersOnlyLeave
<1>6. ASSUME NEW x \in Processes, heldEffect(x)' \in DOMAIN effects'
      PROVE  /\ heldClaim(x)' <= effects'[heldEffect(x)'].claims
             /\ effects'[heldEffect(x)'].owner = x => heldClaim(x)' = effects'[heldEffect(x)'].claims
  <2>1. /\ heldEffect(x)' = heldEffect(x) /\ heldClaim(x)' = heldClaim(x)
        /\ heldEffect(x) \in DOMAIN effects
    BY <1>3, <1>6
  <2>2. x # None
    BY EngineAssumption DEF Processes
  <2> QED BY <2>1, <2>2 DEF HoldersOK, OwnersOnlyLeave
<1>7. \A x, y \in Processes :
        /\ heldEffect(x)' \in DOMAIN effects'
        /\ heldEffect(x)' = heldEffect(y)' /\ heldClaim(x)' = heldClaim(y)'
        => x = y
  BY <1>3 DEF HoldersOK
<1> QED BY <1>4, <1>5, <1>6, <1>7 DEF HoldersOK

\* What is remembered are numbers.
LEMMA HeldTyped ==
  ASSUME ProcessTypeOK, NEW x \in Processes
  PROVE  heldEffect(x) \in Nat /\ heldClaim(x) \in Nat
BY DEF ProcessTypeOK, heldEffect, heldClaim, Processes

\* A new claim is one that nobody remembers yet.
LEMMA HoldersClaim ==
  ASSUME DataOK, ProcessTypeOK, HoldersOK, NEW e \in DOMAIN effects, NEW x \in Processes,
         persistClaim(e, x),
         \A y \in Processes \ {x} : heldEffect(y)' = heldEffect(y) /\ heldClaim(y)' = heldClaim(y),
         heldEffect(x)' = e, heldClaim(x)' = effects[e].claims + 1,
         \A w \in Workers : IF worker'[w].phase = "executing"
                              THEN worker'[w].effect \in DOMAIN effects' ELSE worker'[w].effect = 0,
         \A h \in Humans : resolving'[h] # NoAnswer => resolving'[h].effect \in DOMAIN effects'
  PROVE  HoldersOK'
<1>1. /\ DOMAIN effects' = DOMAIN effects
      /\ \A f \in DOMAIN effects \ {e} : effects'[f] = effects[f]
      /\ effects'[e].owner = x /\ effects'[e].claims = effects[e].claims + 1
  BY ClaimedRow DEF DataOK
<1>2. \A f \in DOMAIN effects : effects[f].claims \in Nat
  BY Rows DEF Effect, DataOK
<1>3. ASSUME NEW y \in Processes \ {x}, heldEffect(y)' \in DOMAIN effects'
      PROVE  /\ heldClaim(y)' <= effects'[heldEffect(y)'].claims
             /\ effects'[heldEffect(y)'].owner = y => heldClaim(y)' = effects'[heldEffect(y)'].claims
             /\ ~(heldEffect(y)' = e /\ heldClaim(y)' = effects[e].claims + 1)
  <2>1. PICK f \in DOMAIN effects : f = heldEffect(y)
    BY <1>1, <1>3
  <2>2. heldEffect(y)' = f /\ heldClaim(y)' = heldClaim(y)
    BY <2>1
  <2>3. heldClaim(y) <= effects[f].claims /\ (effects[f].owner = y => heldClaim(y) = effects[f].claims)
    BY <2>1 DEF HoldersOK
  <2>4. heldClaim(y) \in Int
    BY <2>1, HeldTyped
  <2>5. CASE f = e
    BY <1>1, <1>2, <2>2, <2>3, <2>4, <2>5
  <2>6. CASE f # e
    BY <1>1, <2>2, <2>3, <2>6
  <2> QED BY <2>5, <2>6
<1>4. ASSUME NEW y \in Processes, heldEffect(y)' \in DOMAIN effects'
      PROVE  /\ heldClaim(y)' <= effects'[heldEffect(y)'].claims
             /\ effects'[heldEffect(y)'].owner = y => heldClaim(y)' = effects'[heldEffect(y)'].claims
  <2>1. CASE y = x
    BY <1>1, <1>2, <2>1
  <2>2. CASE y # x
    BY <1>3, <1>4, <2>2
  <2> QED BY <2>1, <2>2
<1>5. \A y, z \in Processes :
        /\ heldEffect(y)' \in DOMAIN effects'
        /\ heldEffect(y)' = heldEffect(z)' /\ heldClaim(y)' = heldClaim(z)'
        => y = z
  <2> SUFFICES ASSUME NEW y \in Processes, NEW z \in Processes,
                      heldEffect(y)' \in DOMAIN effects',
                      heldEffect(y)' = heldEffect(z)', heldClaim(y)' = heldClaim(z)'
               PROVE  y = z
    OBVIOUS
  <2>1. CASE y = x /\ z # x
    BY <1>3, <2>1
  <2>2. CASE y # x /\ z = x
    BY <1>3, <2>2
  <2>3. CASE y # x /\ z # x
    BY <1>1, <2>3 DEF HoldersOK
  <2> QED BY <2>1, <2>2, <2>3
<1> QED BY <1>4, <1>5 DEF HoldersOK

\* What AnswerOfCurrentClaim says of one step.
Closing ==
  \A e \in DOMAIN effects :
    effects[e].status = "CLAIMED" /\ effects'[e].status \in {"COMPLETED", "FAILED"} =>
        holdsClaim(e) /\ ~holdsClaim(e)'

\* A process that closes the effect it owns, and forgets it, held its current claim
\* and nobody else does.
LEMMA OwnerCloses ==
  ASSUME DataOK, HoldersOK, OwnersOnlyLeave, MemoryOnlyFades, NEW e \in DOMAIN effects,
         NEW x \in Processes, heldEffect(x) = e, effects[e].owner = x, heldEffect(x)' = 0,
         \A f \in DOMAIN effects \ {e} : effects'[f].status = effects[f].status
  PROVE  Closing
<1>1. heldClaim(x) = effects[e].claims /\ effects'[e].claims = effects[e].claims /\ e # 0
  BY Rows DEF HoldersOK, OwnersOnlyLeave, DataOK
<1>2. holdsClaim(e)
  BY <1>1 DEF holdsClaim, heldEffect, heldClaim, Processes
<1>3. ASSUME NEW y \in Processes, heldEffect(y)' = e, heldClaim(y)' = effects'[e].claims
      PROVE  FALSE
  <2>1. y # x
    BY <1>1, <1>3
  <2>2. heldEffect(y) = e /\ heldClaim(y) = effects[e].claims
    BY <1>1, <1>3 DEF MemoryOnlyFades, heldEffect, heldClaim, Processes, NoAnswer
  <2> QED BY <1>1, <2>1, <2>2 DEF HoldersOK
<1>4. ~holdsClaim(e)'
  <2>1. \A w \in Workers : ~(worker'[w].effect = e /\ worker'[w].claim = effects'[e].claims)
    BY <1>3 DEF heldEffect, heldClaim, Processes
  <2>2. \A h \in Humans : ~(resolving'[h].effect = e /\ resolving'[h].claim = effects'[e].claims)
    BY <1>3, EngineAssumption DEF heldEffect, heldClaim, Processes
  <2> QED BY <2>1, <2>2 DEF holdsClaim
<1> QED BY <1>2, <1>4 DEF Closing

\* A step that touches none of the tables.
LEMMA TablesKept ==
  ASSUME DataOK, UNCHANGED <<versions, stored>>
  PROVE  DataOK' /\ OwnersOnlyLeave /\ Closing /\ RunsStand
<1>1. UNCHANGED <<versions, runs, effects, events>>
  BY DEF stored
<1>2. \A r \in DOMAIN runs : pinned(r)' = pinned(r)
  BY <1>1 DEF pinned
<1>3. \A f \in DOMAIN effects : stepOf(f)' = stepOf(f) /\ effects[f].run \in DOMAIN runs
  BY <1>1, Rows DEF stepOf, pinned, DataOK
<1>4. StoreTypeOK' /\ RevisionNumbersEvents'
  BY <1>1 DEF StoreTypeOK, RevisionNumbersEvents, DataOK
<1>5. PointersOK'
  BY <1>1, <1>2, Rows DEF PointersOK, DataOK
<1>6. OneEffectEach'
  BY <1>1, <1>3, EffectsFollow DEF DataOK, Live
<1>7. OwnersOK'
  BY <1>1, <1>3 DEF OwnersOK, DataOK
<1>8. OwnersOnlyLeave /\ Closing /\ RunsStand
  BY <1>1, <1>2 DEF OwnersOnlyLeave, Closing, RunsStand
<1> QED BY <1>4, <1>5, <1>6, <1>7, <1>8 DEF DataOK

\* A step after which no effect is closed that was not.
LEMMA NothingCloses ==
  ASSUME \A f \in DOMAIN effects : effects'[f].status \in {effects[f].status, "PENDING", "CLAIMED"}
  PROVE  Closing
BY DEF Closing

\* The memory of a process that goes to a phase other than executing, or dies.
LEMMA Forgotten ==
  ASSUME ProcessTypeOK, NEW w \in Workers, NEW phase \in Phases \ {"executing"},
         goto(w, phase) \/ die(w), UNCHANGED resolving
  PROVE  /\ MemoryOnlyFades /\ heldEffect(w)' = 0
         /\ worker' \in [Workers -> [phase : Phases, stopping : BOOLEAN, effect : Nat, claim : Nat]]
<1> DEFINE Memory == [phase : Phases, stopping : BOOLEAN, effect : Nat, claim : Nat]
<1>0. worker \in [Workers -> Memory] /\ worker[w] \in Memory
  BY DEF ProcessTypeOK
<1>1. PICK m \in Memory : /\ worker' = [worker EXCEPT ![w] = m]
                          /\ m.effect = 0 /\ m.phase # "executing"
  <2>1. CASE die(w)
    <3>1. Down \in Memory /\ Down.effect = 0 /\ Down.phase # "executing"
      BY DEF Down, Phases
    <3> QED BY <2>1, <3>1 DEF die
  <2>2. CASE goto(w, phase)
    <3> DEFINE x1 == [worker[w] EXCEPT !.phase = phase]
               x2 == [x1 EXCEPT !.effect = 0]
               x3 == [x2 EXCEPT !.claim = 0]
    <3>1. x1 \in Memory /\ x1.phase = phase
      BY <1>0
    <3>2. x2 \in Memory /\ x2.phase = phase /\ x2.effect = 0
      <4> HIDE DEF x1
      <4> QED BY <3>1
    <3>3. x3 \in Memory /\ x3.phase = phase /\ x3.effect = 0
      <4> HIDE DEF x2
      <4> QED BY <3>2
    <3>4. worker' = [worker EXCEPT ![w] = x3]
      BY <2>2 DEF goto
    <3> HIDE DEF x3
    <3> QED BY <3>3, <3>4
  <2> QED BY <2>1, <2>2
<1> HIDE DEF Memory
<1>2. /\ worker'[w] = m /\ \A v \in Workers \ {w} : worker'[v] = worker[v]
      /\ worker' \in [Workers -> Memory]
  BY <1>0, <1>1
<1>3. MemoryOnlyFades
  BY <1>1, <1>2 DEF MemoryOnlyFades
<1>4. heldEffect(w)' = 0
  BY <1>1, <1>2 DEF heldEffect
<1> QED BY <1>2, <1>3, <1>4 DEF Memory

----------------------------------------------------------------------------
(* Where the runs stand.                                                   *)

PathStep == [Path!PathNext]_Place

\* A step that moves no run is invisible to WorkflowPath.
LEMMA StandingIsAStutter ==
  ASSUME RunsStand
  PROVE  PathStep
<1>1. \A q \in DOMAIN runs : Open(q)' <=> Open(q)
  BY DEF RunsStand, Open
<1>2. Place' = Place
  BY <1>1 DEF Place, RunsStand
<1> QED BY <1>2 DEF PathStep

\* A started run begins at the start of a registered definition.
LEMMA StartBegins ==
  ASSUME DataOK, NEW id \in Ids, NEW asked, NEW contract, startWorkflow(id, asked, contract)
  PROVE  PathStep
<1>1. PICK d \in Sound : \E x \in Run :
         /\ runs' = Append(runs, x) /\ x.step = d.start /\ x.status \in {"RUNNING", "WAITING"}
         /\ d = versions[x.def][x.ver].body
  BY StartKeepsData
<1>2. PICK x \in Run : /\ runs' = Append(runs, x) /\ x.step = d.start
                       /\ x.status \in {"RUNNING", "WAITING"} /\ d = versions[x.def][x.ver].body
  BY <1>1
<1>3. UNCHANGED versions
  BY DEF startWorkflow
<1> DEFINE p == [of |-> d, at |-> d.start, state |-> "OPEN"]
<1>4. PICK n \in Nat : n = Len(runs) + 1
  BY LenProperties DEF StoreTypeOK, DataOK
<1>5. /\ DOMAIN runs' = DOMAIN runs \cup {n} /\ n \notin DOMAIN runs
      /\ runs'[n] = x /\ \A q \in DOMAIN runs : runs'[q] = runs[q]
      /\ runs' \in Seq(Run) /\ Len(runs') = n
  BY <1>2, <1>4, RowAppended DEF StoreTypeOK, DataOK
<1>6. Place'[n] = p /\ \A q \in DOMAIN runs : Place'[q] = Place[q]
  <2>1. pinned(n)' = d /\ Open(n)'
    BY <1>2, <1>3, <1>5 DEF pinned, Open
  <2>2. \A q \in DOMAIN runs : pinned(q)' = pinned(q) /\ (Open(q)' <=> Open(q))
    BY <1>3, <1>5 DEF pinned, Open
  <2>3. Place'[n] = p
    BY <1>2, <1>5, <2>1 DEF Place
  <2>4. \A q \in DOMAIN runs : Place'[q] = Place[q]
    BY <1>5, <2>2 DEF Place
  <2> QED BY <2>3, <2>4
<1>7. Place' = Append(Place, p)
  <2>1. /\ DOMAIN runs = 1..Len(runs) /\ DOMAIN Place = 1..Len(runs) /\ Len(runs) \in Nat
        /\ Place = [q \in 1..Len(runs) |-> Place[q]]
    BY LenProperties DEF Place, StoreTypeOK, DataOK
  <2>2. DOMAIN runs' = 1..n /\ DOMAIN Place' = 1..n /\ Place' = [q \in 1..n |-> Place'[q]]
    BY <1>5, LenProperties DEF Place
  <2> DEFINE Spots == {Place[q] : q \in 1..Len(runs)} \cup {p}
  <2> HIDE DEF p, Place
  <2>3. Place \in [1..Len(runs) -> Spots] /\ Place' \in [1..n -> Spots]
    <3>1. \A q \in 1..n : q = n \/ q \in 1..Len(runs)
      BY <1>4, <2>1
    <3> QED BY <1>6, <2>1, <2>2, <3>1
  <2>4. Place \in Seq(Spots) /\ Place' \in Seq(Spots) /\ p \in Spots
    <3>1. Place \in Seq(Spots)
      BY <2>1, <2>3, SeqDef
    <3>2. Place' \in Seq(Spots)
      BY <2>3, SeqDef
    <3> QED BY <3>1, <3>2
  <2> HIDE DEF Spots
  <2>5. Len(Place) = Len(runs) /\ Len(Place') = n
    BY <2>1, <2>2, <2>4, LenProperties
  <2>6. /\ Append(Place, p) \in Seq(Spots) /\ Len(Append(Place, p)) = n
        /\ Append(Place, p)[n] = p
        /\ \A q \in 1..Len(runs) : Append(Place, p)[q] = Place[q]
    BY <1>4, <2>4, <2>5, AppendProperties
  <2>7. \A q \in 1..n : Place'[q] = Append(Place, p)[q]
    <3>1. \A q \in 1..n : q = n \/ q \in 1..Len(runs)
      BY <1>4, <2>1
    <3> QED BY <1>6, <2>1, <2>6, <3>1
  <2> QED BY <2>4, <2>5, <2>6, <2>7, SeqEqual
<1>8. d \in Candidates
  BY DEF Sound
<1>9. Path!Begin
  BY <1>7, <1>8 DEF Path!Begin
<1> QED BY <1>9 DEF PathStep, Path!PathNext

\* advance moves one run to the step and the status it is given.
LEMMA RunMoved ==
  ASSUME DataOK, UNCHANGED versions, NEW r \in DOMAIN runs, NEW status \in RunStatus,
         NEW key \in Keys \cup {None}, NEW type \in EventType, advance(r, status, key, type)
  PROVE  Place' = [Place EXCEPT ![r] = [of |-> pinned(r), at |-> key,
                       state |-> IF status \in {"RUNNING", "WAITING"} THEN "OPEN" ELSE status]]
<1>1. /\ runs' \in Seq(Run) /\ DOMAIN runs' = DOMAIN runs
      /\ \A q \in DOMAIN runs : runs'[q].def = runs[q].def /\ runs'[q].ver = runs[q].ver
      /\ \A q \in DOMAIN runs \ {r} : runs'[q] = runs[q]
      /\ runs'[r].status = status /\ runs'[r].step = key
  BY Advance DEF DataOK
<1>2. \A q \in DOMAIN runs : pinned(q)' = pinned(q)
  BY <1>1 DEF pinned
<1>3. (Open(r)' <=> status \in {"RUNNING", "WAITING"}) /\ \A q \in DOMAIN runs \ {r} : Open(q)' <=> Open(q)
  BY <1>1 DEF Open
<1> QED BY <1>1, <1>2, <1>3 DEF Place

\* An answer takes a route of the run's own version.
LEMMA CompleteTakes ==
  ASSUME DataOK, UNCHANGED versions, NEW e \in DOMAIN effects, NEW owner, NEW output,
         completable(e, owner, output), complete(e, output)
  PROVE  PathStep
<1>1. Live(e)
  BY DEF completable, claimed, Live
<1>2. PICK r \in DOMAIN runs : r = effects[e].run
  BY Rows DEF DataOK
<1>3. Open(r) /\ runs[r].step = effects[e].step
  BY <1>1, <1>2 DEF DataOK, OneEffectEach
<1>4. PICK q \in Range(pinned(r).routes) :
        /\ q.from = effects[e].step /\ q.target = routeTarget(e, output)
        /\ q.target = None \/ q.target \in StepKeys(pinned(r))
  BY <1>2, RouteTaken DEF completable
<1>5. q.target \in Keys \cup {None}
  BY <1>4, PinnedSound, SoundDefinition DEF DataOK
<1>6. Place[r] = [of |-> pinned(r), at |-> q.from, state |-> "OPEN"] /\ DOMAIN Place = DOMAIN runs
  BY <1>3, <1>4 DEF Place
<1> DEFINE p == [of |-> pinned(r), at |-> q.target,
                 state |-> IF q.target = None THEN "COMPLETED" ELSE "OPEN"]
<1>7. Place' = [Place EXCEPT ![r] = p]
  <2>1. CASE q.target = None
    <3>1. advance(r, "COMPLETED", q.target, "completed")
      BY <1>2, <1>4, <2>1 DEF complete
    <3> QED BY <1>5, <2>1, <3>1, RunMoved DEF RunStatus, EventType
  <2>2. CASE q.target # None
    <3>1. PICK status \in {"RUNNING", "WAITING"} : advance(r, status, q.target, "step_advanced")
      BY <1>2, <1>4, <2>2 DEF complete, statusFor
    <3> QED BY <1>5, <2>2, <3>1, RunMoved DEF RunStatus, EventType
  <2> QED BY <2>1, <2>2
<1>8. Path!Take(r)
  <2>1. Place[r].of = pinned(r) /\ Place[r].at = q.from /\ Place[r].state = "OPEN"
    BY <1>6
  <2> HIDE DEF Place
  <2> QED BY <1>4, <1>7, <2>1 DEF Path!Take, Path!Range, Range
<1> QED BY <1>6, <1>8 DEF PathStep, Path!PathNext

\* A failure is retried where the run stands, or the run gives up.
LEMMA FailGivesUp ==
  ASSUME DataOK, UNCHANGED versions, NEW e \in DOMAIN effects, NEW w \in Workers,
         claimed(e, w), NEW retryable, failEffect(e, retryable)
  PROVE  PathStep
<1>1. Live(e) /\ effects[e].owner = w
  BY DEF claimed, Live
<1>2. PICK r \in DOMAIN runs : r = effects[e].run
  BY Rows DEF DataOK
<1>3. Open(r) /\ runs[r].step \in Keys \cup {None}
  BY <1>1, <1>2, Rows DEF DataOK, OneEffectEach, Run
<1>4. Place[r] = [of |-> pinned(r), at |-> runs[r].step, state |-> "OPEN"] /\ DOMAIN Place = DOMAIN runs
  BY <1>3 DEF Place
<1>5. CASE scheduleRetry(e)
  <2>1. advance(r, "RUNNING", runs[r].step, "effect_retry_scheduled")
    BY <1>2, <1>5 DEF scheduleRetry
  <2>2. Place' = [Place EXCEPT ![r] = [of |-> pinned(r), at |-> runs[r].step, state |-> "OPEN"]]
    BY <1>3, <2>1, RunMoved DEF RunStatus, EventType
  <2>3. Place' = Place
    BY <1>4, <2>2 DEF Place
  <2> QED BY <2>3 DEF PathStep
<1>6. CASE failWorkflow(e)
  <2>1. advance(r, "FAILED", runs[r].step, "failed")
    BY <1>2, <1>6 DEF failWorkflow
  <2>2. Place' = [Place EXCEPT ![r] = [of |-> pinned(r), at |-> runs[r].step, state |-> "FAILED"]]
    BY <1>3, <2>1, RunMoved DEF RunStatus, EventType
  <2>3. Place' = [Place EXCEPT ![r].state = "FAILED"]
    <3>1. [Place[r] EXCEPT !.state = "FAILED"]
            = [of |-> pinned(r), at |-> runs[r].step, state |-> "FAILED"]
      BY <1>4
    <3> HIDE DEF Place
    <3> QED BY <2>2, <3>1
  <2>4. Path!GiveUp(r)
    BY <1>4, <2>3 DEF Path!GiveUp
  <2> QED BY <1>4, <2>4 DEF PathStep, Path!PathNext
<1> QED BY <1>5, <1>6 DEF failEffect

----------------------------------------------------------------------------
(* Every action keeps the invariant, closes only what it holds and stays   *)
(* on the path.                                                            *)

Kept == IInv' /\ Closing /\ PathStep

\* A coordinator that goes to another phase than executing, or dies, whatever it
\* writes of the tables besides.
LEMMA WorkerForgets ==
  ASSUME IInv, DataOK', OwnersOnlyLeave,
         NEW w \in Workers, NEW phase \in Phases \ {"executing"}, goto(w, phase) \/ die(w),
         UNCHANGED <<policy, resolving>>, fault \/ UNCHANGED faults
  PROVE  IInv' /\ MemoryOnlyFades /\ heldEffect(w)' = 0
<1>1. DataOK /\ ProcessTypeOK /\ HoldersOK
  BY DEF IInv
<1>2. /\ MemoryOnlyFades /\ heldEffect(w)' = 0
      /\ worker' \in [Workers -> [phase : Phases, stopping : BOOLEAN, effect : Nat, claim : Nat]]
  BY <1>1, Forgotten
<1>3. faults' \in Nat
  BY <1>1 DEF ProcessTypeOK, fault
<1>4. ProcessTypeOK'
  BY <1>1, <1>2, <1>3 DEF ProcessTypeOK
<1>5. HoldersOK'
  BY <1>1, <1>2, HoldersFade DEF DataOK
<1> QED BY <1>2, <1>4, <1>5 DEF IInv

\* The steps of a coordinator that touch no table.
LEMMA WorkerMoves ==
  ASSUME IInv, NEW w \in Workers,
         \/ start(w) \/ recovered(w) \/ recoverFails(w) \/ stopped(w) \/ crash(w)
         \/ \E o \in Outputs : completeThrows(w, o)
  PROVE  Kept
<1>1. /\ UNCHANGED <<versions, stored>> /\ UNCHANGED <<policy, resolving>>
      /\ fault \/ UNCHANGED faults
  BY DEF start, recovered, recoverFails, stopped, crash, completeThrows
<1>2. \E phase \in Phases \ {"executing"} : goto(w, phase) \/ die(w)
  BY DEF start, recovered, recoverFails, stopped, crash, completeThrows, Phases
<1>3. DataOK' /\ OwnersOnlyLeave /\ Closing /\ RunsStand
  BY <1>1, TablesKept DEF IInv
<1>4. IInv'
  BY <1>1, <1>2, <1>3, WorkerForgets
<1>5. PathStep
  BY <1>3, StandingIsAStutter
<1> QED BY <1>3, <1>4, <1>5 DEF Kept

\* stop sets a flag of the process and forgets nothing.
LEMMA WorkerStops ==
  ASSUME IInv, NEW w \in Workers, stop(w)
  PROVE  Kept
<1>1. DataOK /\ ProcessTypeOK /\ HoldersOK
  BY DEF IInv
<1>2. UNCHANGED <<versions, stored>> /\ UNCHANGED <<policy, resolving>> /\ fault
  BY DEF stop
<1>3. DataOK' /\ OwnersOnlyLeave /\ Closing /\ RunsStand
  BY <1>1, <1>2, TablesKept
<1> DEFINE Memory == [phase : Phases, stopping : BOOLEAN, effect : Nat, claim : Nat]
           m == [worker[w] EXCEPT !.stopping = TRUE]
<1>4. /\ worker \in [Workers -> Memory] /\ m \in Memory
      /\ m.effect = worker[w].effect /\ m.claim = worker[w].claim /\ m.phase = worker[w].phase
  BY <1>1 DEF ProcessTypeOK
<1>5. worker' = [worker EXCEPT ![w] = m]
  BY DEF stop
<1> HIDE DEF m, Memory
<1>6. worker' \in [Workers -> Memory] /\ MemoryOnlyFades
  BY <1>2, <1>4, <1>5 DEF MemoryOnlyFades
<1>7. ProcessTypeOK'
  BY <1>1, <1>2, <1>6 DEF ProcessTypeOK, fault, Memory
<1>8. HoldersOK'
  BY <1>1, <1>3, <1>6, HoldersFade DEF DataOK
<1>9. PathStep
  BY <1>3, StandingIsAStutter
<1> QED BY <1>3, <1>7, <1>8, <1>9 DEF Kept, IInv

\* A coordinator gives every expired claim back before it takes one.
LEMMA WorkerRecovers ==
  ASSUME IInv, NEW w \in Workers, recoverOne(w)
  PROVE  Kept
<1>1. /\ UNCHANGED versions /\ UNCHANGED <<policy, resolving>> /\ UNCHANGED faults
      /\ recoverExpired /\ goto(w, "recovered") /\ "recovered" \in Phases \ {"executing"}
  BY DEF recoverOne, Phases
<1>2. /\ DataOK' /\ OwnersOnlyLeave /\ RunsStand
      /\ \A f \in DOMAIN effects : effects'[f].status \in {effects[f].status, "PENDING"}
  BY <1>1, RecoverKeepsData DEF IInv
<1>3. IInv'
  BY <1>1, <1>2, WorkerForgets
<1> QED BY <1>2, <1>3, NothingCloses, StandingIsAStutter DEF Kept

\* The coordinator whose answer is stored owned the effect.
LEMMA WorkerCompletes ==
  ASSUME IInv, NEW w \in Workers, NEW output \in Outputs, completeOne(w, output)
  PROVE  Kept
<1>1. DataOK /\ HoldersOK
  BY DEF IInv
<1>2. PICK e \in DOMAIN effects : e = worker[w].effect
  BY <1>1 DEF completeOne, HoldersOK
<1>3. /\ completable(e, w, output) /\ complete(e, output) /\ goto(w, "idle")
      /\ UNCHANGED versions /\ UNCHANGED <<policy, resolving>> /\ UNCHANGED faults
      /\ "idle" \in Phases \ {"executing"}
  BY <1>2 DEF completeOne, Phases
<1>4. /\ DataOK' /\ OwnersOnlyLeave
      /\ \A f \in DOMAIN effects \ {e} : effects'[f].status = effects[f].status
  BY <1>1, <1>3, CompleteKeepsData
<1>5. IInv' /\ MemoryOnlyFades /\ heldEffect(w)' = 0
  BY <1>3, <1>4, WorkerForgets
<1>6. heldEffect(w) = e /\ effects[e].owner = w /\ w \in Processes
  BY <1>2, <1>3 DEF heldEffect, completable, claimed, Processes
<1>7. Closing
  BY <1>1, <1>4, <1>5, <1>6, OwnerCloses
<1>8. PathStep
  BY <1>1, <1>3, CompleteTakes
<1> QED BY <1>5, <1>7, <1>8 DEF Kept

\* So did the one whose failure is stored; another one dies of the refusal.
LEMMA WorkerFails ==
  ASSUME IInv, NEW w \in Workers, executionFails(w) \/ renewFails(w)
  PROVE  Kept
<1>1. DataOK /\ HoldersOK
  BY DEF IInv
<1>2. PICK code : failOne(w, code)
  BY DEF executionFails, renewFails
<1>3. PICK e \in DOMAIN effects : e = worker[w].effect
  BY <1>1, <1>2 DEF failOne, HoldersOK
<1>4. /\ UNCHANGED versions /\ UNCHANGED <<policy, resolving>>
      /\ fault \/ UNCHANGED faults
      /\ "idle" \in Phases \ {"executing"}
  BY <1>2 DEF executionFails, renewFails, failOne, Phases
<1>5. CASE claimed(e, w) /\ failEffect(e, policy[code]) /\ goto(w, "idle")
  <2>1. /\ DataOK' /\ OwnersOnlyLeave /\ PathStep
        /\ \A f \in DOMAIN effects \ {e} : effects'[f].status = effects[f].status
    BY <1>1, <1>4, <1>5, FailKeepsData, FailGivesUp
  <2>2. IInv' /\ MemoryOnlyFades /\ heldEffect(w)' = 0
    BY <1>4, <1>5, <2>1, WorkerForgets
  <2>3. heldEffect(w) = e /\ effects[e].owner = w /\ w \in Processes
    BY <1>3, <1>5 DEF heldEffect, claimed, Processes
  <2>4. Closing
    BY <1>1, <2>1, <2>2, <2>3, OwnerCloses
  <2> QED BY <2>1, <2>2, <2>4 DEF Kept
<1>6. CASE die(w) /\ UNCHANGED stored
  <2>1. DataOK' /\ OwnersOnlyLeave /\ Closing /\ RunsStand
    BY <1>1, <1>4, <1>6, TablesKept
  <2>2. IInv'
    BY <1>4, <1>6, <2>1, WorkerForgets
  <2> QED BY <2>1, <2>2, StandingIsAStutter DEF Kept
<1> QED BY <1>2, <1>3, <1>5, <1>6 DEF failOne

\* A coordinator claims the oldest effect that nobody has, if there is one.
LEMMA WorkerClaims ==
  ASSUME IInv, NEW w \in Workers, claimNextEffect(w)
  PROVE  Kept
<1>1. DataOK /\ ProcessTypeOK /\ HoldersOK
  BY DEF IInv
<1>2. UNCHANGED versions /\ UNCHANGED <<policy, resolving>> /\ UNCHANGED faults
  BY DEF claimNextEffect
<1>3. ASSUME NEW e \in DOMAIN effects, claimable(e), persistClaim(e, w),
             worker' = [worker EXCEPT ![w] = [@ EXCEPT !.phase = "executing",
                              !.effect = e, !.claim = effects[e].claims + 1]]
      PROVE  Kept
  <2>1. DataOK' /\ RunsStand
    BY <1>1, <1>2, <1>3, ClaimKeepsData DEF claimable, Processes
  <2> DEFINE Memory == [phase : Phases, stopping : BOOLEAN, effect : Nat, claim : Nat]
  <2>2. PICK n \in Nat : n = effects[e].claims + 1
    BY <1>1, Rows DEF Effect, DataOK
  <2>3. PICK m \in Memory : /\ worker' = [worker EXCEPT ![w] = m]
                            /\ m.phase = "executing" /\ m.effect = e /\ m.claim = n
    <3> DEFINE x1 == [worker[w] EXCEPT !.phase = "executing"]
               x2 == [x1 EXCEPT !.effect = e]
               x3 == [x2 EXCEPT !.claim = n]
    <3>1. x1 \in Memory /\ x1.phase = "executing"
      BY <1>1 DEF ProcessTypeOK, Phases
    <3>2. x2 \in Memory /\ x2.phase = "executing" /\ x2.effect = e
      <4>1. e \in Nat
        BY <1>1, Rows DEF DataOK
      <4> HIDE DEF x1
      <4> QED BY <3>1, <4>1
    <3>3. x3 \in Memory /\ x3.phase = "executing" /\ x3.effect = e /\ x3.claim = n
      <4> HIDE DEF x2
      <4> QED BY <3>2
    <3>4. worker' = [worker EXCEPT ![w] = x3]
      BY <1>3, <2>2
    <3> HIDE DEF x3
    <3> QED BY <3>3, <3>4
  <2> HIDE DEF Memory
  <2>4. worker \in [Workers -> Memory]
    BY <1>1 DEF ProcessTypeOK, Memory
  <2>5. /\ worker' \in [Workers -> Memory] /\ worker'[w] = m
        /\ \A v \in Workers \ {w} : worker'[v] = worker[v]
    BY <2>3, <2>4
  <2>6. ProcessTypeOK'
    BY <1>1, <1>2, <2>5 DEF ProcessTypeOK, Memory
  <2>7. /\ \A y \in Processes \ {w} : heldEffect(y)' = heldEffect(y) /\ heldClaim(y)' = heldClaim(y)
        /\ heldEffect(w)' = e /\ heldClaim(w)' = effects[e].claims + 1
    BY <1>2, <2>2, <2>3, <2>5 DEF heldEffect, heldClaim, Processes
  <2>8. DOMAIN effects' = DOMAIN effects
    BY <1>1, <1>3, ClaimedRow DEF DataOK, Processes
  <2>9. \A v \in Workers : IF worker'[v].phase = "executing"
                             THEN worker'[v].effect \in DOMAIN effects' ELSE worker'[v].effect = 0
    BY <1>1, <2>3, <2>5, <2>8 DEF HoldersOK
  <2>10. \A h \in Humans : resolving'[h] # NoAnswer => resolving'[h].effect \in DOMAIN effects'
    BY <1>1, <1>2, <2>8 DEF HoldersOK
  <2>11. HoldersOK'
    BY <1>1, <1>3, <2>7, <2>9, <2>10, HoldersClaim DEF Processes
  <2>12. Closing
    BY <1>1, <1>3, ClaimedRow, NothingCloses DEF DataOK, Processes
  <2> QED BY <2>1, <2>6, <2>11, <2>12, StandingIsAStutter DEF Kept, IInv
<1>4. CASE goto(w, "idle") /\ UNCHANGED stored
  <2>1. DataOK' /\ OwnersOnlyLeave /\ Closing /\ RunsStand
    BY <1>1, <1>2, <1>4, TablesKept
  <2>2. IInv'
    BY <1>2, <1>4, <2>1, WorkerForgets DEF Phases
  <2> QED BY <2>1, <2>2, StandingIsAStutter DEF Kept
<1> QED BY <1>3, <1>4 DEF claimNextEffect

\* A lease that runs out.
LEMMA LeaseRunsOut ==
  ASSUME IInv, NEW e \in DOMAIN effects, leaseExpires(e) \/ leaseExpiresEarly(e)
  PROVE  Kept
<1>1. DataOK /\ ProcessTypeOK /\ HoldersOK
  BY DEF IInv
<1>2. /\ DataOK' /\ RunsStand /\ DOMAIN effects' = DOMAIN effects
      /\ \A f \in DOMAIN effects : /\ effects'[f].owner = effects[f].owner
                                   /\ effects'[f].claims = effects[f].claims
                                   /\ effects'[f].status = effects[f].status
  BY <1>1, ExpiryKeepsData
<1>3. /\ UNCHANGED <<policy, worker, resolving>>
      /\ fault \/ UNCHANGED faults
  BY DEF leaseExpires, leaseExpiresEarly
<1>4. ProcessTypeOK'
  BY <1>1, <1>3 DEF ProcessTypeOK, fault
<1>5. OwnersOnlyLeave /\ MemoryOnlyFades
  BY <1>2, <1>3 DEF OwnersOnlyLeave, MemoryOnlyFades
<1>6. HoldersOK'
  BY <1>1, <1>2, <1>5, HoldersFade DEF DataOK
<1>7. Closing
  BY <1>2, NothingCloses
<1> QED BY <1>2, <1>4, <1>6, <1>7, StandingIsAStutter DEF Kept, IInv

\* A step of a person that forgets the answer, or concerns no process.
LEMMA PersonForgets ==
  ASSUME IInv, DataOK', OwnersOnlyLeave, UNCHANGED worker, policy' \in [ErrorCodes -> BOOLEAN],
         fault \/ UNCHANGED faults,
         \/ UNCHANGED resolving
         \/ \E h \in Humans : resolving' = [resolving EXCEPT ![h] = NoAnswer]
  PROVE  IInv' /\ MemoryOnlyFades
<1>1. ProcessTypeOK /\ HoldersOK
  BY DEF IInv
<1>2. NoAnswer \in [effect : Nat, output : Outputs \cup {Otherwise}, claim : Nat]
  BY DEF NoAnswer
<1>3. ProcessTypeOK'
  BY <1>1, <1>2 DEF ProcessTypeOK, fault
<1>4. MemoryOnlyFades
  BY <1>1 DEF ProcessTypeOK, MemoryOnlyFades
<1>5. HoldersOK'
  BY <1>1, <1>4, HoldersFade DEF DataOK
<1> QED BY <1>3, <1>4, <1>5 DEF IInv

\* A person claims a pending effect of a person.
LEMMA PersonClaims ==
  ASSUME IInv, NEW h \in Humans, NEW e \in DOMAIN effects, NEW output \in Outputs,
         claimHuman(h, e, output)
  PROVE  Kept
<1>1. DataOK /\ ProcessTypeOK /\ HoldersOK
  BY DEF IInv
<1>2. /\ UNCHANGED versions /\ UNCHANGED <<policy, worker, faults>> /\ persistClaim(e, h)
      /\ resolving' = [resolving EXCEPT ![h] =
             [effect |-> e, output |-> output, claim |-> effects[e].claims + 1]]
  BY DEF claimHuman
<1>3. h \in Processes /\ h \notin Workers
  BY EngineAssumption DEF Processes
<1>4. DataOK' /\ RunsStand
  BY <1>1, <1>2, <1>3, ClaimKeepsData
<1> DEFINE Answer == [effect : Nat, output : Outputs \cup {Otherwise}, claim : Nat]
<1>5. PICK a \in Answer : /\ resolving' = [resolving EXCEPT ![h] = a]
                          /\ a.effect = e /\ a.claim = effects[e].claims + 1
  <2>1. e \in Nat
    BY <1>1, Rows DEF DataOK
  <2>2. PICK n \in Nat : n = effects[e].claims + 1
    BY <1>1, Rows DEF Effect, DataOK
  <2> DEFINE a == [effect |-> e, output |-> output, claim |-> n]
  <2>3. a \in Answer /\ a.effect = e /\ a.claim = n
    BY <2>1
  <2>4. resolving' = [resolving EXCEPT ![h] = a]
    BY <1>2, <2>2
  <2> HIDE DEF a
  <2> QED BY <2>2, <2>3, <2>4
<1>6. resolving \in [Humans -> Answer]
  BY <1>1 DEF ProcessTypeOK
<1> HIDE DEF Answer
<1>7. /\ resolving' \in [Humans -> Answer] /\ resolving'[h] = a
      /\ \A g \in Humans \ {h} : resolving'[g] = resolving[g]
  BY <1>5, <1>6
<1>8. ProcessTypeOK'
  BY <1>1, <1>2, <1>7 DEF ProcessTypeOK, Answer
<1>9. /\ \A y \in Processes \ {h} : heldEffect(y)' = heldEffect(y) /\ heldClaim(y)' = heldClaim(y)
      /\ heldEffect(h)' = e /\ heldClaim(h)' = effects[e].claims + 1
  BY <1>2, <1>3, <1>5, <1>7 DEF heldEffect, heldClaim, Processes
<1>10. DOMAIN effects' = DOMAIN effects
  BY <1>1, <1>2, <1>3, ClaimedRow DEF DataOK
<1>11. \A v \in Workers : IF worker'[v].phase = "executing"
                            THEN worker'[v].effect \in DOMAIN effects' ELSE worker'[v].effect = 0
  BY <1>1, <1>2, <1>10 DEF HoldersOK
<1>12. \A g \in Humans : resolving'[g] # NoAnswer => resolving'[g].effect \in DOMAIN effects'
  BY <1>1, <1>5, <1>7, <1>10 DEF HoldersOK
<1>13. HoldersOK'
  BY <1>1, <1>2, <1>3, <1>9, <1>11, <1>12, HoldersClaim
<1>14. Closing
  BY <1>1, <1>2, <1>3, ClaimedRow, NothingCloses DEF DataOK
<1> QED BY <1>4, <1>8, <1>13, <1>14, StandingIsAStutter DEF Kept, IInv

\* The answer of a person is stored by the claim it was given under, or refused.
LEMMA PersonCompletes ==
  ASSUME IInv, NEW h \in Humans, completeHuman(h)
  PROVE  Kept
<1>1. DataOK /\ ProcessTypeOK /\ HoldersOK
  BY DEF IInv
<1>2. PICK e \in DOMAIN effects : e = resolving[h].effect
  BY <1>1 DEF completeHuman, HoldersOK
<1>3. PICK output : output = resolving[h].output
  OBVIOUS
<1>4. /\ UNCHANGED versions /\ UNCHANGED <<policy, worker, faults>>
      /\ policy' \in [ErrorCodes -> BOOLEAN]
      /\ resolving' = [resolving EXCEPT ![h] = NoAnswer]
  BY <1>1 DEF completeHuman, ProcessTypeOK
<1>5. CASE completable(e, h, output) /\ complete(e, output)
  <2>1. /\ DataOK' /\ OwnersOnlyLeave /\ PathStep
        /\ \A f \in DOMAIN effects \ {e} : effects'[f].status = effects[f].status
    BY <1>1, <1>4, <1>5, CompleteKeepsData, CompleteTakes
  <2>2. IInv' /\ MemoryOnlyFades
    BY <1>4, <2>1, PersonForgets
  <2>3. /\ heldEffect(h) = e /\ effects[e].owner = h /\ h \in Processes /\ heldEffect(h)' = 0
    BY <1>1, <1>2, <1>4, <1>5, EngineAssumption
       DEF heldEffect, completable, claimed, Processes, NoAnswer, ProcessTypeOK
  <2>4. Closing
    BY <1>1, <2>1, <2>2, <2>3, OwnerCloses
  <2> QED BY <2>1, <2>2, <2>4 DEF Kept
<1>6. CASE UNCHANGED stored
  <2>1. DataOK' /\ OwnersOnlyLeave /\ Closing /\ RunsStand
    BY <1>1, <1>4, <1>6, TablesKept
  <2>2. IInv'
    BY <1>4, <2>1, PersonForgets
  <2> QED BY <2>1, <2>2, StandingIsAStutter DEF Kept
<1> QED BY <1>2, <1>3, <1>5, <1>6 DEF completeHuman

\* A person who gives up, and a change of the failure policy.
LEMMA PersonCrashes ==
  ASSUME IInv, (\E h \in Humans : humanCrash(h))
               \/ \E c \in ErrorCodes, b \in BOOLEAN : setWorkflowFailurePolicy(c, b)
  PROVE  Kept
<1>1. DataOK /\ ProcessTypeOK
  BY DEF IInv
<1>2. /\ UNCHANGED <<versions, stored>> /\ UNCHANGED worker
      /\ policy' \in [ErrorCodes -> BOOLEAN]
      /\ fault \/ UNCHANGED faults
      /\ \/ UNCHANGED resolving
         \/ \E h \in Humans : resolving' = [resolving EXCEPT ![h] = NoAnswer]
  BY <1>1 DEF humanCrash, setWorkflowFailurePolicy, ProcessTypeOK
<1>3. DataOK' /\ OwnersOnlyLeave /\ Closing /\ RunsStand
  BY <1>1, <1>2, TablesKept
<1>4. IInv'
  BY <1>2, <1>3, PersonForgets
<1> QED BY <1>3, <1>4, StandingIsAStutter DEF Kept

\* A definition is registered beside the runs.
LEMMA DefinitionRegistered ==
  ASSUME IInv, NEW d \in Candidates, registerWorkflowDefinition(d)
  PROVE  Kept
<1>1. DataOK /\ ProcessTypeOK
  BY DEF IInv
<1>2. DataOK' /\ RunsStand
  BY <1>1, RegisterKeepsData
<1>3. /\ UNCHANGED <<runs, effects, events>> /\ UNCHANGED <<policy, worker, resolving, faults>>
  BY DEF registerWorkflowDefinition, stored
<1>4. OwnersOnlyLeave /\ policy' \in [ErrorCodes -> BOOLEAN] /\ Closing
  BY <1>1, <1>3 DEF OwnersOnlyLeave, ProcessTypeOK, Closing
<1>5. IInv'
  BY <1>2, <1>3, <1>4, PersonForgets
<1> QED BY <1>2, <1>4, <1>5, StandingIsAStutter DEF Kept

\* A run is started, by its identifier or by the message of a person.
LEMMA RunStarted ==
  ASSUME IInv, NEW id \in Ids, NEW asked, NEW contract, startWorkflow(id, asked, contract)
  PROVE  Kept
<1>1. DataOK /\ ProcessTypeOK
  BY DEF IInv
<1>2. DataOK' /\ OwnersOnlyLeave /\ \A f \in DOMAIN effects : effects'[f] = effects[f]
  BY <1>1, StartKeepsData
<1>3. UNCHANGED worker /\ UNCHANGED resolving /\ UNCHANGED faults /\ policy' \in [ErrorCodes -> BOOLEAN]
  BY <1>1 DEF startWorkflow, ProcessTypeOK
<1>4. IInv'
  BY <1>2, <1>3, PersonForgets
<1>5. Closing
  BY <1>2, NothingCloses
<1>6. PathStep
  BY <1>1, StartBegins
<1> QED BY <1>4, <1>5, <1>6 DEF Kept

----------------------------------------------------------------------------
(* The theorems.                                                           *)

\* Nothing is stored yet and no process runs.
LEMMA InitOK == Init => IInv /\ Path!PathInit
<1> SUFFICES ASSUME Init PROVE IInv /\ Path!PathInit
  OBVIOUS
<1>1. /\ versions = [id \in Ids |-> <<>>] /\ runs = <<>> /\ effects = <<>> /\ events = <<>>
      /\ policy = [c \in ErrorCodes |-> FALSE] /\ worker = [w \in Workers |-> Down]
      /\ resolving = [h \in Humans |-> NoAnswer] /\ faults = 0
  BY DEF Init
<1>2. DOMAIN runs = {} /\ DOMAIN effects = {}
  BY <1>1
<1>3. StoreTypeOK /\ Len(events) = Len(runs)
  BY <1>1, EmptySeq DEF StoreTypeOK
<1>4. ProcessTypeOK
  <2>1. Down \in [phase : Phases, stopping : BOOLEAN, effect : Nat, claim : Nat]
    BY DEF Down, Phases
  <2>2. NoAnswer \in [effect : Nat, output : Outputs \cup {Otherwise}, claim : Nat]
    BY DEF NoAnswer
  <2> QED BY <1>1, <2>1, <2>2 DEF ProcessTypeOK
<1>5. \A x \in Processes : heldEffect(x) = 0
  BY <1>1 DEF heldEffect, Processes, Down, NoAnswer
<1>6. HoldersOK
  BY <1>1, <1>2, <1>5 DEF HoldersOK, Down
<1>7. PointersOK /\ RevisionNumbersEvents /\ OneEffectEach /\ OwnersOK
  BY <1>2, <1>3 DEF PointersOK, RevisionNumbersEvents, OneEffectEach, OwnersOK
<1>8. Path!PathInit
  BY <1>1 DEF Path!PathInit, Place
<1> QED BY <1>3, <1>4, <1>6, <1>7, <1>8 DEF IInv, DataOK

\* Every step of the engine keeps all three.
LEMMA StepOK == ASSUME IInv, [Next]_vars PROVE Kept
<1>1. ASSUME NEW d \in Candidates, registerWorkflowDefinition(d) PROVE Kept
  BY <1>1, DefinitionRegistered
<1>2. ASSUME NEW id \in Ids, NEW v, NEW c, startWorkflow(id, v, c) PROVE Kept
  BY <1>2, RunStarted
<1>3. CASE startHumanIntake
  BY <1>2, <1>3 DEF startHumanIntake, intakeTargets
<1>4. ASSUME NEW w \in Workers, Work(w) \/ Harm(w) PROVE Kept
  BY <1>4, WorkerMoves, WorkerStops, WorkerRecovers, WorkerCompletes, WorkerFails, WorkerClaims
     DEF Work, Harm
<1>5. ASSUME NEW e \in DOMAIN effects, leaseExpires(e) \/ leaseExpiresEarly(e) PROVE Kept
  BY <1>5, LeaseRunsOut
<1>6. ASSUME NEW h \in Humans, NEW e \in DOMAIN effects, NEW o \in Outputs, claimHuman(h, e, o)
      PROVE  Kept
  BY <1>6, PersonClaims
<1>7. ASSUME NEW h \in Humans, completeHuman(h) \/ humanCrash(h) PROVE Kept
  BY <1>7, PersonCompletes, PersonCrashes
<1>8. ASSUME NEW c \in ErrorCodes, NEW b \in BOOLEAN, setWorkflowFailurePolicy(c, b) PROVE Kept
  BY <1>8, PersonCrashes
<1>9. CASE UNCHANGED vars
  <2>1. UNCHANGED <<versions, stored>> /\ UNCHANGED <<policy, worker, resolving, faults>>
    BY <1>9 DEF vars, stored
  <2>2. DataOK' /\ OwnersOnlyLeave /\ Closing /\ RunsStand
    BY <2>1, TablesKept DEF IInv
  <2>3. policy' \in [ErrorCodes -> BOOLEAN]
    BY <2>1 DEF IInv, ProcessTypeOK
  <2>4. IInv'
    BY <2>1, <2>2, <2>3, PersonForgets
  <2> QED BY <2>2, <2>4, StandingIsAStutter DEF Kept
<1> QED BY <1>1, <1>2, <1>3, <1>4, <1>5, <1>6, <1>7, <1>8, <1>9 DEF Next

\* The invariant says what the run checks.
LEMMA InvariantCarries == IInv => OpenRunHasItsEffect
<1> SUFFICES ASSUME IInv, NEW r \in DOMAIN runs
             PROVE  IF Open(r)
                    THEN \E e \in DOMAIN effects :
                            /\ OpenEffects(r) = {e}
                            /\ effects[e].step = runs[r].step
                            /\ runs[r].status = statusFor(stepOf(e).executor)
                    ELSE OpenEffects(r) = {}
  BY DEF OpenRunHasItsEffect
<1>1. OneEffectEach
  BY DEF IInv, DataOK
<1>2. OpenEffects(r) = {e \in DOMAIN effects : effects[e].run = r /\ Live(e)}
  BY DEF OpenEffects, Live
<1>3. CASE Open(r)
  <2>1. PICK e \in DOMAIN effects : Live(e) /\ effects[e].run = r
    BY <1>1, <1>3 DEF OneEffectEach
  <2>2. OpenEffects(r) = {e}
    BY <1>1, <1>2, <2>1 DEF OneEffectEach
  <2> QED BY <1>1, <1>3, <2>1, <2>2 DEF OneEffectEach
<1>4. CASE ~Open(r)
  BY <1>1, <1>2, <1>4 DEF OneEffectEach
<1> QED BY <1>3, <1>4

\* The invariant holds of every behaviour of the engine.
THEOREM EngineInvariant == Spec => []IInv
<1>1. Init => IInv
  BY InitOK
<1>2. IInv /\ [Next]_vars => IInv'
  BY StepOK DEF Kept
<1> QED BY <1>1, <1>2, PTL DEF Spec

\* No run is lost and none forks: an open run has exactly one effect to be done,
\* at the step it stands at, and a finished run has none (claim, complete and fail
\* of the effect queue, recoverExpired, the start of a run).
THEOREM NoRunIsLostOrForks == Spec => []OpenRunHasItsEffect
BY EngineInvariant, InvariantCarries, PTL

\* The number of a run's events is its revision (workflow_events is keyed by
\* workflow and revision), however often it was claimed, recovered and retried.
THEOREM EventsAreNumbered == Spec => []RevisionNumbersEvents
<1>1. IInv => RevisionNumbersEvents
  BY DEF IInv, DataOK
<1> QED BY <1>1, EngineInvariant, PTL

\* An effect is closed only by the process that holds its current claim: what a
\* coordinator or a person answers after the lease was lost and the effect claimed
\* again changes nothing (the compare-and-swap on status and owner).
THEOREM LateAnswersChangeNothing == Spec => AnswerOfCurrentClaim
<1>1. IInv /\ [Next]_vars =>
        [\A e \in DOMAIN effects :
            effects[e].status = "CLAIMED" /\ effects'[e].status \in {"COMPLETED", "FAILED"} =>
                holdsClaim(e) /\ ~holdsClaim(e)']_vars
  BY StepOK DEF Kept, Closing
<1> QED BY <1>1, EngineInvariant, PTL DEF Spec, AnswerOfCurrentClaim

\* The engine implements WorkflowPath: its initial state is that of the abstract
\* specification, and each of its steps starts a run, takes a route of the run's own
\* version, gives the run up, or is invisible.
THEOREM EngineImplementsPath == Spec => FollowsPath
<1>1. Init => Path!PathInit
  BY InitOK
<1>2. IInv /\ [Next]_vars => [Path!PathNext]_Place
  BY StepOK DEF Kept, PathStep
<1> QED BY <1>1, <1>2, EngineInvariant, PTL DEF Spec, FollowsPath, Path!PathSpec
=============================================================================
