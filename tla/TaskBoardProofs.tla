-------------------------- MODULE TaskBoardProofs --------------------------
(***************************************************************************)
(* Safety of TaskLifecycle for any sets of packets, sessions, commands in  *)
(* flight, decisions, globs and definitions, and any bound on versions;    *)
(* then of the sprints composed with the packets they group, for any       *)
(* sprints and limits: a closed sprint hides no open work, and a sprint    *)
(* exceeds its limit only by what was added to it; and of the conflict     *)
(* check on globs of any depth, with what the gate promises where every    *)
(* write set is made of plain ones.                                        *)
(***************************************************************************)
EXTENDS SprintBoard, GlobOverlap, FiniteSetTheorems, TLAPS

----------------------------------------------------------------------------
(* Type correctness.                                                       *)

\* Recording a definition appends at most one version and never removes one.
LEMMA RecordExtends ==
  ASSUME PacketRowsOK, NEW p \in Packets, NEW d \in Definitions, recordWorkDefinition(p, d)
  PROVE  /\ history' \in [Packets -> Seq(Definitions)]
         /\ \A q \in Packets \ {p} : history'[q] = history[q]
         /\ Len(history'[p]) \in 1..MaxVersion
         /\ Len(history'[p]) >= Len(history[p])
         /\ \A v \in 1..Len(history[p]) : history'[p][v] = history[p][v]
<1>0. /\ history \in [Packets -> Seq(Definitions)]
      /\ history[p] \in Seq(Definitions)
      /\ Len(history[p]) \in Nat
      /\ Len(history[p]) <= MaxVersion
  <2>1. history \in [Packets -> Seq(Definitions)] /\ Len(history[p]) <= MaxVersion
    BY DEF PacketRowsOK, version
  <2>2. history[p] \in Seq(Definitions)
    BY <2>1
  <2>3. Len(history[p]) \in Nat
    BY <2>2
  <2> QED BY <2>1, <2>2, <2>3
<1>1. CASE version(p) > 0 /\ loadWorkDefinition(p) = d
  BY <1>0, <1>1, MaxVersionAssumption DEF recordWorkDefinition, version
<1>2. CASE ~(version(p) > 0 /\ loadWorkDefinition(p) = d)
  <2>1. history' = [history EXCEPT ![p] = Append(history[p], d)] /\ Len(history[p]) < MaxVersion
    BY <1>2 DEF recordWorkDefinition, version
  <2>2. history'[p] = Append(history[p], d)
    BY <1>0, <2>1
  <2> QED BY <1>0, <2>1, <2>2, MaxVersionAssumption
<1> QED BY <1>1, <1>2

\* A command that records a definition of p keeps the packet rows well formed.
LEMMA RecordRowsOK ==
  ASSUME PacketRowsOK, NEW p \in Packets, NEW d \in Definitions, recordWorkDefinition(p, d),
         status' \in [Packets -> Status], exists(p)',
         \A q \in Packets \ {p} : status'[q] = status[q],
         deps' \in [Packets -> SUBSET Packets]
  PROVE  PacketRowsOK'
<1>1. /\ history' \in [Packets -> Seq(Definitions)]
      /\ \A q \in Packets \ {p} : history'[q] = history[q]
      /\ Len(history'[p]) \in 1..MaxVersion
  BY RecordExtends
<1>2. ASSUME NEW q \in Packets
      PROVE  version(q)' <= MaxVersion /\ (version(q)' = 0 <=> ~exists(q)')
  <2>1. CASE q = p
    BY <1>1, <2>1, MaxVersionAssumption DEF version
  <2>2. CASE q # p
    BY <1>1, <2>2, MaxVersionAssumption DEF PacketRowsOK, version, exists
  <2> QED BY <2>1, <2>2
<1> QED BY <1>1, <1>2 DEF PacketRowsOK

\* The version of a packet is a bounded natural, positive once the row exists.
LEMMA VersionInRange ==
  ASSUME PacketRowsOK, NEW p \in Packets
  PROVE  version(p) \in 0..MaxVersion /\ (exists(p) => version(p) \in 1..MaxVersion)
<1>1. history[p] \in Seq(Definitions)
  BY DEF PacketRowsOK
<1>2. version(p) \in Nat
  BY <1>1 DEF version
<1>3. version(p) <= MaxVersion /\ (exists(p) => version(p) # 0)
  BY DEF PacketRowsOK
<1>4. ASSUME NEW n \in Nat, n <= MaxVersion
      PROVE  n \in 0..MaxVersion /\ (n # 0 => n \in 1..MaxVersion)
  BY <1>4, MaxVersionAssumption
<1> QED BY <1>2, <1>3, <1>4

\* The initial states are well typed.
LEMMA InitTypeOK == Init => TypeOK
<1> SUFFICES ASSUME Init PROVE TypeOK
  OBVIOUS
<1>1. PacketRowsOK
  BY MaxVersionAssumption DEF Init, PacketRowsOK, Status, version, exists
<1>2. LeaseRowsOK
  BY DEF Init, LeaseRowsOK
<1> QED BY <1>1, <1>2 DEF Init, TypeOK

\* Every step keeps the types: one case for each action.
LEMMA NextTypeOK == TypeOK /\ [Next]_vars => TypeOK'
<1> SUFFICES ASSUME TypeOK, [Next]_vars PROVE TypeOK'
  OBVIOUS
<1>1. ASSUME NEW p \in Packets, NEW d \in Definitions, createPacket(p, d)
      PROVE  TypeOK'
  <2>1. PacketRowsOK'
    <3>1. /\ status' \in [Packets -> Status]
          /\ exists(p)'
          /\ \A q \in Packets \ {p} : status'[q] = status[q]
          /\ deps' \in [Packets -> SUBSET Packets]
      BY <1>1, DefinitionsAssumption
         DEF createPacket, TypeOK, PacketRowsOK, exists, Status, WorkDefinition
    <3>2. recordWorkDefinition(p, d)
      BY <1>1 DEF createPacket
    <3> QED BY <3>1, <3>2, RecordRowsOK DEF TypeOK
  <2> QED BY <1>1, <2>1 DEF createPacket, TypeOK, LeaseRowsOK
<1>2. ASSUME NEW p \in Packets, NEW d \in Definitions, upsertPacketFile(p, d)
      PROVE  TypeOK'
  <2>1. PacketRowsOK'
    <3>1. /\ status' \in [Packets -> Status]
          /\ exists(p)'
          /\ \A q \in Packets \ {p} : status'[q] = status[q]
          /\ deps' \in [Packets -> SUBSET Packets]
      BY <1>2, DefinitionsAssumption
         DEF upsertPacketFile, TypeOK, PacketRowsOK, exists, Status, WorkDefinition
    <3>2. recordWorkDefinition(p, d)
      BY <1>2 DEF upsertPacketFile
    <3> QED BY <3>1, <3>2, RecordRowsOK DEF TypeOK
  <2> QED BY <1>2, <2>1 DEF upsertPacketFile, TypeOK, LeaseRowsOK
<1>3. ASSUME NEW p \in Packets, NEW d \in Definitions, amendDefinition(p, d)
      PROVE  TypeOK'
  <2>1. PacketRowsOK'
    <3>1. /\ status' \in [Packets -> Status]
          /\ exists(p)'
          /\ \A q \in Packets \ {p} : status'[q] = status[q]
          /\ deps' \in [Packets -> SUBSET Packets]
      BY <1>3, DefinitionsAssumption
         DEF amendDefinition, TypeOK, PacketRowsOK, exists, Status, WorkDefinition
    <3>2. recordWorkDefinition(p, d)
      BY <1>3 DEF amendDefinition
    <3> QED BY <3>1, <3>2, RecordRowsOK DEF TypeOK
  <2> QED BY <1>3, <2>1 DEF amendDefinition, TypeOK, LeaseRowsOK
<1>4. ASSUME NEW p \in Packets, NEW d \in Definitions, amendWriteSet(p, d)
      PROVE  TypeOK'
  <2>1. PacketRowsOK'
    <3>1. /\ status' \in [Packets -> Status]
          /\ exists(p)'
          /\ \A q \in Packets \ {p} : status'[q] = status[q]
          /\ deps' \in [Packets -> SUBSET Packets]
      BY <1>4, DefinitionsAssumption
         DEF amendWriteSet, TypeOK, PacketRowsOK, exists, Status, WorkDefinition
    <3>2. recordWorkDefinition(p, d)
      BY <1>4 DEF amendWriteSet
    <3> QED BY <3>1, <3>2, RecordRowsOK DEF TypeOK
  <2> QED BY <1>4, <2>1 DEF amendWriteSet, TypeOK, LeaseRowsOK
<1>5. ASSUME NEW s \in Sessions, NEW p \in Packets, startPacket(s, p)
      PROVE  TypeOK'
  <2>1. PacketRowsOK'
    BY <1>5 DEF startPacket, TypeOK, PacketRowsOK, exists, Status, version
  <2>2. LeaseRowsOK'
    BY <1>5, NoSessionAssumption DEF startPacket, leasesOf, TypeOK, LeaseRowsOK
  <2> QED BY <1>5, <2>1, <2>2 DEF startPacket, TypeOK
<1>6. ASSUME NEW s \in Sessions, NEW p \in Packets, NEW to \in Status, movePacket(s, p, to)
      PROVE  TypeOK'
  <2>1. status[p] # "none" /\ to # "none"
    BY <1>6 DEF movePacket, validateMove, ALLOWED
  <2>2. PacketRowsOK'
    BY <1>6, <2>1 DEF movePacket, persistMove, TypeOK, PacketRowsOK, exists, version
  <2>3. LeaseRowsOK'
    BY <1>6, NoSessionAssumption DEF movePacket, persistMove, leasesOf, TypeOK, LeaseRowsOK
  <2> QED BY <1>6, <2>2, <2>3 DEF movePacket, TypeOK
<1>7. ASSUME NEW s \in Sessions, NEW p \in Packets, NEW c \in Calls, BeginReview(c, s, p)
      PROVE  TypeOK'
  <2>1. status[p] = "active" /\ holder[p] = s
    BY <1>7 DEF BeginReview, validateMove, ALLOWED
  <2>2. version(p) \in 1..MaxVersion
    BY <2>1, VersionInRange DEF TypeOK, exists
  <2>3. PacketRowsOK'
    BY <1>7 DEF BeginReview, TypeOK, PacketRowsOK, exists, version
  <2>4. LeaseRowsOK'
    BY <1>7, NoSessionAssumption DEF BeginReview, refreshHeartbeat, leasesOf, TypeOK, LeaseRowsOK
  <2>5. call' \in [Calls -> ReviewCall \cup {NoCall}]
    BY <1>7, <2>1, <2>2 DEF BeginReview, TypeOK, ReviewCall
  <2> QED BY <1>7, <2>3, <2>4, <2>5 DEF BeginReview, TypeOK
<1>8. ASSUME NEW s \in Sessions, NEW p \in Packets, releaseLease(s, p)
      PROVE  TypeOK'
  <2>1. PacketRowsOK'
    BY <1>8 DEF releaseLease, TypeOK, PacketRowsOK, exists, version
  <2>2. LeaseRowsOK'
    BY <1>8, NoSessionAssumption DEF releaseLease, leasesOf, TypeOK, LeaseRowsOK
  <2> QED BY <1>8, <2>1, <2>2 DEF releaseLease, TypeOK
<1>9. ASSUME NEW s \in Sessions, NEW p \in Packets, NEW force \in BOOLEAN,
             takeoverPacket(s, p, force)
      PROVE  TypeOK'
  <2>1. PacketRowsOK'
    BY <1>9 DEF takeoverPacket, TypeOK, PacketRowsOK, exists, version
  <2>2. LeaseRowsOK'
    BY <1>9, NoSessionAssumption DEF takeoverPacket, TypeOK, LeaseRowsOK
  <2> QED BY <1>9, <2>1, <2>2 DEF takeoverPacket, TypeOK
<1>10. ASSUME NEW c \in Calls, FinishReview(c)
       PROVE  TypeOK'
  <2> DEFINE m == call[c]
  <2>1. m \in ReviewCall
    BY <1>10 DEF FinishReview, TypeOK
  <2>2. /\ status[m.packet] = "active"
        /\ status' = [status EXCEPT ![m.packet] = "review"]
        /\ holder' = [holder EXCEPT ![m.packet] = NoSession]
        /\ fresh' = fresh \ {m.packet}
        /\ UNCHANGED <<history, deps>>
    BY <1>10 DEF FinishReview, persistMove, reviewStillValid
  <2>3. PacketRowsOK'
    BY <2>1, <2>2 DEF TypeOK, PacketRowsOK, ReviewCall, Status, exists, version
  <2>4. LeaseRowsOK'
    BY <2>1, <2>2 DEF TypeOK, LeaseRowsOK, ReviewCall
  <2>5. candidates' \in [Packets -> SUBSET Candidate]
    BY <1>10, <2>1 DEF FinishReview, persistReviewCandidate, Candidate, ReviewCall, TypeOK
  <2>6. call' \in [Calls -> ReviewCall \cup {NoCall}]
    BY <1>10 DEF FinishReview, TypeOK
  <2> QED BY <1>10, <2>3, <2>4, <2>5, <2>6 DEF FinishReview, TypeOK
<1>11. ASSUME NEW c \in Calls, AbortReview(c)
       PROVE  TypeOK'
  BY <1>11 DEF AbortReview, TypeOK, PacketRowsOK, LeaseRowsOK, exists, version
<1>12. ASSUME NEW s \in Sessions, heartbeat(s)
       PROVE  TypeOK'
  <2>1. LeaseRowsOK'
    BY <1>12, NoSessionAssumption DEF heartbeat, refreshHeartbeat, leasesOf, TypeOK, LeaseRowsOK
  <2> QED BY <1>12, <2>1 DEF heartbeat, TypeOK, PacketRowsOK, exists, version
<1>13. ASSUME NEW p \in Packets, expire(p)
       PROVE  TypeOK'
  BY <1>13 DEF expire, TypeOK, PacketRowsOK, LeaseRowsOK, exists, version
<1>14. ASSUME NEW d \in Decisions, NEW p \in Packets, ask(d, p)
       PROVE  TypeOK'
  <2>1. decision' \in [Decisions -> Link \cup {NotAsked}]
    <3>1. linkedTo(p, Unanswered) \in Link
      <4>1. 0 \in 0..MaxVersion
        BY MaxVersionAssumption
      <4> QED BY <4>1 DEF linkedTo, Unanswered, Link
    <3> QED BY <1>14, <3>1 DEF ask, TypeOK
  <2> QED BY <1>14, <2>1 DEF ask, TypeOK, PacketRowsOK, LeaseRowsOK, exists, version
<1>15. ASSUME NEW d \in Decisions, answer(d)
       PROVE  TypeOK'
  <2>1. decision[d] \in Link
    BY <1>15 DEF answer, TypeOK, NotAsked
  <2>2. decision[d].packet \in Packets
    BY <2>1 DEF Link
  <2>3. version(decision[d].packet) \in 0..MaxVersion
    BY <2>2, VersionInRange DEF TypeOK
  <2>4. decision' \in [Decisions -> Link \cup {NotAsked}]
    BY <1>15, <2>2, <2>3 DEF answer, linkedTo, Link, TypeOK
  <2> QED BY <1>15, <2>4 DEF answer, TypeOK, PacketRowsOK, LeaseRowsOK, exists, version
<1>16. ASSUME NEW p \in Packets, recordTaskClosure(p)
       PROVE  TypeOK'
  <2>1. PacketRowsOK'
    BY <1>16 DEF recordTaskClosure, TypeOK, PacketRowsOK, Status, exists, version
  <2> QED BY <1>16, <2>1 DEF recordTaskClosure, TypeOK, LeaseRowsOK
<1>17. CASE UNCHANGED vars
  BY <1>17 DEF vars, TypeOK, PacketRowsOK, LeaseRowsOK, exists, version
<1> QED
  BY <1>1, <1>2, <1>3, <1>4, <1>5, <1>6, <1>7, <1>8, <1>9, <1>10, <1>11, <1>12, <1>13, <1>14,
     <1>15, <1>16, <1>17, FilesAssumption DEF Next, Redefine, Work, Start, Environment

\* Every reachable state is well typed: a packet has a definition as soon as it
\* has a row, and only a leased packet counts as fresh.
THEOREM TypeCorrect == Spec => []TypeOK
  BY InitTypeOK, NextTypeOK, PTL DEF Spec

----------------------------------------------------------------------------
(* Leases.                                                                 *)

\* The commands that touch neither a status nor a lease row.
Bystander ==
  \/ \E p \in Packets :
       \/ \E d \in Definitions : amendDefinition(p, d) \/ amendWriteSet(p, d)
       \/ \E d \in Files : upsertPacketFile(p, d)
       \/ \E s \in Sessions, c \in Calls : BeginReview(c, s, p)
       \/ expire(p)
       \/ \E d \in Decisions : ask(d, p)
  \/ \E c \in Calls : AbortReview(c)
  \/ \E s \in Sessions : heartbeat(s)
  \/ \E d \in Decisions : answer(d)

\* The bystanders' actions touch neither status nor lease.
LEMMA BystanderKeeps == Bystander => UNCHANGED <<status, holder>>
  BY DEF Bystander, amendDefinition, amendWriteSet, upsertPacketFile, BeginReview, expire, ask,
         AbortReview, heartbeat, answer

\* A step is a bystander's or one of the commands the other lemmas treat.
LEMMA StepCases ==
  ASSUME [Next]_vars
  PROVE  \/ Bystander
         \/ UNCHANGED vars
         \/ \E p \in Packets :
              \/ \E d \in Definitions : createPacket(p, d)
              \/ recordTaskClosure(p)
              \/ \E s \in Sessions :
                   \/ startPacket(s, p)
                   \/ \E to \in Status : movePacket(s, p, to)
                   \/ releaseLease(s, p)
                   \/ \E force \in BOOLEAN : takeoverPacket(s, p, force)
         \/ \E c \in Calls : FinishReview(c)
  BY DEF Next, Redefine, Work, Start, Environment, Bystander

\* What a completed review move does to the row and the lease of its packet.
LEMMA FinishEffect ==
  ASSUME TypeOK, NEW c \in Calls, FinishReview(c)
  PROVE  \E p \in Packets :
           /\ p = call[c].packet
           /\ status[p] = "active"
           /\ holder[p] \in Sessions
           /\ holder[p] = call[c].session
           /\ status' = [status EXCEPT ![p] = "review"]
           /\ holder' = [holder EXCEPT ![p] = NoSession]
<1>1. call[c] \in ReviewCall
  BY DEF FinishReview, TypeOK
<1> QED BY <1>1 DEF FinishReview, reviewStillValid, persistMove, ReviewCall

\* Every step keeps leases on claimed packets: a move that leaves active clears its lease.
LEMMA LeaseOnlyWhileClaimedStep ==
  TypeOK /\ LeaseOnlyWhileClaimed /\ [Next]_vars => LeaseOnlyWhileClaimed'
<1> SUFFICES ASSUME TypeOK, LeaseOnlyWhileClaimed, [Next]_vars
             PROVE  LeaseOnlyWhileClaimed'
  OBVIOUS
<1> USE DEF LeaseOnlyWhileClaimed, TypeOK, PacketRowsOK, LeaseRowsOK
<1>1. CASE Bystander \/ UNCHANGED vars
  BY <1>1, BystanderKeeps DEF vars
<1>2. ASSUME NEW p \in Packets, NEW d \in Definitions, createPacket(p, d)
      PROVE  LeaseOnlyWhileClaimed'
  BY <1>2 DEF createPacket, exists
<1>3. ASSUME NEW p \in Packets, recordTaskClosure(p)
      PROVE  LeaseOnlyWhileClaimed'
  BY <1>3 DEF recordTaskClosure
<1>4. ASSUME NEW p \in Packets, NEW s \in Sessions, startPacket(s, p)
      PROVE  LeaseOnlyWhileClaimed'
  BY <1>4 DEF startPacket
<1>5. ASSUME NEW p \in Packets, NEW s \in Sessions, NEW to \in Status, movePacket(s, p, to)
      PROVE  LeaseOnlyWhileClaimed'
  BY <1>5 DEF movePacket, persistMove
<1>6. ASSUME NEW p \in Packets, NEW s \in Sessions, releaseLease(s, p)
      PROVE  LeaseOnlyWhileClaimed'
  BY <1>6 DEF releaseLease
<1>7. ASSUME NEW p \in Packets, NEW s \in Sessions, NEW force \in BOOLEAN,
             takeoverPacket(s, p, force)
      PROVE  LeaseOnlyWhileClaimed'
  BY <1>7 DEF takeoverPacket
<1>8. ASSUME NEW c \in Calls, FinishReview(c)
      PROVE  LeaseOnlyWhileClaimed'
  BY <1>8, FinishEffect
<1> QED BY <1>1, <1>2, <1>3, <1>4, <1>5, <1>6, <1>7, <1>8, StepCases

\* No lease outlives the claim it stands for, whatever interleaves with a review
\* move that awaits its verification.
THEOREM LeaseSafety == Spec => []LeaseOnlyWhileClaimed
<1>1. Init => LeaseOnlyWhileClaimed
  BY DEF Init, LeaseOnlyWhileClaimed
<1> QED BY <1>1, LeaseOnlyWhileClaimedStep, TypeCorrect, PTL DEF Spec

----------------------------------------------------------------------------
(* The table of moves.                                                     *)

LegalStep(p) == status'[p] # status[p] =>
  \/ status[p] = "none" /\ status'[p] = "draft"
  \/ status[p] = "review" /\ status'[p] = "done"
  \/ /\ <<status[p], status'[p]>> \in ALLOWED
     /\ status'[p] = "active" => /\ status[p] = "ready"
                                 /\ holder[p] = NoSession
                                 /\ holder'[p] # NoSession

\* Every step moves each packet along the status table, or leaves it where it is.
LEMMA StepsAreLegal == TypeOK /\ [Next]_vars => \A q \in Packets : LegalStep(q)
<1> SUFFICES ASSUME TypeOK, [Next]_vars, NEW q \in Packets PROVE LegalStep(q)
  OBVIOUS
<1> USE DEF LegalStep, TypeOK, PacketRowsOK, LeaseRowsOK
<1>1. CASE Bystander \/ UNCHANGED vars
  BY <1>1, BystanderKeeps DEF vars
<1>2. ASSUME NEW p \in Packets, NEW d \in Definitions, createPacket(p, d)
      PROVE  LegalStep(q)
  BY <1>2 DEF createPacket, exists
<1>3. ASSUME NEW p \in Packets, recordTaskClosure(p)
      PROVE  LegalStep(q)
  BY <1>3 DEF recordTaskClosure
<1>4. ASSUME NEW p \in Packets, NEW s \in Sessions, startPacket(s, p)
      PROVE  LegalStep(q)
  BY <1>4, NoSessionAssumption DEF startPacket, ALLOWED
<1>5. ASSUME NEW p \in Packets, NEW s \in Sessions, NEW to \in Status, movePacket(s, p, to)
      PROVE  LegalStep(q)
  BY <1>5 DEF movePacket, validateMove, persistMove
<1>6. ASSUME NEW p \in Packets, NEW s \in Sessions, releaseLease(s, p)
      PROVE  LegalStep(q)
  BY <1>6 DEF releaseLease
<1>7. ASSUME NEW p \in Packets, NEW s \in Sessions, NEW force \in BOOLEAN,
             takeoverPacket(s, p, force)
      PROVE  LegalStep(q)
  BY <1>7 DEF takeoverPacket
<1>8. ASSUME NEW c \in Calls, FinishReview(c)
      PROVE  LegalStep(q)
  BY <1>8, FinishEffect DEF ALLOWED
<1> QED BY <1>1, <1>2, <1>3, <1>4, <1>5, <1>6, <1>7, <1>8, StepCases

\* Statuses change along the table only, and a packet becomes active only when
\* a session takes a lease nobody had.
THEOREM StatusSafety == Spec => StatusFollowsAllowed
<1>1. TypeOK /\ [Next]_vars =>
        [\A p \in Packets : LegalStep(p)]_vars
  BY StepsAreLegal
<1> QED BY <1>1, TypeCorrect, PTL DEF Spec, StatusFollowsAllowed, LegalStep

----------------------------------------------------------------------------
(* Candidates.                                                             *)

\* A review move in flight will name as producer the session that issued it.
ProducerIsCaller == \A c \in Calls : call[c] # NoCall => call[c].producer = call[c].session

\* Every step keeps the producer of a review its caller: only the step that begins the review names
\* him.
LEMMA ProducerIsCallerStep == TypeOK /\ ProducerIsCaller /\ [Next]_vars => ProducerIsCaller'
<1> SUFFICES ASSUME TypeOK, ProducerIsCaller, [Next]_vars PROVE ProducerIsCaller'
  OBVIOUS
<1>1. ASSUME NEW s \in Sessions, NEW p \in Packets, NEW c \in Calls, BeginReview(c, s, p)
      PROVE  ProducerIsCaller'
  <2>1. holder[p] = s
    BY <1>1 DEF BeginReview, validateMove, ALLOWED
  <2> QED BY <1>1, <2>1 DEF BeginReview, ProducerIsCaller, TypeOK
<1>2. ASSUME NEW c \in Calls, FinishReview(c) \/ AbortReview(c)
      PROVE  ProducerIsCaller'
  BY <1>2 DEF FinishReview, AbortReview, ProducerIsCaller, TypeOK
<1>3. CASE UNCHANGED call
  BY <1>3 DEF ProducerIsCaller
<1>4. \/ UNCHANGED call
      \/ \E s \in Sessions, p \in Packets, c \in Calls : BeginReview(c, s, p)
      \/ \E c \in Calls : FinishReview(c) \/ AbortReview(c)
  BY DEF Next, Redefine, Work, Start, Environment, vars, createPacket, upsertPacketFile,
         amendDefinition, amendWriteSet, startPacket, movePacket, releaseLease, takeoverPacket,
         heartbeat, expire, ask, answer, recordTaskClosure
<1> QED BY <1>1, <1>2, <1>3, <1>4

FromHolder(p) ==
  \A k \in candidates'[p] \ candidates[p] :
    /\ k.producer = holder[p]
    /\ status[p] = "active"
    /\ status'[p] = "review"

\* Every new candidate comes from the holder of the lease it was reviewed under.
LEMMA NewCandidates == TypeOK /\ ProducerIsCaller /\ [Next]_vars => \A p \in Packets : FromHolder(p)
<1> SUFFICES ASSUME TypeOK, ProducerIsCaller, [Next]_vars, NEW p \in Packets PROVE FromHolder(p)
  OBVIOUS
<1>1. ASSUME NEW c \in Calls, FinishReview(c)
      PROVE  FromHolder(p)
  <2>1. call[c] # NoCall /\ call[c].producer = call[c].session
    BY <1>1 DEF FinishReview, ProducerIsCaller
  <2>2. PICK q \in Packets : /\ q = call[c].packet
                             /\ status[q] = "active"
                             /\ holder[q] = call[c].session
                             /\ status' = [status EXCEPT ![q] = "review"]
    BY <1>1, FinishEffect
  <2>3. \/ UNCHANGED candidates
        \/ candidates' = [candidates EXCEPT ![q] =
             @ \cup {[version |-> call[c].version, producer |-> call[c].producer]}]
    BY <1>1, <2>2 DEF FinishReview, persistReviewCandidate
  <2>4. CASE UNCHANGED candidates
    BY <2>4 DEF FromHolder
  <2>5. CASE candidates' = [candidates EXCEPT ![q] =
               @ \cup {[version |-> call[c].version, producer |-> call[c].producer]}]
    BY <2>1, <2>2, <2>5 DEF FromHolder, TypeOK, PacketRowsOK
  <2> QED BY <2>3, <2>4, <2>5
<1>2. CASE UNCHANGED candidates
  BY <1>2 DEF FromHolder
<1>3. UNCHANGED candidates \/ \E c \in Calls : FinishReview(c)
  BY DEF Next, Redefine, Work, Start, Environment, vars, createPacket, upsertPacketFile,
         amendDefinition, amendWriteSet, startPacket, movePacket, BeginReview, AbortReview,
         releaseLease, takeoverPacket, heartbeat, expire, ask, answer, recordTaskClosure
<1> QED BY <1>1, <1>2, <1>3

\* A session that lost the packet while its review move awaited the verification
\* stores no candidate.
THEOREM CandidateSafety == Spec => CandidateComesFromHolder
<1>1. Init => ProducerIsCaller
  BY DEF Init, ProducerIsCaller
<1>2. TypeOK /\ ProducerIsCaller /\ [Next]_vars => [\A p \in Packets : FromHolder(p)]_vars
  BY NewCandidates
<1> QED BY <1>1, <1>2, ProducerIsCallerStep, TypeCorrect, PTL
        DEF Spec, CandidateComesFromHolder, FromHolder

----------------------------------------------------------------------------
(* The promise to the sessions.                                            *)

\* Packets that keep their status keep their stage in the abstract claim.
LEMMA StageUnchanged ==
  ASSUME UNCHANGED status PROVE stage' = stage
  BY DEF stage

\* Every step is one step of PacketClaim, or stutters.
LEMMA StepImplements ==
  TypeOK /\ LeaseOnlyWhileClaimed /\ [Next]_vars => [Claims!Next]_(Claims!vars)
<1> SUFFICES ASSUME TypeOK, LeaseOnlyWhileClaimed, [Next]_vars
             PROVE  [Claims!Next]_(Claims!vars)
  OBVIOUS
<1> USE DEF LeaseOnlyWhileClaimed, TypeOK, PacketRowsOK, LeaseRowsOK, Claims!vars
<1>1. CASE Bystander \/ UNCHANGED vars
  BY <1>1, BystanderKeeps, StageUnchanged DEF vars
<1>2. ASSUME NEW p \in Packets, NEW d \in Definitions, createPacket(p, d)
      PROVE  UNCHANGED Claims!vars
  BY <1>2 DEF createPacket, exists, stage, Terminal
<1>3. ASSUME NEW p \in Packets, recordTaskClosure(p)
      PROVE  Claims!Close(p)
  BY <1>3 DEF recordTaskClosure, stage, Terminal, Claims!Close
<1>4. ASSUME NEW p \in Packets, NEW s \in Sessions, startPacket(s, p)
      PROVE  Claims!Claim(s, p)
  BY <1>4 DEF startPacket, stage, Terminal, Claims!Claim
<1>5. ASSUME NEW p \in Packets, NEW s \in Sessions, NEW to \in Status, movePacket(s, p, to)
      PROVE  [Claims!Next]_(Claims!vars)
  <2>1. /\ <<status[p], to>> \in ALLOWED /\ to # "active" /\ to # "review"
        /\ status[p] = "active" => holder[p] = s
        /\ status' = [status EXCEPT ![p] = to]
        /\ IF status[p] = "active" /\ to = "blocked"
           THEN holder' = holder ELSE holder' = [holder EXCEPT ![p] = NoSession]
    BY <1>5 DEF movePacket, validateMove, persistMove
  <2>2. CASE status[p] = "active"
    <3>1. to = "blocked" /\ holder[p] # NoSession
      BY <2>1, <2>2, NoSessionAssumption DEF ALLOWED
    <3>2. Claims!Pause(p)
      BY <2>1, <2>2, <3>1 DEF stage, Terminal, Claims!Pause
    <3> QED BY <3>2 DEF Claims!Next
  <2>3. CASE status[p] \in {"blocked", "review"} /\ to = "ready"
    <3>1. Claims!Requeue(p)
      BY <2>1, <2>3 DEF stage, Terminal, Claims!Requeue
    <3> QED BY <3>1 DEF Claims!Next
  <2>4. CASE to = "dropped"
    <3>1. status[p] \in {"draft", "ready", "blocked"}
      BY <2>1, <2>4 DEF ALLOWED
    <3>2. Claims!Close(p)
      BY <2>1, <2>4, <3>1 DEF stage, Terminal, Claims!Close
    <3> QED BY <3>2 DEF Claims!Next
  <2>5. CASE status[p] \in {"draft", "ready"} /\ to \in {"draft", "ready"}
    <3>1. UNCHANGED Claims!vars
      BY <2>1, <2>5 DEF stage, Terminal
    <3> QED BY <3>1
  <2> QED BY <2>1, <2>2, <2>3, <2>4, <2>5 DEF ALLOWED
<1>6. ASSUME NEW p \in Packets, NEW s \in Sessions, releaseLease(s, p)
      PROVE  Claims!Release(p)
  BY <1>6, NoSessionAssumption DEF releaseLease, stage, Claims!Release
<1>7. ASSUME NEW p \in Packets, NEW s \in Sessions, NEW force \in BOOLEAN,
             takeoverPacket(s, p, force)
      PROVE  Claims!HandOver(s, p)
  BY <1>7 DEF takeoverPacket, stage, Claims!HandOver
<1>8. ASSUME NEW c \in Calls, FinishReview(c)
      PROVE  \E p \in Packets : Claims!Submit(p)
  <2>1. PICK p \in Packets : /\ status[p] = "active" /\ holder[p] \in Sessions
                             /\ status' = [status EXCEPT ![p] = "review"]
                             /\ holder' = [holder EXCEPT ![p] = NoSession]
    BY <1>8, FinishEffect
  <2>2. Claims!Submit(p)
    BY <2>1, NoSessionAssumption DEF stage, Terminal, Claims!Submit
  <2> QED BY <2>2
<1> QED BY <1>1, <1>2, <1>3, <1>4, <1>5, <1>6, <1>7, <1>8, StepCases DEF Claims!Next

\* The task store keeps its promise: one owner at a time, submission by the owner
\* only, and no owner while a packet is queued, under review or closed.
THEOREM PacketClaimImplemented == Spec => ImplementsPacketClaim
<1>1. Init => Claims!Init
  BY DEF Init, Claims!Init, stage, Terminal
<1> QED BY <1>1, StepImplements, TypeCorrect, LeaseSafety, PTL
        DEF Spec, ImplementsPacketClaim, Claims!Spec

----------------------------------------------------------------------------
(* Dependencies and write sets.                                            *)

\* No step moves a packet out of a terminal status.
LEMMA TerminalIsFinal ==
  ASSUME TypeOK, [Next]_vars, NEW p \in Packets, status[p] \in Terminal
  PROVE  status'[p] = status[p]
<1>1. LegalStep(p)
  BY StepsAreLegal
<1> QED BY <1>1 DEF LegalStep, ALLOWED, Terminal

\* Who becomes ready or active, and from what: only two commands do that.
LEMMA EntersFlight ==
  ASSUME TypeOK, [Next]_vars, NEW q \in Packets,
         status'[q] \in {"ready", "active"}, status'[q] # status[q]
  PROVE  \/ status'[q] = "active" /\ \E s \in Sessions : startPacket(s, q)
         \/ status'[q] = "ready" /\ \E s \in Sessions : movePacket(s, q, "ready")
<1> USE DEF TypeOK, PacketRowsOK
<1>1. CASE Bystander \/ UNCHANGED vars
  BY <1>1, BystanderKeeps DEF vars
<1>2. ASSUME NEW p \in Packets, NEW d \in Definitions, createPacket(p, d)
      PROVE  FALSE
  BY <1>2 DEF createPacket
<1>3. ASSUME NEW p \in Packets, recordTaskClosure(p)
      PROVE  FALSE
  BY <1>3 DEF recordTaskClosure
<1>4. ASSUME NEW p \in Packets, NEW s \in Sessions, startPacket(s, p)
      PROVE  p = q /\ status'[q] = "active"
  BY <1>4 DEF startPacket
<1>5. ASSUME NEW p \in Packets, NEW s \in Sessions, NEW to \in Status, movePacket(s, p, to)
      PROVE  p = q /\ to = "ready" /\ status'[q] = "ready"
  BY <1>5 DEF movePacket, validateMove, persistMove
<1>6. ASSUME NEW p \in Packets, NEW s \in Sessions, releaseLease(s, p)
      PROVE  FALSE
  BY <1>6 DEF releaseLease
<1>7. ASSUME NEW p \in Packets, NEW s \in Sessions, NEW force \in BOOLEAN,
             takeoverPacket(s, p, force)
      PROVE  FALSE
  BY <1>7 DEF takeoverPacket
<1>8. ASSUME NEW c \in Calls, FinishReview(c)
      PROVE  FALSE
  BY <1>8, FinishEffect
<1> QED BY <1>1, <1>2, <1>3, <1>4, <1>5, <1>6, <1>7, <1>8, StepCases

StandsOnClosedWork(p) ==
  status'[p] = "active" /\ ~dependenciesTerminal(p)' =>
    status[p] = "active" /\ (deps'[p] # deps[p] \/ ~dependenciesTerminal(p))

\* A packet that becomes active does so when all it depends on is closed.
LEMMA StepStandsOnClosedWork == TypeOK /\ [Next]_vars => \A p \in Packets : StandsOnClosedWork(p)
<1> SUFFICES ASSUME TypeOK, [Next]_vars, NEW p \in Packets,
                    status'[p] = "active", ~dependenciesTerminal(p)'
             PROVE  status[p] = "active" /\ (deps'[p] # deps[p] \/ ~dependenciesTerminal(p))
  BY DEF StandsOnClosedWork
<1>1. ASSUME deps'[p] = deps[p], dependenciesTerminal(p)
      PROVE  FALSE
  BY <1>1, TerminalIsFinal DEF dependenciesTerminal, TypeOK, PacketRowsOK
<1>2. ASSUME status[p] # "active"
      PROVE  FALSE
  <2>1. \E s \in Sessions : startPacket(s, p)
    BY <1>2, EntersFlight
  <2>2. deps'[p] = deps[p] /\ dependenciesTerminal(p)
    BY <2>1 DEF startPacket
  <2> QED BY <1>1, <2>2
<1> QED BY <1>1, <1>2

\* Work starts on closed dependencies, and nothing but an import of the packet
\* opens one under it: done and dropped packets stay so.
THEOREM DependencySafety == Spec => ActiveStandsOnClosedWork
<1>1. TypeOK /\ [Next]_vars => [\A p \in Packets : StandsOnClosedWork(p)]_vars
  BY StepStandsOnClosedWork
<1> QED BY <1>1, TypeCorrect, PTL DEF Spec, ActiveStandsOnClosedWork, StandsOnClosedWork

MatchExplained(p, q) ==
  p # q /\ matches(p, q)' =>
    \/ {p, q} \subseteq inFlight /\ matches(p, q)
    \/ p \in inFlight /\ q \notin inFlight
    \/ history'[p] # history[p]
    \/ history'[q] # history[q]

\* Two packets whose definitions stay match after the step only if they did before.
LEMMA MatchingStays ==
  ASSUME NEW p \in Packets, NEW q \in Packets,
         history'[p] = history[p], history'[q] = history[q], matches(p, q)'
  PROVE  matches(p, q)
  BY DEF matches, writeSet, loadWorkDefinition, version

\* A packet that comes into flight comes from outside it to ready, and no other comes
\* with it.
LEMMA ComesIntoFlight ==
  ASSUME TypeOK, [Next]_vars, NEW r \in inFlight', r \notin inFlight
  PROVE  /\ \E s \in Sessions : movePacket(s, r, "ready")
         /\ \A o \in inFlight' : o # r => o \in inFlight
<1>1. r \in Packets /\ status[r] \notin {"ready", "active"} /\ status'[r] \in {"ready", "active"}
  BY DEF inFlight
<1>2. PICK s \in Sessions : movePacket(s, r, "ready")
  BY <1>1, EntersFlight DEF startPacket
<1>3. \A o \in Packets \ {r} : status'[o] = status[o]
  BY <1>1, <1>2 DEF movePacket, persistMove, TypeOK, PacketRowsOK
<1> QED BY <1>2, <1>3 DEF inFlight

\* The globs of packets in flight come to match only as MatchesOnlyLaterWork says.
LEMMA StepMatchExplained ==
  ASSUME TypeOK, [Next]_vars
  PROVE  \A p, q \in inFlight' : MatchExplained(p, q)
<1> SUFFICES ASSUME NEW p \in inFlight', NEW q \in inFlight', p # q, matches(p, q)',
                    history'[p] = history[p], history'[q] = history[q]
             PROVE  \/ {p, q} \subseteq inFlight /\ matches(p, q)
                    \/ p \in inFlight /\ q \notin inFlight
  BY DEF MatchExplained
<1>1. p \in Packets /\ q \in Packets /\ matches(p, q)
  BY MatchingStays DEF inFlight
<1>2. ASSUME p \notin inFlight
      PROVE  FALSE
  <2>1. PICK s \in Sessions : movePacket(s, p, "ready")
    BY <1>2, ComesIntoFlight
  <2>2. q \in inFlight
    BY <1>2, ComesIntoFlight
  <2>3. ~writeSetConflict(p)
    BY <2>1 DEF movePacket, validateMove
  <2> QED BY <1>1, <2>2, <2>3 DEF writeSetConflict, inFlight
<1> QED BY <1>1, <1>2

\* Whatever overlaps() answers for two globs: the globs of a packet in flight come to
\* match those of another only by a redefinition or because the other came later
\* (checkWriteSetConflict, with the mover's globs on the left).
THEOREM WriteSetSafety == Spec => MatchesOnlyLaterWork
<1>1. TypeOK /\ [Next]_vars => [\A p, q \in inFlight' : MatchExplained(p, q)]_vars
  BY StepMatchExplained
<1> QED BY <1>1, TypeCorrect, PTL DEF Spec, MatchesOnlyLaterWork, MatchExplained

----------------------------------------------------------------------------
(* The complexity checkpoint.                                              *)

HistoryGrows(p) ==
  /\ Len(history'[p]) >= Len(history[p])
  /\ \A v \in 1..Len(history[p]) : history'[p][v] = history[p][v]

\* No step rewrites a recorded definition: histories grow at their end.
LEMMA StepHistoryGrows ==
  ASSUME TypeOK, [Next]_vars
  PROVE  \A q \in Packets : HistoryGrows(q)
<1>1. ASSUME NEW p \in Packets, NEW d \in Definitions, recordWorkDefinition(p, d), NEW q \in Packets
      PROVE  HistoryGrows(q)
  <2>1. CASE q = p
    BY <1>1, <2>1, RecordExtends DEF HistoryGrows, TypeOK
  <2>2. CASE q # p
    <3>0. PacketRowsOK /\ q \in Packets \ {p}
      BY <2>2 DEF TypeOK
    <3>1. history'[q] = history[q]
      BY <1>1, <3>0, RecordExtends
    <3>4. Len(history[q]) \in Nat
      BY <3>0, VersionInRange DEF version
    <3>2. Len(history'[q]) >= Len(history[q])
      BY <3>1, <3>4
    <3>3. \A v \in 1..Len(history[q]) : history'[q][v] = history[q][v]
      BY <3>1
    <3> QED BY <3>2, <3>3 DEF HistoryGrows
  <2> QED BY <2>1, <2>2
<1>2. ASSUME UNCHANGED history, NEW q \in Packets
      PROVE  HistoryGrows(q)
  <2>1. Len(history[q]) \in Nat
    BY DEF TypeOK, PacketRowsOK
  <2> QED BY <1>2, <2>1 DEF HistoryGrows
<1>3. UNCHANGED history \/ \E p \in Packets, d \in Definitions : recordWorkDefinition(p, d)
  BY FilesAssumption
     DEF Next, Redefine, Work, Start, Environment, vars, createPacket, upsertPacketFile,
         amendDefinition, amendWriteSet, startPacket, movePacket, BeginReview, FinishReview,
         AbortReview, releaseLease, takeoverPacket, heartbeat, expire, ask, answer,
         recordTaskClosure
<1> QED BY <1>1, <1>2, <1>3

\* An answered decision never changes again.
LEMMA StepAnswersStay ==
  ASSUME TypeOK, [Next]_vars, NEW d \in Decisions, decision[d].asked, decision[d].version # Unanswered
  PROVE  decision'[d] = decision[d]
<1>1. ASSUME NEW e \in Decisions, NEW p \in Packets, ask(e, p)
      PROVE  decision'[d] = decision[d]
  BY <1>1 DEF ask, TypeOK, NotAsked
<1>2. ASSUME NEW e \in Decisions, answer(e)
      PROVE  decision'[d] = decision[d]
  BY <1>2 DEF answer, TypeOK
<1>3. \/ UNCHANGED decision
      \/ \E e \in Decisions, p \in Packets : ask(e, p)
      \/ \E e \in Decisions : answer(e)
  BY DEF Next, Redefine, Work, Start, Environment, vars, createPacket, upsertPacketFile,
         amendDefinition, amendWriteSet, startPacket, movePacket, BeginReview, FinishReview,
         AbortReview, releaseLease, takeoverPacket, heartbeat, expire, recordTaskClosure
<1> QED BY <1>1, <1>2, <1>3

\* Version v of p needed no decision, or has one answered against it.
Cleared(p, v) ==
  /\ v \in 1..version(p)
  /\ requiresDecision(p, history[p][v].writeSet) =>
       \E d \in linkedDecisions(p) : decision[d].version = v

\* A version whose checkpoint was cleared stays cleared.
LEMMA ClearedStays ==
  ASSUME TypeOK, [Next]_vars, NEW p \in Packets, NEW v \in 1..MaxVersion, Cleared(p, v)
  PROVE  Cleared(p, v)'
<1>1. \A q \in Packets : HistoryGrows(q)
  BY StepHistoryGrows
<1>2. \A q \in Packets : Len(history[q]) \in Nat /\ Len(history'[q]) \in Nat
  BY NextTypeOK DEF TypeOK, PacketRowsOK
<1>3. v \in 1..version(p)' /\ history'[p][v] = history[p][v]
  BY <1>1, <1>2 DEF Cleared, HistoryGrows, version
<1>4. ASSUME NEW ws, isNovel(p, ws)'
      PROVE  isNovel(p, ws)
  <2>1. PICK g \in ws : \A q \in Packets \ {p} : \A u \in 1..Len(history'[q]) :
                         g \notin history'[q][u].writeSet
    BY <1>4 DEF isNovel, version
  <2>2. ASSUME NEW q \in Packets \ {p}, NEW u \in 1..Len(history[q])
        PROVE  g \notin history[q][u].writeSet
    <3>1. u \in 1..Len(history'[q]) /\ history'[q][u] = history[q][u]
      BY <1>1, <1>2 DEF HistoryGrows
    <3> QED BY <2>1, <3>1
  <2> QED BY <2>2 DEF isNovel, version
<1>5. ASSUME requiresDecision(p, history[p][v].writeSet)'
      PROVE  \E d \in linkedDecisions(p)' : decision'[d].version = v
  <2>1. requiresDecision(p, history[p][v].writeSet)
    BY <1>3, <1>4, <1>5 DEF requiresDecision
  <2>2. PICK d \in linkedDecisions(p) : decision[d].version = v
    BY <2>1 DEF Cleared
  <2>3. decision'[d] = decision[d]
    BY <2>2, StepAnswersStay DEF linkedDecisions, Unanswered
  <2> QED BY <2>2, <2>3 DEF linkedDecisions
<1> QED BY <1>3, <1>5 DEF Cleared

\* The invariant behind CandidateWasCleared: the version a review move has read
\* is cleared while the move awaits, not only when it began.
ReviewsCleared ==
  /\ \A c \in Calls : call[c] # NoCall => Cleared(call[c].packet, call[c].version)
  /\ \A p \in Packets : \A k \in candidates[p] : Cleared(p, k.version)

\* A review begins only on a version whose checkpoint is cleared.
LEMMA BeginsCleared ==
  ASSUME TypeOK, NEW p \in Packets, NEW s \in Sessions, validateMove(s, p, "review")
  PROVE  Cleared(p, version(p))
<1>1. checkpointClear(p) /\ exists(p)
  BY DEF validateMove, ALLOWED, exists
<1>2. version(p) \in 1..version(p)
  <2>1. version(p) \in 1..MaxVersion
    BY <1>1, VersionInRange DEF TypeOK
  <2>2. \A n \in 1..MaxVersion : n \in 1..n
    BY MaxVersionAssumption
  <2> QED BY <2>1, <2>2
<1> QED BY <1>1, <1>2 DEF Cleared, checkpointClear, writeSet, loadWorkDefinition

\* Every step keeps the versions under review cleared.
LEMMA ReviewsClearedStep == TypeOK /\ ReviewsCleared /\ [Next]_vars => ReviewsCleared'
<1> SUFFICES ASSUME TypeOK, ReviewsCleared, [Next]_vars PROVE ReviewsCleared'
  OBVIOUS
<1>1. ASSUME NEW c \in Calls, call'[c] = call[c], call[c] # NoCall
      PROVE  Cleared(call[c].packet, call[c].version)'
  <2>1. call[c] \in ReviewCall
    BY <1>1 DEF TypeOK
  <2>2. call[c].packet \in Packets /\ call[c].version \in 1..MaxVersion
    BY <2>1 DEF ReviewCall
  <2>3. Cleared(call[c].packet, call[c].version)
    BY <1>1 DEF ReviewsCleared
  <2>4. ASSUME NEW p \in Packets, NEW v \in 1..MaxVersion, Cleared(p, v)
        PROVE  Cleared(p, v)'
    BY <2>4, ClearedStays
  <2>5. Cleared(call[c].packet, call[c].version)'
    BY <1>1, <2>2, <2>3, <2>4
  <2> QED BY <2>5
<1>2. ASSUME NEW p \in Packets, NEW k \in candidates[p]
      PROVE  Cleared(p, k.version)'
  <2>1. k.version \in 1..MaxVersion
    BY DEF TypeOK, Candidate
  <2>2. Cleared(p, k.version)
    BY DEF ReviewsCleared
  <2> QED BY <2>1, <2>2, ClearedStays
<1>3. ASSUME NEW c \in Calls
      PROVE  (call[c] # NoCall => Cleared(call[c].packet, call[c].version))'
  <2>1. CASE call'[c] = call[c]
    BY <1>1, <2>1
  <2>2. ASSUME NEW s \in Sessions, NEW p \in Packets, BeginReview(c, s, p)
        PROVE  Cleared(call[c].packet, call[c].version)'
    <3>1. /\ call'[c].packet = p /\ call'[c].version = version(p)
          /\ validateMove(s, p, "review")
      BY <2>2 DEF BeginReview, TypeOK
    <3>2. Cleared(p, version(p)) /\ version(p) \in 1..MaxVersion
      BY <3>1, BeginsCleared, VersionInRange DEF validateMove, ALLOWED, exists, TypeOK
    <3>3. ASSUME NEW v \in 1..MaxVersion, Cleared(p, v)
          PROVE  Cleared(p, v)'
      BY <3>3, ClearedStays
    <3>4. PICK v \in 1..MaxVersion : v = version(p)
      BY <3>2
    <3>5. Cleared(p, v)'
      BY <3>2, <3>3, <3>4
    <3> QED BY <3>1, <3>4, <3>5
  <2>3. \/ call'[c] = call[c]
        \/ call'[c] = NoCall
        \/ \E s \in Sessions, p \in Packets : BeginReview(c, s, p)
    <3>1. \/ UNCHANGED call
          \/ \E s \in Sessions, p \in Packets, b \in Calls : BeginReview(b, s, p)
          \/ \E b \in Calls : FinishReview(b) \/ AbortReview(b)
      BY DEF Next, Redefine, Work, Start, Environment, vars, createPacket, upsertPacketFile,
             amendDefinition, amendWriteSet, startPacket, movePacket, releaseLease,
             takeoverPacket, heartbeat, expire, ask, answer, recordTaskClosure
    <3> QED BY <3>1 DEF BeginReview, FinishReview, AbortReview, TypeOK
  <2> QED BY <2>1, <2>2, <2>3
<1>4. ASSUME NEW p \in Packets, NEW k \in candidates'[p]
      PROVE  Cleared(p, k.version)'
  <2>1. CASE k \in candidates[p]
    BY <1>2, <2>1
  <2>2. CASE k \notin candidates[p]
    <3>1. PICK c \in Calls : FinishReview(c)
      BY <2>2
         DEF Next, Redefine, Work, Start, Environment, vars, createPacket, upsertPacketFile,
             amendDefinition, amendWriteSet, startPacket, movePacket, BeginReview, AbortReview,
             releaseLease, takeoverPacket, heartbeat, expire, ask, answer, recordTaskClosure
    <3>2. call[c] # NoCall /\ call[c] \in ReviewCall
      BY <3>1 DEF FinishReview, TypeOK
    <3>3. call[c].packet \in Packets /\ call[c].version \in 1..MaxVersion
      BY <3>2 DEF ReviewCall
    <3>4. p = call[c].packet /\ k.version = call[c].version
      BY <2>2, <3>1, <3>3 DEF FinishReview, persistReviewCandidate, TypeOK
    <3>5. Cleared(p, k.version)
      BY <3>2, <3>4 DEF ReviewsCleared
    <3> QED BY <3>3, <3>4, <3>5, ClearedStays
  <2> QED BY <2>1, <2>2
<1> QED BY <1>3, <1>4 DEF ReviewsCleared

\* No version reaches a reviewer that the complexity checkpoint has not cleared,
\* although the definition may be amended while the review move awaits.
THEOREM CheckpointSafety == Spec => []CandidateWasCleared
<1>1. Init => ReviewsCleared
  BY DEF Init, ReviewsCleared
<1>2. ReviewsCleared => CandidateWasCleared
  BY DEF ReviewsCleared, CandidateWasCleared, Cleared
<1> QED BY <1>1, <1>2, ReviewsClearedStep, TypeCorrect, PTL DEF Spec

-----------------------------------------------------------------------------
(***************************************************************************)
(* The sprints.                                                            *)
(***************************************************************************)
----------------------------------------------------------------------------
(* The inductive invariant.                                                *)

\* A sprint has packets only once it exists, and finitely many of them.
BoardTypeOK ==
  /\ sprint \in [Sprints -> [state : {"unopened", "open", "closed"}, wip : Nat]]
  /\ tasks \in [Sprints -> SUBSET Packets]
  /\ \A b \in Sprints : IsFiniteSet(tasks[b])
  /\ \A b \in Sprints : sprint[b].state = "unopened" => sprint[b] = Unopened /\ tasks[b] = {}

BoardInv == TypeOK /\ BoardTypeOK /\ ClosedSprintHasNoOpenWork

----------------------------------------------------------------------------
(* The board and the packets.                                              *)

\* A step of the board leaves the packets alone, any other is a step of theirs.
LEMMA BoardStepsAreTaskSteps == [BoardNext]_allVars => [Next]_vars
  BY DEF BoardNext, allVars, StartInSprint, Next, Start

\* What one of the board's own steps writes.
LEMMA BoardStepEffect ==
  ASSUME BoardTypeOK, NEW b \in Sprints, NEW c \in Sprints,
         \/ \E wip \in WipLimits : createSprint(b, wip)
         \/ \E p \in Packets : addTaskToSprint(b, p) \/ removeTaskFromSprint(b, p)
         \/ closeSprint(b)
  PROVE  /\ sprint' \in [Sprints -> [state : {"unopened", "open", "closed"}, wip : Nat]]
         /\ tasks' \in [Sprints -> SUBSET Packets]
         /\ \/ UNCHANGED <<sprint[c], tasks[c]>>
            \/ /\ sprint[c] = Unopened /\ sprint'[c].state = "open" /\ tasks'[c] = tasks[c]
            \/ /\ sprint[c].state = "open" /\ sprint'[c] = sprint[c]
               /\ \E p \in Packets : tasks'[c] = tasks[c] \cup {p}
            \/ /\ sprint'[c] = sprint[c] /\ tasks'[c] \subseteq tasks[c]
               /\ tasks'[c] # tasks[c]
            \/ /\ sprint[c].state = "open" /\ sprint'[c].state = "closed" /\ tasks'[c] = tasks[c]
               /\ \A p \in tasks[c] : status[p] \in Terminal
<1>1. CASE \E wip \in WipLimits : createSprint(b, wip)
  <2>1. PICK wip \in Nat : createSprint(b, wip)
    BY <1>1, WipLimitsAssumption
  <2> QED BY <2>1 DEF createSprint, BoardTypeOK
<1>2. ASSUME NEW p \in Packets, addTaskToSprint(b, p)
      PROVE  /\ sprint' = sprint /\ tasks' \in [Sprints -> SUBSET Packets]
             /\ \/ UNCHANGED <<sprint[c], tasks[c]>>
                \/ sprint[c].state = "open" /\ tasks'[c] = tasks[c] \cup {p}
  BY <1>2 DEF addTaskToSprint, BoardTypeOK
<1>3. ASSUME NEW p \in Packets, removeTaskFromSprint(b, p)
      PROVE  /\ sprint' = sprint /\ tasks' \in [Sprints -> SUBSET Packets]
             /\ \/ UNCHANGED <<sprint[c], tasks[c]>>
                \/ tasks'[c] \subseteq tasks[c] /\ tasks'[c] # tasks[c]
  BY <1>3 DEF removeTaskFromSprint, BoardTypeOK
<1>4. CASE closeSprint(b)
  BY <1>4 DEF closeSprint, BoardTypeOK
<1> QED BY <1>1, <1>2, <1>3, <1>4 DEF BoardTypeOK

\* The initial board is empty.
LEMMA BoardInitOK == BoardInit => BoardInv
<1> SUFFICES ASSUME BoardInit PROVE BoardInv
  OBVIOUS
<1>1. TypeOK
  BY InitTypeOK DEF BoardInit
<1>2. BoardTypeOK /\ ClosedSprintHasNoOpenWork
  BY FS_EmptySet DEF BoardInit, BoardTypeOK, ClosedSprintHasNoOpenWork, Unopened, NoLimit
<1> QED BY <1>1, <1>2 DEF BoardInv

\* Every board step keeps the board's invariant: one case for each board action, and one for the
\* lifecycle's.
LEMMA BoardInvStep == BoardInv /\ [BoardNext]_allVars => BoardInv'
<1> SUFFICES ASSUME BoardInv, [BoardNext]_allVars PROVE BoardInv'
  OBVIOUS
<1>1. TypeOK /\ BoardTypeOK /\ ClosedSprintHasNoOpenWork
  BY DEF BoardInv
<1>2. TypeOK' /\ \A p \in Packets : status[p] \in Terminal => status'[p] = status[p]
  BY <1>1, BoardStepsAreTaskSteps, NextTypeOK, TerminalIsFinal
<1>3. CASE BoardStep
  <2>1. PICK b \in Sprints :
          \/ \E wip \in WipLimits : createSprint(b, wip)
          \/ \E p \in Packets : addTaskToSprint(b, p) \/ removeTaskFromSprint(b, p)
          \/ closeSprint(b)
    BY <1>3 DEF BoardStep
  <2>2. /\ sprint' \in [Sprints -> [state : {"unopened", "open", "closed"}, wip : Nat]]
        /\ tasks' \in [Sprints -> SUBSET Packets]
    BY <1>1, <2>1, BoardStepEffect
  <2>3. ASSUME NEW c \in Sprints
        PROVE  /\ IsFiniteSet(tasks'[c])
               /\ sprint'[c].state = "unopened" => sprint'[c] = Unopened /\ tasks'[c] = {}
               /\ sprint'[c].state = "closed" => \A p \in tasks'[c] : status'[p] \in Terminal
    <3>1. \/ UNCHANGED <<sprint[c], tasks[c]>>
          \/ /\ sprint[c] = Unopened /\ sprint'[c].state = "open" /\ tasks'[c] = tasks[c]
          \/ /\ sprint[c].state = "open" /\ sprint'[c] = sprint[c]
             /\ \E p \in Packets : tasks'[c] = tasks[c] \cup {p}
          \/ /\ sprint'[c] = sprint[c] /\ tasks'[c] \subseteq tasks[c]
             /\ tasks'[c] # tasks[c]
          \/ /\ sprint[c].state = "open" /\ sprint'[c].state = "closed" /\ tasks'[c] = tasks[c]
             /\ \A p \in tasks[c] : status[p] \in Terminal
      BY <1>1, <2>1, BoardStepEffect
    <3>2. IsFiniteSet(tasks[c])
      BY <1>1 DEF BoardTypeOK
    <3>3. IsFiniteSet(tasks'[c])
      BY <3>1, <3>2, FS_AddElement, FS_Subset
    <3>4. tasks[c] \subseteq Packets
      BY <1>1 DEF BoardTypeOK
    <3> QED BY <1>1, <1>2, <3>1, <3>3, <3>4 DEF BoardTypeOK, ClosedSprintHasNoOpenWork
  <2> QED BY <1>2, <2>2, <2>3 DEF BoardInv, BoardTypeOK, ClosedSprintHasNoOpenWork
<1>4. CASE UNCHANGED boardVars
  <2>1. UNCHANGED <<sprint, tasks>>
    BY <1>4 DEF boardVars
  <2> QED BY <1>1, <1>2, <2>1 DEF BoardInv, BoardTypeOK, ClosedSprintHasNoOpenWork
<1> QED BY <1>3, <1>4 DEF BoardNext, allVars

----------------------------------------------------------------------------
(* The WIP limit.                                                          *)

WithinBoard(b) == overLimit(b)' =>
  \/ overLimit(b)
  \/ tasks'[b] # tasks[b]
  \/ \E p \in tasks[b] :
       status[p] # "active" /\ status'[p] = "active" /\ openSprintsOf(p) # {b}

\* A start adds one active packet to its sprints, and no other step adds any.
LEMMA OnlyStartsActivate ==
  ASSUME BoardInv, [BoardNext]_allVars, ~StartInSprint, NEW p \in Packets, status'[p] = "active"
  PROVE  status[p] = "active"
<1> SUFFICES ASSUME status[p] # "active" PROVE FALSE
  OBVIOUS
<1>1. TypeOK /\ [Next]_vars
  BY BoardStepsAreTaskSteps DEF BoardInv
<1>2. status[p] = "ready" /\ holder[p] = NoSession /\ holder'[p] # NoSession
  BY <1>1, StepsAreLegal DEF LegalStep
<1>3. ~ \E s \in Sessions, q \in Packets : startPacket(s, q) /\ withinWipLimit(q)
  BY DEF StartInSprint
<1>4. UNCHANGED vars \/ Redefine \/ Work \/ Environment
  BY <1>3 DEF BoardNext, allVars
<1>5. status \in [Packets -> Status]
  BY <1>1 DEF TypeOK, PacketRowsOK
<1>6. CASE UNCHANGED vars
  BY <1>2, <1>6 DEF vars
<1>7. CASE Redefine
  <2>1. holder' = holder
    BY <1>7 DEF Redefine, createPacket, amendDefinition, amendWriteSet, upsertPacketFile
  <2> QED BY <1>2, <2>1
<1>8. CASE Work
  <2>1. PICK s \in Sessions, q \in Packets :
          \/ \E to \in Status : movePacket(s, q, to)
          \/ \E c \in Calls : BeginReview(c, s, q)
          \/ releaseLease(s, q)
          \/ \E force \in BOOLEAN : takeoverPacket(s, q, force)
    BY <1>8 DEF Work
  <2>2. CASE \E to \in Status : movePacket(s, q, to)
    BY <1>2, <1>5, <2>2 DEF movePacket, validateMove, persistMove
  <2>3. CASE \E c \in Calls : BeginReview(c, s, q)
    BY <1>2, <2>3 DEF BeginReview
  <2>4. CASE releaseLease(s, q)
    BY <1>2, <2>4 DEF releaseLease
  <2>5. CASE \E force \in BOOLEAN : takeoverPacket(s, q, force)
    BY <1>2, <2>5 DEF takeoverPacket
  <2> QED BY <2>1, <2>2, <2>3, <2>4, <2>5
<1>9. CASE Environment
  BY <1>1, <1>2, <1>5, <1>9, FinishEffect DEF Environment, AbortReview, heartbeat, expire,
     recordTaskClosure, answer, ask
<1> QED BY <1>4, <1>6, <1>7, <1>8, <1>9

\* A step that puts a board over its limit changes that board's tasks: an active task that is new to
\* the flight was started under the limit.
LEMMA StepWithinBoard ==
  ASSUME BoardInv, [BoardNext]_allVars, NEW b \in Sprints
  PROVE  WithinBoard(b)
<1> SUFFICES ASSUME overLimit(b)', ~overLimit(b), tasks'[b] = tasks[b],
                    \A p \in tasks[b] : status[p] # "active" /\ status'[p] = "active"
                                          => openSprintsOf(p) = {b}
             PROVE  FALSE
  BY DEF WithinBoard
<1>1. TypeOK /\ BoardTypeOK /\ BoardTypeOK' /\ tasks[b] \subseteq Packets
  BY BoardInvStep DEF BoardInv, BoardTypeOK
<1> DEFINE A == {p \in tasks[b] : status[p] = "active"}
           B == {p \in tasks[b] : status'[p] = "active"}
<1>2. /\ IsFiniteSet(A) /\ Cardinality(A) = activeCount(b) /\ activeCount(b) \in Nat
      /\ IsFiniteSet(B) /\ Cardinality(B) = activeCount(b)' /\ activeCount(b)' \in Nat
  <2>1. IsFiniteSet(tasks[b]) /\ A \in SUBSET tasks[b] /\ B \in SUBSET tasks[b]
    BY <1>1 DEF BoardTypeOK
  <2>2. Cardinality(A) = activeCount(b) /\ Cardinality(B) = activeCount(b)'
    BY DEF activeCount
  <2>3. IsFiniteSet(A) /\ IsFiniteSet(B)
    <3> HIDE DEF A, B
    <3> QED BY <2>1, FS_Subset
  <2>4. Cardinality(A) \in Nat /\ Cardinality(B) \in Nat
    <3> HIDE DEF A, B
    <3> QED BY <2>3, FS_CardinalityType
  <2> QED BY <2>2, <2>3, <2>4
<1>3. /\ sprint'[b].state = "open" /\ sprint'[b].wip # NoLimit
      /\ sprint'[b].wip \in Nat /\ activeCount(b)' > sprint'[b].wip
  BY <1>1 DEF overLimit, BoardTypeOK
<1>4. sprint[b].state # "unopened"
  <2> SUFFICES ASSUME sprint[b].state = "unopened" PROVE FALSE
    OBVIOUS
  <2>1. B = {}
    BY <1>1 DEF BoardTypeOK
  <2> HIDE DEF B
  <2> QED BY <1>2, <1>3, <2>1, FS_EmptySet
<1>5. sprint'[b] = sprint[b]
  <2>1. CASE BoardStep
    <3>1. PICK c \in Sprints :
            \/ \E wip \in WipLimits : createSprint(c, wip)
            \/ \E p \in Packets : addTaskToSprint(c, p) \/ removeTaskFromSprint(c, p)
            \/ closeSprint(c)
      BY <2>1 DEF BoardStep
    <3> QED BY <1>1, <1>3, <1>4, <3>1, BoardStepEffect DEF Unopened
  <2>2. CASE UNCHANGED boardVars
    BY <2>2 DEF boardVars
  <2> QED BY <2>1, <2>2 DEF BoardNext, allVars
<1>6. sprint[b].state = "open" /\ sprint[b].wip # NoLimit /\ activeCount(b) <= sprint[b].wip
  BY <1>2, <1>3, <1>5 DEF overLimit
<1>7. CASE B \subseteq A
  <2> HIDE DEF A, B
  <2>1. Cardinality(B) <= Cardinality(A)
    BY <1>2, <1>7, FS_Subset
  <2> QED BY <1>2, <1>3, <1>5, <1>6, <2>1
<1>8. CASE ~(B \subseteq A)
  <2>1. StartInSprint
    BY <1>1, <1>8, OnlyStartsActivate
  <2>2. PICK s \in Sessions, p \in Packets : withinWipLimit(p) /\ startPacket(s, p)
    BY <2>1 DEF StartInSprint
  <2>3. B \subseteq A \cup {p} /\ p \in tasks[b] /\ status[p] # "active" /\ status'[p] = "active"
    BY <1>1, <1>8, <2>2 DEF startPacket, TypeOK, PacketRowsOK
  <2>4. openSprintsOf(p) = {b}
    BY <2>3
  <2>5. activeCount(b) < sprint[b].wip
    BY <1>6, <2>2, <2>4 DEF withinWipLimit
  <2>6. Cardinality(B) <= Cardinality(A) + 1
    <3> HIDE DEF A, B
    <3>1. IsFiniteSet(A \cup {p}) /\ Cardinality(A \cup {p}) <= Cardinality(A) + 1
      <4>1. IsFiniteSet(A) /\ Cardinality(A) \in Nat
        BY <1>2
      <4>2. /\ IsFiniteSet(A \cup {p})
            /\ Cardinality(A \cup {p}) = IF p \in A THEN Cardinality(A) ELSE Cardinality(A) + 1
        BY <4>1, FS_AddElement
      <4> QED BY <4>1, <4>2
    <3>2. Cardinality(B) <= Cardinality(A \cup {p}) /\ Cardinality(A \cup {p}) \in Nat
      BY <2>3, <3>1, FS_Subset, FS_CardinalityType
    <3> QED BY <1>2, <3>1, <3>2
  <2> QED BY <1>2, <1>3, <1>5, <2>5, <2>6
<1> QED BY <1>7, <1>8

----------------------------------------------------------------------------
(* The theorems.                                                           *)

\* The packets of the board live the life TaskLifecycle gives them, so all that is
\* proved of it holds of them: sprints only refuse starts.
THEOREM BoardKeepsTheLifecycle == BoardSpec => Spec
<1>1. BoardInit => Init
  BY DEF BoardInit
<1> QED BY <1>1, BoardStepsAreTaskSteps, PTL DEF BoardSpec, Spec

\* The invariant holds of every behaviour of the board.
THEOREM BoardInvariant == BoardSpec => []BoardInv
  BY BoardInitOK, BoardInvStep, PTL DEF BoardSpec

\* Every packet of a closed sprint is, and stays, done or dropped (closeSprint reads
\* the statuses once; nothing reopens a closed packet or adds one to a closed sprint).
THEOREM ClosedSprintSafety == BoardSpec => []ClosedSprintHasNoOpenWork
<1>1. BoardInv => ClosedSprintHasNoOpenWork
  BY DEF BoardInv
<1> QED BY <1>1, BoardInvariant, PTL

\* A sprint comes to exceed its limit only when work is added to it or when the
\* packet that starts is in another open sprint too (withinWipLimit of task start).
THEOREM WipLimitSafety == BoardSpec => OverLimitOnlyByMembership
<1>1. BoardInv /\ [BoardNext]_allVars =>
        [\A b \in Sprints : overLimit(b)' =>
           \/ overLimit(b)
           \/ tasks'[b] # tasks[b]
           \/ \E p \in tasks[b] :
                status[p] # "active" /\ status'[p] = "active" /\ openSprintsOf(p) # {b}]_allVars
  BY StepWithinBoard DEF WithinBoard
<1> QED BY <1>1, BoardInvariant, PTL DEF BoardSpec, OverLimitOnlyByMembership

----------------------------------------------------------------------------
(* The conflict check on globs.                                            *)

\* The globs up to the bound on their depth.
GlobsInDepth == {g \in Seq(Segments) : Len(g) \in 1..MaxDepth}

\* A prefix agrees with the sequence at each of its positions.
LEMMA PrefixElements ==
  ASSUME NEW S, NEW s \in Seq(S), NEW t \in Seq(S)
  PROVE  IsPrefix(s, t) <=> Len(s) <= Len(t) /\ \A i \in 1..Len(s) : s[i] = t[i]
  BY DEF IsPrefix

\* The kinds of segments are apart, and a file name is a segment.
LEMMA SegmentKinds ==
  /\ FileNames \cap Wildcards = {} /\ FileNames \subseteq Segments
  /\ "t*" \notin FileNames /\ "t*" \notin Wildcards
  BY LiveSegmentsAssumption DEF FileNames, Names, Wildcards, Segments

\* What a spelled glob keeps of its text when the wildcard at its end is removed: at
\* least one segment, and file names only, each where it was.
LEMMA SpelledPrefix ==
  ASSUME NEW g \in GlobsInDepth, isSpelled(g)
  PROVE  LET p == withoutWildcardSuffix(g) IN
         /\ p \in Seq(FileNames) /\ p \in GlobsInDepth
         /\ Len(p) <= Len(g)
         /\ \A i \in 1..Len(p) : p[i] = g[i]
         /\ g[Len(g)] \notin Wildcards => p = g
         /\ g[Len(g)] \in Wildcards => Len(p) = Len(g) - 1
<1>0. /\ g \in Seq(Segments) /\ Len(g) \in 1..MaxDepth /\ Len(g) \in Nat /\ MaxDepth \in Nat
      /\ FileNames \cap Wildcards = {} /\ FileNames \subseteq Segments
  BY MaxDepthAssumption, SegmentKinds DEF GlobsInDepth
<1> HIDE DEF FileNames, Wildcards, Segments
<1>1. CASE g[Len(g)] \in Wildcards
  <2>1. Len(g) > 1
    BY <1>0, <1>1 DEF isSpelled
  <2>2. withoutWildcardSuffix(g) = SubSeq(g, 1, Len(g) - 1)
    BY <1>1, <2>1 DEF withoutWildcardSuffix, Last, Front
  <2> DEFINE p == SubSeq(g, 1, Len(g) - 1)
  <2>3. /\ Len(p) = Len(g) - 1 /\ p \in Seq(Segments)
        /\ \A i \in 1..Len(p) : p[i] = g[i]
    BY <1>0, <2>1
  <2>4. \A i \in 1..Len(p) : p[i] \in FileNames
    BY <1>0, <2>3 DEF isSpelled
  <2> HIDE DEF p
  <2>5. p \in Seq(FileNames) /\ Len(p) \in 1..MaxDepth
    BY <1>0, <2>1, <2>3, <2>4
  <2> QED BY <1>0, <1>1, <2>2, <2>3, <2>5 DEF p, GlobsInDepth
<1>2. CASE g[Len(g)] \notin Wildcards
  <2>1. withoutWildcardSuffix(g) = g
    BY <1>2 DEF withoutWildcardSuffix, Last
  <2>2. \A i \in 1..Len(g) : g[i] \in FileNames
    BY <1>0, <1>2 DEF isSpelled
  <2>3. g \in Seq(FileNames)
    BY <1>0, <2>2
  <2> QED BY <1>2, <2>1, <2>3
<1> QED BY <1>1, <1>2

\* The paths are the spelled globs without a wildcard.
LEMMA PathIsGlob ==
  /\ Paths = {f \in Seq(FileNames) : Len(f) \in 1..MaxDepth}
  /\ \A f \in Paths : f \in GlobsInDepth /\ isSpelled(f) /\ withoutWildcardSuffix(f) = f
<1>0. MaxDepth \in Nat /\ FileNames \cap Wildcards = {} /\ FileNames \subseteq Segments
  BY MaxDepthAssumption, SegmentKinds
<1> HIDE DEF FileNames, Wildcards, Segments
<1>1. Paths = {f \in Seq(FileNames) : Len(f) \in 1..MaxDepth}
  <2>1. ASSUME NEW f \in Paths PROVE f \in Seq(FileNames) /\ Len(f) \in 1..MaxDepth
    <3>1. PICK n \in 1..MaxDepth : f \in [1..n -> FileNames]
      BY DEF Paths
    <3>2. f \in Seq(FileNames) /\ Len(f) = n
      BY <1>0, <3>1
    <3> QED BY <3>2
  <2>2. ASSUME NEW f \in Seq(FileNames), Len(f) \in 1..MaxDepth PROVE f \in Paths
    <3>1. f \in [1..Len(f) -> FileNames]
      OBVIOUS
    <3> QED BY <2>2, <3>1 DEF Paths
  <2> QED BY <2>1, <2>2
<1>2. ASSUME NEW f \in Paths PROVE f \in GlobsInDepth /\ isSpelled(f) /\ withoutWildcardSuffix(f) = f
  <2>1. f \in Seq(FileNames) /\ Len(f) \in 1..MaxDepth
    BY <1>1
  <2>2. f \in Seq(Segments)
    BY <1>0, <2>1
  <2>3. f \in GlobsInDepth /\ isSpelled(f)
    BY <2>1, <2>2 DEF GlobsInDepth, isSpelled
  <2>4. f[Len(f)] \notin Wildcards
    BY <1>0, <2>1
  <2> QED BY <2>3, <2>4, SpelledPrefix
<1> QED BY <1>1, <1>2

\* If a plain glob matches a spelled one segment by segment, its prefix is a prefix of
\* the other's, so that the expression decides nothing the prefixes did not.
LEMMA MatchIsPrefix ==
  ASSUME NEW l \in GlobsInDepth, NEW r \in GlobsInDepth, isPlain(l), isSpelled(r), patternMatches(l, r)
  PROVE  IsPrefix(withoutWildcardSuffix(l), withoutWildcardSuffix(r))
<1> DEFINE lp == withoutWildcardSuffix(l)
           rp == withoutWildcardSuffix(r)
<1>0. FileNames \cap Wildcards = {} /\ "t*" \notin FileNames /\ "t*" \notin Wildcards
  BY SegmentKinds
<1>1. /\ lp \in Seq(FileNames) /\ Len(lp) <= Len(l) /\ \A i \in 1..Len(lp) : lp[i] = l[i]
      /\ l[Len(l)] \notin Wildcards => lp = l
      /\ l[Len(l)] \in Wildcards => Len(lp) = Len(l) - 1
  BY SpelledPrefix DEF isPlain
<1>2. /\ rp \in Seq(FileNames) /\ Len(rp) <= Len(r) /\ \A i \in 1..Len(rp) : rp[i] = r[i]
      /\ r[Len(r)] \notin Wildcards => rp = r
      /\ r[Len(r)] \in Wildcards => Len(rp) = Len(r) - 1
  BY SpelledPrefix
<1> HIDE DEF lp, rp, FileNames, Wildcards
<1>3. /\ Len(l) = Len(r) /\ Len(l) \in Nat \ {0} /\ Len(lp) \in Nat /\ Len(rp) \in Nat
      /\ \A i \in 1..Len(l) : segmentMatches(l[i], r[i])
  BY <1>1, <1>2 DEF patternMatches, GlobsInDepth, isPlain
<1>4. ASSUME NEW i \in 1..Len(lp) PROVE lp[i] \in FileNames /\ l[i] = lp[i] /\ r[i] = lp[i]
  <2>1. lp[i] \in FileNames /\ l[i] = lp[i] /\ i \in 1..Len(l)
    BY <1>1, <1>3
  <2> QED BY <1>0, <1>3, <2>1 DEF segmentMatches
<1>5. Len(lp) <= Len(rp)
  <2>1. CASE r[Len(r)] \notin Wildcards
    BY <1>1, <1>2, <1>3, <2>1
  <2>2. CASE r[Len(r)] \in Wildcards
    <3>1. Len(lp) # Len(l)
      BY <1>0, <1>3, <1>4, <2>2
    <3> QED BY <1>1, <1>2, <1>3, <2>2, <3>1
  <2> QED BY <2>1, <2>2
<1>6. \A i \in 1..Len(lp) : lp[i] = rp[i]
  BY <1>2, <1>3, <1>4, <1>5
<1>7. IsPrefix(lp, rp)
  BY <1>1, <1>2, <1>5, <1>6, PrefixElements
<1> QED BY <1>7 DEF lp, rp

\* A plain glob overlaps a spelled one if one, without its wildcard, is a directory of
\* the other.
LEMMA PlainOverlap ==
  ASSUME NEW l \in GlobsInDepth, NEW r \in GlobsInDepth, isPlain(l), isSpelled(r)
  PROVE  overlaps(l, r) <=> comparable(l, r)
  BY MatchIsPrefix DEF overlaps, comparable

\* A packet with a plain glob may change the files below what the glob names, and one
\* with a live name in its glob may change those among others.
LEMMA SpelledPermits ==
  ASSUME NEW g \in GlobsInDepth, isSpelled(g), NEW f \in Paths
  PROVE  /\ IsPrefix(withoutWildcardSuffix(g), f) => permits(g, f)
         /\ isPlain(g) /\ permits(g, f) => IsPrefix(withoutWildcardSuffix(g), f)
<1> DEFINE p == withoutWildcardSuffix(g)
<1>1. f \in GlobsInDepth /\ isSpelled(f) /\ withoutWildcardSuffix(f) = f /\ f \in Seq(FileNames)
  BY PathIsGlob
<1>2. p \in Seq(FileNames)
  BY SpelledPrefix
<1>3. permits(g, f) <=> overlaps(g, f) /\ ~(IsPrefix(f, p) /\ f # p)
  BY DEF permits, IsStrictPrefix
<1>4. comparable(g, f) <=> IsPrefix(p, f) \/ IsPrefix(f, p)
  BY <1>1 DEF comparable
<1>5. comparable(g, f) => overlaps(g, f)
  BY DEF overlaps
<1>6. isPlain(g) => (overlaps(g, f) <=> comparable(g, f))
  BY <1>1, PlainOverlap
<1> HIDE DEF p, FileNames
<1>7. IsPrefix(p, f) /\ IsPrefix(f, p) => f = p
  <2> SUFFICES ASSUME IsPrefix(p, f), IsPrefix(f, p) PROVE f = p
    OBVIOUS
  <2>1. Len(f) = Len(p) /\ \A i \in 1..Len(f) : f[i] = p[i]
    BY <1>1, <1>2, PrefixElements
  <2> QED BY <1>1, <1>2, <2>1
<1>8. IsPrefix(p, p)
  BY <1>2, PrefixElements
<1>9. /\ IsPrefix(p, f) => permits(g, f)
      /\ isPlain(g) /\ permits(g, f) => IsPrefix(p, f)
  BY <1>3, <1>4, <1>5, <1>6, <1>7, <1>8
<1> QED BY <1>9 DEF p

\* The conflict check of a plain glob answers; against a spelled one it invents no
\* overlap, and against a plain one it is exact and symmetric.
LEMMA PlainPairsExact ==
  ASSUME left \in GlobsInDepth, right \in GlobsInDepth
  PROVE  PlainGlobsExact
<1> DEFINE lp == withoutWildcardSuffix(left)
           rp == withoutWildcardSuffix(right)
<1>1. ASSUME isPlain(left) PROVE ~throws(left, right)
  BY <1>1 DEF throws, isPlain
<1>2. ASSUME NEW g \in {left, right}, isSpelled(g)
      PROVE  withoutWildcardSuffix(g) \in Seq(FileNames) /\ withoutWildcardSuffix(g) \in Paths
  <2>1. withoutWildcardSuffix(g) \in Seq(FileNames) /\ withoutWildcardSuffix(g) \in GlobsInDepth
    BY <1>2, SpelledPrefix
  <2> QED BY <2>1, PathIsGlob DEF GlobsInDepth
<1>3. comparable(left, right) <=> IsPrefix(lp, rp) \/ IsPrefix(rp, lp)
  BY DEF comparable
<1>4. ASSUME isPlain(left), isSpelled(right), overlaps(left, right)
      PROVE  shareFile
  <2>1. lp \in Seq(FileNames) /\ lp \in Paths /\ rp \in Seq(FileNames) /\ rp \in Paths
    BY <1>2, <1>4 DEF isPlain
  <2>2. IsPrefix(lp, rp) \/ IsPrefix(rp, lp)
    BY <1>3, <1>4, PlainOverlap
  <2>3. /\ \A f \in Paths : IsPrefix(lp, f) => permits(left, f)
        /\ \A f \in Paths : IsPrefix(rp, f) => permits(right, f)
    BY <1>4, SpelledPermits DEF isPlain
  <2> HIDE DEF lp, rp, FileNames
  <2>4. IsPrefix(lp, lp) /\ IsPrefix(rp, rp)
    BY <2>1, PrefixElements
  <2> QED BY <2>1, <2>2, <2>3, <2>4 DEF shareFile
<1>5. ASSUME isPlain(left), isPlain(right), shareFile
      PROVE  overlaps(left, right)
  <2>1. lp \in Seq(FileNames) /\ rp \in Seq(FileNames)
    BY <1>2, <1>5 DEF isPlain
  <2>2. PICK f \in Paths : permits(left, f) /\ permits(right, f)
    BY <1>5 DEF shareFile
  <2>3. IsPrefix(lp, f) /\ IsPrefix(rp, f)
    BY <1>5, <2>2, SpelledPermits DEF isPlain
  <2>4. f \in Seq(FileNames)
    BY PathIsGlob
  <2> HIDE DEF lp, rp, FileNames
  <2>5. /\ \A i \in 1..Len(lp) : lp[i] = f[i]
        /\ \A i \in 1..Len(rp) : rp[i] = f[i]
    BY <2>1, <2>3, <2>4, PrefixElements
  <2>6. CASE Len(lp) <= Len(rp)
    <3>1. \A i \in 1..Len(lp) : lp[i] = rp[i]
      BY <2>1, <2>5, <2>6
    <3> QED BY <1>3, <2>1, <2>6, <3>1, PrefixElements DEF overlaps
  <2>7. CASE Len(rp) <= Len(lp)
    <3>1. \A i \in 1..Len(rp) : rp[i] = lp[i]
      BY <2>1, <2>5, <2>7
    <3> QED BY <1>3, <2>1, <2>7, <3>1, PrefixElements DEF overlaps
  <2> QED BY <2>1, <2>6, <2>7
<1>6. ASSUME isPlain(left), isPlain(right)
      PROVE  overlaps(left, right) <=> overlaps(right, left)
  BY <1>6, PlainOverlap DEF comparable, isPlain
<1> QED BY <1>1, <1>4, <1>5, <1>6 DEF PlainGlobsExact, isPlain

\* Of any depth, and whatever the expressions of live names match: a packet with plain
\* globs is refused at move ready (overlaps of tasks/write-set.ts) only for a file that
\* both packets may change, and between plain globs for every such file, whichever of
\* them is the left operand.
THEOREM PlainGlobsSafety == GlobSpec => []PlainGlobsExact
<1> DEFINE I == left \in GlobsInDepth /\ right \in GlobsInDepth
<1>1. GlobInit => I
  BY MaxDepthAssumption DEF GlobInit, GlobsInDepth
<1>2. I /\ [GlobNext]_globVars => I'
  <2> SUFFICES ASSUME I, [GlobNext]_globVars PROVE I'
    OBVIOUS
  <2>1. CASE DeepenLeft
    BY <2>1, MaxDepthAssumption DEF DeepenLeft, GlobsInDepth
  <2>2. CASE DeepenRight
    BY <2>2, MaxDepthAssumption DEF DeepenRight, GlobsInDepth
  <2>3. CASE UNCHANGED globVars
    BY <2>3 DEF globVars
  <2> QED BY <2>1, <2>2, <2>3 DEF GlobNext
<1>3. I => PlainGlobsExact
  BY PlainPairsExact
<1> QED BY <1>1, <1>2, <1>3, PTL DEF GlobSpec

\* The write set of an existing packet is a set of globs.
LEMMA WriteSetInGlobs ==
  ASSUME TypeOK, NEW p \in Packets, exists(p)
  PROVE  writeSet(p) \subseteq Globs
<1>1. version(p) \in 1..MaxVersion /\ history[p] \in Seq(Definitions)
  BY VersionInRange DEF TypeOK, PacketRowsOK
<1>2. version(p) \in 1..Len(history[p])
  BY <1>1, MaxVersionAssumption DEF version
<1>3. loadWorkDefinition(p) \in Definitions
  BY <1>1, <1>2 DEF loadWorkDefinition
<1> QED BY <1>3, DefinitionsAssumption DEF writeSet, WorkDefinition

\* Every write set is made of plain globs, and the gate compares them with overlaps().
PlainWriteSets ==
  /\ Globs \subseteq {g \in GlobsInDepth : isPlain(g)}
  /\ \A a, b \in Globs : <<a, b>> \in Overlaps <=> overlaps(a, b) \/ throws(a, b)

\* A glob of one of the packets matches one of the other's.
shareGround(p, q) == matches(p, q) \/ matches(q, p)

GroundExplained(p, q) ==
  p # q /\ shareGround(p, q)' =>
    \/ {p, q} \subseteq inFlight /\ shareGround(p, q)
    \/ history'[p] # history[p]
    \/ history'[q] # history[q]

\* For plain write sets the order in which the gate compares is irrelevant.
LEMMA PlainMatchesSymmetric ==
  ASSUME PlainWriteSets, TypeOK, NEW p \in Packets, NEW q \in Packets, exists(p), exists(q)
  PROVE  matches(p, q) <=> matches(q, p)
<1>1. \A a, b \in Globs : comparable(a, b) <=> comparable(b, a)
  BY DEF comparable
<1>2. \A a, b \in Globs : overlaps(a, b) <=> comparable(a, b)
  BY PlainOverlap DEF PlainWriteSets, isPlain
<1>3. \A a, b \in Globs : ~throws(a, b)
  BY DEF PlainWriteSets, throws, isPlain
<1>4. \A a, b \in Globs : <<a, b>> \in Overlaps <=> <<b, a>> \in Overlaps
  BY <1>1, <1>2, <1>3 DEF PlainWriteSets
<1>5. writeSet(p) \subseteq Globs /\ writeSet(q) \subseteq Globs
  BY WriteSetInGlobs
<1> QED BY <1>4, <1>5 DEF matches

\* Packets in flight with plain write sets come to share ground by a redefinition only.
LEMMA StepGroundExplained ==
  ASSUME PlainWriteSets, TypeOK, [Next]_vars
  PROVE  \A p, q \in inFlight' : GroundExplained(p, q)
<1> SUFFICES ASSUME NEW p \in inFlight', NEW q \in inFlight', p # q, shareGround(p, q)',
                    history'[p] = history[p], history'[q] = history[q]
             PROVE  {p, q} \subseteq inFlight /\ shareGround(p, q)
  BY DEF GroundExplained
<1>1. p \in Packets /\ q \in Packets /\ shareGround(p, q)
  BY MatchingStays DEF inFlight, shareGround
<1>2. ASSUME NEW r \in {p, q}, NEW o \in {p, q}, r # o, r \notin inFlight
      PROVE  FALSE
  <2>1. PICK s \in Sessions : movePacket(s, r, "ready")
    BY <1>2, ComesIntoFlight
  <2>2. o \in inFlight
    BY <1>2, ComesIntoFlight
  <2>3. ~writeSetConflict(r) /\ exists(r) /\ exists(o)
    BY <2>1, <2>2 DEF movePacket, validateMove, ALLOWED, exists, inFlight
  <2>4. ~matches(r, o)
    BY <1>1, <1>2, <2>2, <2>3 DEF writeSetConflict, inFlight
  <2>5. r \in Packets /\ o \in Packets
    BY <1>1
  <2>6. matches(r, o) <=> matches(o, r)
    BY <2>3, <2>5, PlainMatchesSymmetric
  <2>7. matches(r, o) \/ matches(o, r)
    BY <1>1, <1>2 DEF shareGround
  <2> QED BY <2>4, <2>6, <2>7
<1> QED BY <1>1, <1>2

\* Where every write set is made of plain globs, packets in flight come to share ground
\* by a redefinition only: what checkWriteSetConflict promises of all write sets.
THEOREM PlainWriteSetSafety ==
  ASSUME PlainWriteSets
  PROVE  Spec => [][\A p, q \in inFlight' : GroundExplained(p, q)]_vars
<1>1. TypeOK /\ [Next]_vars => [\A p, q \in inFlight' : GroundExplained(p, q)]_vars
  BY StepGroundExplained
<1> QED BY <1>1, TypeCorrect, PTL DEF Spec
=============================================================================
