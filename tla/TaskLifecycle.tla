--------------------------- MODULE TaskLifecycle ---------------------------
(***************************************************************************)
(* The life of a work packet in the sv-playbook store: its status, its     *)
(* versioned definition, the lease of the session that works on it, the    *)
(* review candidates it produced and the human decisions linked to it.     *)
(*                                                                         *)
(* Every command of src/src/tasks runs its store accesses in one           *)
(* synchronous section, so a command is one action, except the move to     *)
(* review: it awaits the verification of the worktree, and every other     *)
(* command may run between BeginReview and FinishReview.                   *)
(***************************************************************************)
EXTENDS Naturals, Sequences, FiniteSets

CONSTANTS
  Packets,            \* packet ids
  Sessions,           \* worker sessions (one per worktree)
  Calls,              \* `task move <id> review` commands that may be in flight
  Decisions,          \* ids of human decisions
  Globs,              \* write-set patterns
  Overlaps,           \* the pairs <<left, right>> for which overlaps() is true or throws
  Definitions,        \* the work definitions anyone may propose
  Files,              \* the definitions found in packet files for `import`
  SensitivePackets,   \* packets whose type is in requireDecisionForTypes
  SensitiveGlobs,     \* requireDecisionForPaths
  CheckpointEnabled,  \* tasks.complexityCheckpoint.enabled
  CandidateRequired,  \* the review status has a review-candidate policy
  MaxVersion,         \* bound: versions of one packet's definition
  NoSession           \* no lease row

WorkDefinition == [writeSet: SUBSET Globs, dependsOn: SUBSET Packets, body: STRING]

ASSUME DefinitionsAssumption == Definitions \subseteq WorkDefinition
ASSUME FilesAssumption == Files \subseteq Definitions
ASSUME OverlapsAssumption == Overlaps \subseteq Globs \X Globs
ASSUME MaxVersionAssumption == MaxVersion \in Nat \ {0}
ASSUME NoSessionAssumption == NoSession \notin Sessions
ASSUME FlagsAssumption == CheckpointEnabled \in BOOLEAN /\ CandidateRequired \in BOOLEAN

VARIABLES
  status,      \* packets.status, "none" before the row exists
  history,     \* packet_definitions: the versions of each packet, in order
  deps,        \* packet_deps: the dependencies that are enforced
  holder,      \* leases.session_id
  fresh,       \* the packets whose lease is within its TTL
  call,        \* review moves awaiting their verification
  candidates,  \* review_candidates of each packet
  decision     \* decisions: linked packet and the version answered against

vars == <<status, history, deps, holder, fresh, call, candidates, decision>>

Status == {"none", "draft", "ready", "active", "review", "done", "blocked", "dropped"}
Terminal == {"done", "dropped"}
Candidate == [version: 1..MaxVersion, producer: Sessions]
NoCall == [session |-> NoSession]
NotAsked == [asked |-> FALSE]
Unanswered == 0
linkedTo(p, v) == [asked |-> TRUE, packet |-> p, version |-> v]
----------------------------------------------------------------------------
\* The table of legal moves.
ALLOWED ==
  {<<"draft", "ready">>, <<"draft", "dropped">>,
   <<"ready", "active">>, <<"ready", "dropped">>, <<"ready", "draft">>,
   <<"active", "review">>, <<"active", "blocked">>,
   <<"blocked", "ready">>, <<"blocked", "dropped">>,
   <<"review", "active">>, <<"review", "ready">>}

exists(p) == status[p] # "none"
version(p) == Len(history[p])
loadWorkDefinition(p) == history[p][version(p)]
writeSet(p) == loadWorkDefinition(p).writeSet

\* A definition equal to the latest version adds no version; one equal to an
\* older version is refused by UNIQUE (packet_id, definition_digest), which
\* rolls the command back.
recordWorkDefinition(p, d) ==
  IF version(p) > 0 /\ loadWorkDefinition(p) = d
  THEN UNCHANGED history
  ELSE /\ version(p) < MaxVersion
       /\ \A v \in 1..version(p) : history[p][v] # d
       /\ history' = [history EXCEPT ![p] = Append(@, d)]

dependenciesTerminal(p) == \A q \in deps[p] : status[q] \in Terminal

\* The globs of p match those of q, in the order in which the gate compares them; an
\* overlaps() that throws refuses the move as a match does.
matches(p, q) == \E a \in writeSet(p), b \in writeSet(q) : <<a, b>> \in Overlaps

writeSetConflict_readyOnly(p) ==   \* mutant: overlooks active work
  \E q \in Packets \ {p} : status[q] = "ready" /\ matches(p, q)
\* The mover's globs are the left operands, and overlaps() is not symmetric.
writeSetConflict(p) ==
  \E q \in Packets \ {p} : status[q] \in {"ready", "active"} /\ matches(p, q)

isNovel(p, ws) ==
  \E g \in ws : \A q \in Packets \ {p} :
    \A v \in 1..version(q) : g \notin history[q][v].writeSet

requiresDecision(p, ws) ==
  /\ CheckpointEnabled
  /\ isNovel(p, ws) \/ p \in SensitivePackets \/ ws \cap SensitiveGlobs # {}

linkedDecisions(p) == {d \in Decisions : decision[d].asked /\ decision[d].packet = p}

checkpointClear(p) ==
  \/ ~requiresDecision(p, writeSet(p))
  \/ /\ linkedDecisions(p) # {}
     /\ \A d \in linkedDecisions(p) : decision[d].version = version(p)

\* refreshHeartbeat renews every lease of the session, not one packet's.
leasesOf(s) == {p \in Packets : holder[p] = s}
refreshHeartbeat(s) == fresh' = fresh \cup leasesOf(s)
----------------------------------------------------------------------------
Init ==
  /\ status = [p \in Packets |-> "none"]
  /\ history = [p \in Packets |-> <<>>]
  /\ deps = [p \in Packets |-> {}]
  /\ holder = [p \in Packets |-> NoSession]
  /\ fresh = {}
  /\ call = [c \in Calls |-> NoCall]
  /\ candidates = [p \in Packets |-> {}]
  /\ decision = [d \in Decisions |-> NotAsked]

\* `task create`, and the import of a packet file whose id is not stored yet.
createPacket(p, d) ==
  /\ ~exists(p)
  /\ \A q \in d.dependsOn : exists(q)
  /\ status' = [status EXCEPT ![p] = "draft"]
  /\ deps' = [deps EXCEPT ![p] = d.dependsOn]
  /\ recordWorkDefinition(p, d)
  /\ UNCHANGED <<holder, fresh, call, candidates, decision>>

\* `import` of a packet file whose id is stored: whatever the packet's status
\* is, its definition and its dependencies become the file's.
upsertPacketFile(p, d) ==
  /\ exists(p)
  /\ \A q \in d.dependsOn : exists(q)
  /\ deps' = [deps EXCEPT ![p] = d.dependsOn]
  /\ recordWorkDefinition(p, d)
  /\ UNCHANGED <<status, holder, fresh, call, candidates, decision>>

\* `task amend` before the work starts: free rewrite. A dependency that does
\* not exist is recorded in the definition and dropped from packet_deps.
amendDefinition(p, d) ==
  /\ status[p] \in {"draft", "ready"}
  /\ deps' = [deps EXCEPT ![p] = {q \in d.dependsOn : exists(q)}]
  /\ recordWorkDefinition(p, d)
  /\ UNCHANGED <<status, holder, fresh, call, candidates, decision>>

\* `task amend` of active work, by any session: the write set may only grow.
amendWriteSet(p, d) ==
  /\ status[p] = "active"
  /\ d.dependsOn = loadWorkDefinition(p).dependsOn
  /\ d.body = loadWorkDefinition(p).body
  /\ writeSet(p) \subseteq d.writeSet
  /\ recordWorkDefinition(p, d)
  /\ UNCHANGED <<status, deps, holder, fresh, call, candidates, decision>>

startPacket_noDependencies(s, p) ==   \* mutant: trusts the check made at ready
  /\ holder[p] = NoSession
  /\ status[p] = "ready"
  /\ status' = [status EXCEPT ![p] = "active"]
  /\ holder' = [holder EXCEPT ![p] = s]
  /\ fresh' = fresh \cup leasesOf(s) \cup {p}
  /\ UNCHANGED <<history, deps, call, candidates, decision>>
\* `task start`. The sprint's WIP limit is the guard SprintBoard adds.
startPacket(s, p) ==
  /\ holder[p] = NoSession
  /\ status[p] = "ready"
  /\ dependenciesTerminal(p)
  /\ status' = [status EXCEPT ![p] = "active"]
  /\ holder' = [holder EXCEPT ![p] = s]
  /\ fresh' = fresh \cup leasesOf(s) \cup {p}
  /\ UNCHANGED <<history, deps, call, candidates, decision>>

\* The transaction that ends a move: only active -> blocked keeps the lease.
persistMove(p, to, alive) ==
  /\ to = "ready" => dependenciesTerminal(p)
  /\ status' = [status EXCEPT ![p] = to]
  /\ IF status[p] = "active" /\ to = "blocked"
     THEN holder' = holder /\ fresh' = alive
     ELSE holder' = [holder EXCEPT ![p] = NoSession] /\ fresh' = alive \ {p}

validateMove_clearedAtReady(s, p, to) ==   \* mutant: the checkpoint runs once
  /\ <<status[p], to>> \in ALLOWED /\ to # "active"
  /\ to = "ready" => checkpointClear(p)
  /\ to = "ready" => ~writeSetConflict(p)
  /\ status[p] = "active" => holder[p] = s
validateMove(s, p, to) ==
  /\ <<status[p], to>> \in ALLOWED /\ to # "active"
  /\ to \in {"ready", "review"} => checkpointClear(p)
  /\ to = "ready" => ~writeSetConflict(p)
  /\ status[p] = "active" => holder[p] = s

\* `task move` to any status but review (done is the promotion's).
movePacket(s, p, to) ==
  /\ to # "review"
  /\ validateMove(s, p, to)
  /\ persistMove(p, to, fresh \cup leasesOf(s))
  /\ UNCHANGED <<history, deps, call, candidates, decision>>

\* `task move review` up to its await: the gates pass, and the definition and
\* the lease the candidate will name are read.
BeginReview(c, s, p) ==
  /\ call[c] = NoCall
  /\ validateMove(s, p, "review")
  /\ call' = [call EXCEPT ![c] = [session |-> s, packet |-> p,
                                  version |-> version(p), producer |-> holder[p]]]
  /\ refreshHeartbeat(s)
  /\ UNCHANGED <<status, history, deps, holder, candidates, decision>>

reviewStillValid_leaseOnly(m) == holder[m.packet] = m.session     \* mutant
reviewStillValid_statusOnly(m) == status[m.packet] = "active"     \* mutant
reviewStillValid(m) == status[m.packet] = "active" /\ holder[m.packet] = m.session

\* One row per (packet, version, sha): resubmitting the same commit adds none.
persistReviewCandidate(m) ==
  LET mine == [version |-> m.version, producer |-> m.producer] IN
  \/ candidates' = [candidates EXCEPT ![m.packet] = @ \cup {mine}]
  \/ /\ \E k \in candidates[m.packet] : k.version = m.version
     /\ UNCHANGED candidates

\* `task move review` after its await: status and lease are read again, the
\* definition is not.
FinishReview(c) ==
  /\ call[c] # NoCall
  /\ LET m == call[c] IN
       /\ reviewStillValid(m)
       /\ persistMove(m.packet, "review", fresh)
       /\ IF CandidateRequired THEN persistReviewCandidate(m) ELSE UNCHANGED candidates
  /\ call' = [call EXCEPT ![c] = NoCall]
  /\ UNCHANGED <<history, deps, decision>>

\* The preflight fails, the recheck refuses the move, or the process dies.
AbortReview(c) ==
  /\ call[c] # NoCall
  /\ call' = [call EXCEPT ![c] = NoCall]
  /\ UNCHANGED <<status, history, deps, holder, fresh, candidates, decision>>

\* `task release`: the packet stays active (or blocked) without a lease.
releaseLease(s, p) ==
  /\ holder[p] = s
  /\ holder' = [holder EXCEPT ![p] = NoSession]
  /\ fresh' = (fresh \cup leasesOf(s)) \ {p}
  /\ UNCHANGED <<status, history, deps, call, candidates, decision>>

\* `task takeover`: a live lease needs --force.
takeoverPacket_anyStatus(s, p, force) ==   \* mutant: adopts packets nobody started
  /\ exists(p)
  /\ ~(holder[p] = s /\ p \in fresh)
  /\ p \in fresh => force
  /\ holder' = [holder EXCEPT ![p] = s]
  /\ fresh' = fresh \cup {p}
  /\ UNCHANGED <<status, history, deps, call, candidates, decision>>
takeoverPacket(s, p, force) ==
  /\ holder[p] = NoSession => status[p] = "active"
  /\ ~(holder[p] = s /\ p \in fresh)
  /\ p \in fresh => force
  /\ holder' = [holder EXCEPT ![p] = s]
  /\ fresh' = fresh \cup {p}
  /\ UNCHANGED <<status, history, deps, call, candidates, decision>>

\* `task note`, `task start` of a packet already held, and every refused start
\* or move: only the session's leases are renewed.
heartbeat(s) ==
  /\ refreshHeartbeat(s)
  /\ UNCHANGED <<status, history, deps, holder, call, candidates, decision>>

\* The lease passes its TTL: a clock step, no row changes.
expire(p) ==
  /\ p \in fresh
  /\ fresh' = fresh \ {p}
  /\ UNCHANGED <<status, history, deps, holder, call, candidates, decision>>

\* `decision ask --packet`.
ask(d, p) ==
  /\ decision[d] = NotAsked
  /\ exists(p)
  /\ decision' = [decision EXCEPT ![d] = linkedTo(p, Unanswered)]
  /\ UNCHANGED <<status, history, deps, holder, fresh, call, candidates>>

\* `decision answer`: once, against the packet's version of that moment.
answer(d) ==
  /\ decision[d].asked
  /\ decision[d].version = Unanswered
  /\ decision' = [decision EXCEPT ![d] = linkedTo(@.packet, version(@.packet))]
  /\ UNCHANGED <<status, history, deps, holder, fresh, call, candidates>>

\* The promotion closes a packet that has a review candidate.
recordTaskClosure(p) ==
  /\ status[p] = "review"
  /\ candidates[p] # {}
  /\ status' = [status EXCEPT ![p] = "done"]
  /\ UNCHANGED <<history, deps, holder, fresh, call, candidates, decision>>
----------------------------------------------------------------------------
Redefine == \E p \in Packets :
  \/ \E d \in Definitions : createPacket(p, d) \/ amendDefinition(p, d) \/ amendWriteSet(p, d)
  \/ \E d \in Files : upsertPacketFile(p, d)

Work == \E s \in Sessions, p \in Packets :
  \/ \E to \in Status : movePacket(s, p, to)
  \/ \E c \in Calls : BeginReview(c, s, p)
  \/ releaseLease(s, p)
  \/ \E force \in BOOLEAN : takeoverPacket(s, p, force)

Start == \E s \in Sessions, p \in Packets : startPacket(s, p)

Environment ==
  \/ \E c \in Calls : FinishReview(c) \/ AbortReview(c)
  \/ \E s \in Sessions : heartbeat(s)
  \/ \E p \in Packets : expire(p) \/ recordTaskClosure(p)
  \/ \E d \in Decisions : answer(d) \/ \E p \in Packets : ask(d, p)

Next == Redefine \/ Work \/ Start \/ Environment

Spec == Init /\ [][Next]_vars
----------------------------------------------------------------------------
\* Type correctness, with the bound on versions: a packet has a definition as
\* soon as it has a row, and only a leased packet can be fresh.
PacketRowsOK ==
  /\ status \in [Packets -> Status]
  /\ history \in [Packets -> Seq(Definitions)]
  /\ \A p \in Packets : version(p) <= MaxVersion /\ (version(p) = 0 <=> ~exists(p))
  /\ deps \in [Packets -> SUBSET Packets]
LeaseRowsOK ==
  /\ holder \in [Packets -> Sessions \cup {NoSession}]
  /\ fresh \subseteq {p \in Packets : holder[p] # NoSession}
ReviewCall == [session: Sessions, packet: Packets, version: 1..MaxVersion, producer: Sessions]
Link == [asked: {TRUE}, packet: Packets, version: 0..MaxVersion]
TypeOK ==
  /\ PacketRowsOK
  /\ LeaseRowsOK
  /\ call \in [Calls -> ReviewCall \cup {NoCall}]
  /\ candidates \in [Packets -> SUBSET Candidate]
  /\ decision \in [Decisions -> Link \cup {NotAsked}]

\* A lease outlives neither a submission nor a closure: only active and blocked
\* packets have one, whatever runs while a review move awaits its verification.
LeaseOnlyWhileClaimed ==
  \A p \in Packets : holder[p] # NoSession => status[p] \in {"active", "blocked"}

\* A packet becomes active only from ready, together with a lease nobody had,
\* and it enters review only from active: the recheck after the await keeps a
\* late review move from resurrecting a packet blocked, requeued or closed
\* meanwhile. review -> active, which the table lists, never happens.
StatusFollowsAllowed ==
  [][\A p \in Packets : status'[p] # status[p] =>
       \/ status[p] = "none" /\ status'[p] = "draft"
       \/ status[p] = "review" /\ status'[p] = "done"
       \/ /\ <<status[p], status'[p]>> \in ALLOWED
          /\ status'[p] = "active" => /\ status[p] = "ready"
                                      /\ holder[p] = NoSession
                                      /\ holder'[p] # NoSession]_vars

\* The session a new candidate names as its producer holds the packet's lease
\* when the candidate is stored: a session that lost the packet during the
\* verification submits nothing.
CandidateComesFromHolder ==
  [][\A p \in Packets : \A k \in candidates'[p] \ candidates[p] :
       /\ k.producer = holder[p]
       /\ status[p] = "active"
       /\ status'[p] = "review"]_vars

inFlight == {p \in Packets : status[p] \in {"ready", "active"}}

\* The globs of a packet in flight come to match those of another only when one of
\* the two is redefined or when the other comes into flight later: no sequence of
\* moves, starts, blocks and takeovers brings a packet in flight whose own globs match
\* work under way. The gate does not look whether the globs of that work match its.
MatchesOnlyLaterWork ==
  [][\A p, q \in inFlight' :
       p # q /\ matches(p, q)' =>
         \/ {p, q} \subseteq inFlight /\ matches(p, q)
         \/ p \in inFlight /\ q \notin inFlight
         \/ history'[p] # history[p]
         \/ history'[q] # history[q]]_vars

\* Active work stands on closed dependencies: it starts with all of them closed
\* and only an import that replaces them may add an open one.
ActiveStandsOnClosedWork ==
  [][\A p \in Packets :
       status'[p] = "active" /\ ~dependenciesTerminal(p)' =>
         status[p] = "active" /\ (deps'[p] # deps[p] \/ ~dependenciesTerminal(p))]_vars

\* Every candidate was cleared by the complexity checkpoint at the version it
\* names: its write set needed no decision, or one was answered against it.
CandidateWasCleared ==
  \A p \in Packets : \A k \in candidates[p] :
    requiresDecision(p, history[p][k.version].writeSet) =>
      \E d \in linkedDecisions(p) : decision[d].version = k.version

\* The promise to the sessions, by the mapping of the eight statuses to stages.
stage == [p \in Packets |->
  IF status[p] = "active" THEN "working"
  ELSE IF status[p] = "blocked" THEN "paused"
  ELSE IF status[p] = "review" THEN "submitted"
  ELSE IF status[p] \in Terminal THEN "closed"
  ELSE "queued"]
Claims == INSTANCE PacketClaim WITH stage <- stage, owner <- holder
ImplementsPacketClaim == Claims!Spec
=============================================================================
