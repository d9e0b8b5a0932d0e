--------------------------- MODULE AgentRunProofs ---------------------------
(***************************************************************************)
(* The runs of agents, and the packs of context they are given.            *)
(*                                                                         *)
(* Safety of GatewayRun for any callers, works, effects and bounds: a run  *)
(* has one session and a durable trail, it completes only cleanly and at   *)
(* most once per work, and it is not said to be stopped while it runs.     *)
(* Then ContextCatalog, for any items, precedences and requests: a pack is *)
(* whole, and what it grants is backed by its items.                       *)
(***************************************************************************)
EXTENDS GatewayRun, ContextCatalog, NaturalsInduction, WellFoundedInduction,
        FiniteSetTheorems, FunctionTheorems, TLAPS

----------------------------------------------------------------------------
(* The inductive invariant.                                                *)

Operations == {"createSession", "submitTurn", "cancelOrphan"}
Intent == [run : Runs, op : Operations, seq : Nat, status : {"committed", "consumed", "blocked"}]
Row == [status : {"none", "observing"} \cup TerminalStatus, msg : 0..MaxTurns,
        tool : BOOLEAN, out : Outputs]
Message == [state : {"absent", "pending", "running", "completed", "cancelled", "unknown"},
            tool : BOOLEAN, out : Outputs]
Reading == [last : {"unknown", "completed", "cancelled"}, tool : BOOLEAN,
            candidate : Outputs, output : Outputs]
Watching == {"observing", "reading", "cancelling", "awaiting"}
InCall == {"creating", "created", "submitting", "submitted"}
Caller == [pc : {"idle", "verifying", "resumed", "hygiene"} \cup InCall \cup Watching,
           run : Runs \cup {NoRun}, seq : 0..MaxTurns, seen : Reading,
           why : {"none", "policy", "timeout"}]
Recovery == [todo : SUBSET Runs, run : Runs \cup {NoRun}, seq : Nat]

TypeOK ==
  /\ specs \subseteq Runs
  /\ intents \subseteq Intent
  /\ session \in [Runs -> BOOLEAN]
  /\ turns \in [Runs -> SUBSET Turns]
  /\ row \in [Runs -> Row]
  /\ created \in [Runs -> {0, 1}]
  /\ messages \in [Runs -> [Turns -> Message]]
  /\ caller \in [Callers -> Caller]
  /\ recovery \in Recovery

intentOf(r, op, seq, status) == [run |-> r, op |-> op, seq |-> seq, status |-> status]

\* One intent per operation key; the keys of an operation are numbered from 1, so
\* the next number is free.
KeysOK ==
  /\ \A i, j \in intents : i.run = j.run /\ i.op = j.op /\ i.seq = j.seq => i = j
  /\ \A r \in Runs, op \in {"submitTurn", "cancelOrphan"} :
       \E n \in Nat : \A s \in Nat : operationKeyTaken(r, op, s) <=> s \in 1..n

\* The provider has begun to work on the message.
Begun(r, i) == messages[r][i].state \notin {"absent", "pending"}
\* No other turn of the run was ever submitted.
Alone(r, i) == \A s \in Nat : operationKeyTaken(r, "submitTurn", s) => s = i

\* A session is created, a turn accepted and a message sent under an intent; a row
\* is about an accepted turn; a stopped run was begun and runs no longer.
RunOK(r) ==
  /\ session[r] => created[r] = 1 /\ intentOf(r, "createSession", None, "consumed") \in intents
  /\ created[r] = 1 => operationKeyTaken(r, "createSession", None)
  /\ turns[r] # {} => session[r]
  /\ \A s \in turns[r] : intentOf(r, "submitTurn", s, "consumed") \in intents
  /\ \A i \in Turns : messages[r][i].state # "absent" => operationKeyTaken(r, "submitTurn", i)
  /\ row[r].status # "none" => row[r].msg \in turns[r] /\ r \in specs
  /\ row[r].status = "none" <=> row[r] = NoRow
  /\ row[r].status = "completed" => row[r].out = "valid" /\ ~row[r].tool
  /\ row[r].status \in {"timedOut", "policyBlocked"} /\ Alone(r, row[r].msg)
       => Begun(r, row[r].msg) /\ messages[r][row[r].msg].state # "running"

\* A work gets a next attempt only after all the earlier ones ended badly.
EndedBadly(r) == terminal(r) /\ row[r].status # "completed"
ChainOK ==
  \A w \in Works : \A n \in 1..MaxAttempts : <<w, n>> \in specs =>
    \A m \in 1..(n - 1) : EndedBadly(<<w, m>>)

\* The operation a caller has in flight at the adapter.
InFlight(c) == caller[c].pc \in InCall
opOf(c) == IF caller[c].pc \in {"creating", "created"} THEN "createSession" ELSE "submitTurn"
seqOf(c) == IF caller[c].pc \in {"creating", "created"} THEN None ELSE caller[c].seq

\* A dispatch concerns one prepared run; its operation in flight has a committed
\* intent and has not happened before; it watches the turn of the run's row, and
\* stops only a turn that was begun.
CallerOK(c) ==
  /\ IF at(c, "idle") THEN run(c) = NoRun ELSE run(c) \in specs
  /\ InFlight(c) => intentOf(run(c), opOf(c), seqOf(c), "committed") \in intents
  /\ at(c, "creating") => created[run(c)] = 0
  /\ at(c, "created") => created[run(c)] = 1
  /\ caller[c].pc \in {"resumed", "submitting", "submitted"} => session[run(c)]
  /\ caller[c].pc \in {"submitting", "submitted"} => caller[c].seq \in Turns
  /\ at(c, "submitting") => messages[run(c)][caller[c].seq].state = "absent"
  /\ caller[c].pc \in Watching => row[run(c)].status # "none" /\ row[run(c)].msg = caller[c].seq
  /\ at(c, "reading") /\ caller[c].seen.tool => Begun(run(c), caller[c].seq)
  /\ caller[c].pc \in {"cancelling", "awaiting"} =>
       caller[c].why # "none" /\ (Alone(run(c), caller[c].seq) => Begun(run(c), caller[c].seq))

\* No two callers have the same operation in flight.
SameCall(c, d) == run(c) = run(d) /\ opOf(c) = opOf(d) /\ seqOf(c) = seqOf(d)
NoSharedCall ==
  \A c, d \in Callers : InFlight(c) /\ InFlight(d) /\ SameCall(c, d) => c = d

RunsOK == \A r \in Runs : RunOK(r)
CallersOK == \A c \in Callers : CallerOK(c)
IInv == TypeOK /\ KeysOK /\ RunsOK /\ ChainOK /\ CallersOK /\ NoSharedCall

----------------------------------------------------------------------------
(* Numbers.                                                                *)

\* A nonempty set of naturals has a least element.
LEMMA LeastElement ==
  ASSUME NEW T \in SUBSET Nat, T # {}
  PROVE  \E x \in T : \A y \in T : x <= y
<1> DEFINE Below(x) == 0..(x - 1)
           R == StrictSubsetOrdering(Nat)
           F == FiniteSubsetsOf(Nat)
           B == {Below(x) : x \in T}
<1>1. \A x \in T : Below(x) \in F
  BY FS_Interval DEF FiniteSubsetsOf
<1>2. B \subseteq F /\ B # {}
  BY <1>1
<1>3. PICK s \in B : \A t \in B : ~ (<<t, s>> \in R)
  <2> HIDE DEF B, F, R
  <2>1. IsWellFoundedOn(R, F)
    BY FS_StrictSubsetOrderingWellFounded DEF R, F
  <2> QED BY <1>2, <2>1, WFMin
<1>4. PICK x \in T : s = Below(x)
  OBVIOUS
<1>5. ASSUME NEW y \in T, y < x PROVE FALSE
  <2>1. Below(y) \subseteq Below(x) /\ Below(y) # Below(x)
    <3>1. x \in Nat /\ y \in Nat
      OBVIOUS
    <3>2. y \in Below(x) /\ y \notin Below(y)
      BY <3>1, <1>5
    <3> QED BY <3>1, <3>2, <1>5
  <2>2. <<Below(y), Below(x)>> \in R
    <3>1. Below(x) \in SUBSET Nat /\ Below(y) \in SUBSET Nat
      OBVIOUS
    <3> HIDE DEF Below
    <3> QED BY <2>1, <3>1 DEF StrictSubsetOrdering
  <2> QED BY <2>2, <1>3, <1>4
<1> QED
  <2>1. \A y \in T : ~(y < x)
    BY <1>5
  <2> QED BY <2>1

\* The latest of some turns and the earliest are among them.
LEMMA LatestAndEarliest ==
  ASSUME NEW S \in SUBSET Turns, S # {}
  PROVE  Max(S) \in S /\ Min(S) \in S
<1>1. MaxTurns \in Nat /\ S \subseteq Nat
  BY GatewayAssumption DEF Turns
<1>2. Min(S) \in S
  <2>1. PICK x \in S : \A y \in S : x <= y
    BY <1>1, LeastElement
  <2> QED BY <2>1 DEF Min
<1>3. Max(S) \in S
  <2> DEFINE T == {MaxTurns - y : y \in S}
  <2>1. T \subseteq Nat /\ T # {}
    BY <1>1 DEF Turns
  <2>2. PICK x \in T : \A y \in T : x <= y
    <3> HIDE DEF T
    <3> QED BY <2>1, LeastElement
  <2>3. PICK z \in S : x = MaxTurns - z
    OBVIOUS
  <2>4. \A y \in S : MaxTurns - z <= MaxTurns - y
    BY <2>2, <2>3
  <2>5. \A y \in S : z >= y
    BY <1>1, <2>4
  <2> QED BY <2>5 DEF Max
<1> QED BY <1>2, <1>3

\* The number of operations made is the last of their sequence numbers, so the next
\* number has not been used.
LEMMA NextSequenceIsFree ==
  ASSUME TypeOK, KeysOK, NEW r \in Runs, NEW op \in {"submitTurn", "cancelOrphan"}
  PROVE  /\ nextOperationSequence(op, r) \in Nat \ {0}
         /\ ~operationKeyTaken(r, op, nextOperationSequence(op, r))
         /\ \A s \in Nat : operationKeyTaken(r, op, s) <=> s \in 1..(nextOperationSequence(op, r) - 1)
<1> DEFINE O == operationsOf(r, op)
           f == [i \in O |-> i.seq]
<1>1. PICK n \in Nat : \A s \in Nat : operationKeyTaken(r, op, s) <=> s \in 1..n
  BY DEF KeysOK
<1>2. \A i \in O : i \in intents /\ i.run = r /\ i.op = op /\ i.seq \in Nat
  BY DEF operationsOf, TypeOK, Intent
<1>3. f \in Bijection(O, 1..n)
  <2>1. \A i \in O : f[i] \in 1..n
    BY <1>1, <1>2 DEF operationKeyTaken
  <2>2. \A i, j \in O : f[i] = f[j] => i = j
    BY <1>2 DEF KeysOK
  <2>3. \A s \in 1..n : \E i \in O : f[i] = s
    BY <1>1 DEF operationKeyTaken
  <2> HIDE DEF O
  <2>4. f \in [O -> 1..n]
    BY <2>1
  <2> QED BY <2>2, <2>3, <2>4 DEF Bijection, Injection, Surjection, IsInjective
<1>4. Cardinality(O) = n
  <2> HIDE DEF O, f
  <2>1. ExistsBijection(1..n, O)
    BY <1>3, Fun_ExistsBijSymmetric DEF ExistsBijection
  <2> QED BY <2>1, FS_CountingElements
<1>5. nextOperationSequence(op, r) = n + 1
  BY <1>4 DEF nextOperationSequence
<1> QED BY <1>1, <1>5

----------------------------------------------------------------------------
(* Intents.                                                                *)

\* The number of a new operation: for a session there is one key only.
FreeKey(r, op, seq) ==
  \/ op = "createSession" /\ seq = None /\ ~operationKeyTaken(r, op, seq)
  \/ op \in {"submitTurn", "cancelOrphan"} /\ seq = nextOperationSequence(op, r)

\* Committing an intent takes one free key.
LEMMA IntentCommitted ==
  ASSUME TypeOK, KeysOK, NEW r \in Runs, NEW op, NEW seq, FreeKey(r, op, seq),
         commitIntent(r, op, seq)
  PROVE  /\ intents' \subseteq Intent /\ KeysOK' /\ seq \in Nat /\ op \in Operations
         /\ intents \subseteq intents' /\ intentOf(r, op, seq, "committed") \in intents'
         /\ ~operationKeyTaken(r, op, seq)
         /\ \A q, o, s : operationKeyTaken(q, o, s)' <=>
               operationKeyTaken(q, o, s) \/ (q = r /\ o = op /\ s = seq)
<1> DEFINE new == intentOf(r, op, seq, "committed")
<1>1. /\ seq \in Nat /\ op \in Operations /\ ~operationKeyTaken(r, op, seq)
      /\ op # "createSession" => /\ seq # 0
                                 /\ \A s \in Nat : operationKeyTaken(r, op, s) <=> s \in 1..(seq - 1)
  BY NextSequenceIsFree DEF FreeKey, Operations, None
<1>2. intents' = intents \cup {new}
  BY DEF commitIntent, intentOf
<1>3. /\ new \in Intent /\ new.run = r /\ new.op = op /\ new.seq = seq
  BY <1>1 DEF intentOf, Intent
<1> HIDE DEF new
<1>4. \A q, o, s : operationKeyTaken(q, o, s)' <=>
         operationKeyTaken(q, o, s) \/ (q = r /\ o = op /\ s = seq)
  BY <1>2, <1>3 DEF operationKeyTaken, operationsOf
<1>5. \A i \in intents : ~(i.run = r /\ i.op = op /\ i.seq = seq)
  BY <1>1 DEF operationKeyTaken, operationsOf
<1>6. \A i, j \in intents' : i.run = j.run /\ i.op = j.op /\ i.seq = j.seq => i = j
  BY <1>2, <1>3, <1>5 DEF KeysOK
<1>7. ASSUME NEW q \in Runs, NEW o \in {"submitTurn", "cancelOrphan"}
      PROVE  \E n \in Nat : \A s \in Nat : operationKeyTaken(q, o, s)' <=> s \in 1..n
  <2>1. CASE q = r /\ o = op
    <3>1. /\ seq \in Nat \ {0}
          /\ \A s \in Nat : operationKeyTaken(r, op, s) <=> s \in 1..(seq - 1)
      BY <1>1, <2>1
    <3>2. \A s \in Nat : operationKeyTaken(q, o, s)' <=> operationKeyTaken(r, op, s) \/ s = seq
      BY <1>4, <2>1
    <3>3. \A s \in Nat : s \in 1..(seq - 1) \/ s = seq <=> s \in 1..seq
      BY <3>1
    <3>4. \A s \in Nat : operationKeyTaken(q, o, s)' <=> s \in 1..seq
      BY <3>1, <3>2, <3>3
    <3> QED BY <3>1, <3>4
  <2>2. CASE ~(q = r /\ o = op)
    <3>1. \A s : operationKeyTaken(q, o, s)' <=> operationKeyTaken(q, o, s)
      BY <1>4, <2>2
    <3> QED BY <3>1 DEF KeysOK
  <2> QED BY <2>1, <2>2
<1>8. KeysOK'
  BY <1>6, <1>7 DEF KeysOK
<1>9. intents' \subseteq Intent
  BY <1>2, <1>3 DEF TypeOK
<1> QED BY <1>1, <1>2, <1>4, <1>8, <1>9 DEF new

\* Closing one changes the status of a committed intent and nothing else.
LEMMA IntentClosed ==
  ASSUME TypeOK, KeysOK, NEW r, NEW op, NEW seq, NEW status \in {"consumed", "blocked"},
         intents' = closed(r, op, seq, status)
  PROVE  /\ intents' \subseteq Intent /\ KeysOK'
         /\ \A q, o, s : operationKeyTaken(q, o, s)' <=> operationKeyTaken(q, o, s)
         /\ \A q, o, s : intentOf(q, o, s, "consumed") \in intents
                           => intentOf(q, o, s, "consumed") \in intents'
         /\ \A q, o, s : /\ intentOf(q, o, s, "committed") \in intents
                         /\ ~(q = r /\ o = op /\ s = seq)
                         => intentOf(q, o, s, "committed") \in intents'
         /\ intentOf(r, op, seq, "committed") \in intents
              => intentOf(r, op, seq, status) \in intents'
<1> DEFINE image(i) == IF i.run = r /\ i.op = op /\ i.seq = seq /\ i.status = "committed"
                         THEN [i EXCEPT !.status = status] ELSE i
<1>1. intents' = {image(i) : i \in intents}
  BY DEF closed
<1>2. ASSUME NEW i \in intents
      PROVE  /\ image(i) \in Intent /\ image(i).run = i.run /\ image(i).op = i.op
             /\ image(i).seq = i.seq
             /\ image(i).status = IF i.run = r /\ i.op = op /\ i.seq = seq /\ i.status = "committed"
                                    THEN status ELSE i.status
  BY DEF TypeOK, Intent
<1>3. ASSUME NEW i \in intents,
             ~(i.run = r /\ i.op = op /\ i.seq = seq /\ i.status = "committed")
      PROVE  image(i) = i
  BY <1>3
<1> HIDE DEF image
<1>4. intents' \subseteq Intent
  BY <1>1, <1>2
<1>5. \A q, o, s : operationKeyTaken(q, o, s)' <=> operationKeyTaken(q, o, s)
  BY <1>1, <1>2 DEF operationKeyTaken, operationsOf
<1>6. \A i, j \in intents' : i.run = j.run /\ i.op = j.op /\ i.seq = j.seq => i = j
  BY <1>1, <1>2 DEF KeysOK
<1>7. KeysOK'
  <2>1. \A q \in Runs, o \in {"submitTurn", "cancelOrphan"} :
          \E n \in Nat : \A s \in Nat : operationKeyTaken(q, o, s)' <=> s \in 1..n
    BY <1>5 DEF KeysOK
  <2> QED BY <1>6, <2>1 DEF KeysOK
<1>8. ASSUME NEW q, NEW o, NEW s, NEW st, intentOf(q, o, s, st) \in intents,
             st # "committed" \/ ~(q = r /\ o = op /\ s = seq)
      PROVE  intentOf(q, o, s, st) \in intents'
  BY <1>1, <1>3, <1>8 DEF intentOf
<1>9. ASSUME intentOf(r, op, seq, "committed") \in intents
      PROVE  intentOf(r, op, seq, status) \in intents'
  <2>1. [intentOf(r, op, seq, "committed") EXCEPT !.status = status] = intentOf(r, op, seq, status)
    BY DEF intentOf
  <2>2. image(intentOf(r, op, seq, "committed")) = intentOf(r, op, seq, status)
    BY <2>1 DEF image, intentOf
  <2> QED BY <1>1, <1>9, <2>2
<1> QED BY <1>4, <1>5, <1>7, <1>8, <1>9

----------------------------------------------------------------------------
(* What every step respects, and what follows for the runs and callers it  *)
(* does not concern.                                                       *)

\* Nothing stored is taken back: runs stay prepared, keys taken, intents consumed,
\* sessions and turns accepted, rows about their turn, ended runs as they ended;
\* and what the provider has begun or stopped is not begun anew.
Grows ==
  /\ specs \subseteq specs'
  /\ \A q, o, s : operationKeyTaken(q, o, s) => operationKeyTaken(q, o, s)'
  /\ \A q, o, s : intentOf(q, o, s, "consumed") \in intents
                    => intentOf(q, o, s, "consumed") \in intents'
  /\ \A r \in Runs : /\ session[r] => session'[r]
                     /\ turns[r] \subseteq turns'[r]
                     /\ row[r].status # "none" => row'[r].status # "none" /\ row'[r].msg = row[r].msg
                     /\ terminal(r) => row'[r] = row[r]
  /\ \A r \in Runs, i \in Turns : Begun(r, i) =>
       Begun(r, i)' /\ (messages[r][i].state # "running" => messages'[r][i].state # "running")

\* A run whose rows, turns and session are left alone.
RunAside(r) ==
  /\ UNCHANGED <<session[r], created[r], turns[r], row[r]>>
  /\ \A i \in Turns : messages'[r][i].state # "absent" =>
       messages[r][i].state # "absent" \/ operationKeyTaken(r, "submitTurn", i)'

\* A run whose own rows, session and messages stay is still in order when the rest only grows.
LEMMA RunKept ==
  ASSUME TypeOK, Grows, NEW r \in Runs, RunOK(r), RunAside(r)
  PROVE  RunOK(r)'
<1>1. row[r].status # "none" => row[r].msg \in Turns
  BY DEF RunOK, TypeOK
<1>2. Alone(r, row[r].msg)' => Alone(r, row[r].msg)
  BY DEF Alone, Grows, RunAside
<1>3. row[r].status \in {"timedOut", "policyBlocked"} => row[r].status # "none"
  OBVIOUS
<1>4. row'[r].status \in {"timedOut", "policyBlocked"} /\ Alone(r, row[r].msg)'
        => Begun(r, row[r].msg)' /\ messages'[r][row[r].msg].state # "running"
  BY <1>1, <1>2, <1>3 DEF RunOK, RunAside, Grows
<1>5. row'[r] = row[r]
  BY DEF RunAside
<1>6. /\ session'[r] => created'[r] = 1 /\ intentOf(r, "createSession", None, "consumed") \in intents'
      /\ created'[r] = 1 => operationKeyTaken(r, "createSession", None)'
      /\ turns'[r] # {} => session'[r]
      /\ \A s \in turns'[r] : intentOf(r, "submitTurn", s, "consumed") \in intents'
  BY DEF RunOK, RunAside, Grows
<1>7. \A i \in Turns : messages'[r][i].state # "absent" => operationKeyTaken(r, "submitTurn", i)'
  BY DEF RunOK, RunAside, Grows
<1>8. /\ row'[r].status # "none" => row'[r].msg \in turns'[r] /\ r \in specs'
      /\ row'[r].status = "none" <=> row'[r] = NoRow
      /\ row'[r].status = "completed" => row'[r].out = "valid" /\ ~row'[r].tool
  BY <1>5 DEF RunOK, RunAside, Grows
<1> QED BY <1>4, <1>5, <1>6, <1>7, <1>8 DEF RunOK

\* A caller that goes on as it was, with its operation still its own.
CallerAside(c) ==
  /\ caller'[c] = caller[c]
  /\ InFlight(c) => intentOf(run(c), opOf(c), seqOf(c), "committed") \in intents'
  /\ caller[c].pc \in {"creating", "created"} => created'[run(c)] = created[run(c)]
  /\ at(c, "submitting") => messages'[run(c)][caller[c].seq].state = "absent"

\* A caller that CallerAside leaves alone stays in order when what is stored only grows.
LEMMA CallerKept ==
  ASSUME TypeOK, RunsOK, Grows, NEW c \in Callers, CallerOK(c), CallerAside(c)
  PROVE  CallerOK(c)'
<1>1. CASE at(c, "idle")
  BY <1>1 DEF CallerOK, CallerAside, at, run, InFlight, InCall, Watching
<1>2. CASE ~at(c, "idle")
  <2>1. PICK r \in Runs : r = run(c) /\ r \in specs
    BY <1>2 DEF CallerOK, TypeOK
  <2>2. PICK s : s = caller[c].seq
    OBVIOUS
  <2>3. /\ caller'[c] = caller[c] /\ (run(c))' = r /\ caller'[c].seq = s
        /\ opOf(c)' = opOf(c) /\ seqOf(c)' = seqOf(c) /\ (InFlight(c)' <=> InFlight(c))
        /\ r \in specs'
    BY <2>1, <2>2 DEF CallerAside, run, opOf, seqOf, InFlight, Grows
  <2>4. caller[c].pc \in Watching => s \in Turns
    BY <2>1, <2>2 DEF CallerOK, RunsOK, RunOK, TypeOK
  <2>5. Alone(r, s)' => Alone(r, s)
    BY DEF Alone, Grows
  <2>6. /\ caller[c].pc \in Watching => row'[r].status # "none" /\ row'[r].msg = s
        /\ at(c, "reading") /\ caller[c].seen.tool => Begun(r, s)'
        /\ caller[c].pc \in {"cancelling", "awaiting"} =>
             caller[c].why # "none" /\ (Alone(r, s)' => Begun(r, s)')
    <3>1. caller[c].pc \in Watching => row'[r].status # "none" /\ row'[r].msg = s
      BY <2>1, <2>2 DEF CallerOK, Grows
    <3>2. at(c, "reading") /\ caller[c].seen.tool => Begun(r, s)'
      BY <2>1, <2>2, <2>4 DEF CallerOK, Grows, at, Watching
    <3>3. caller[c].pc \in {"cancelling", "awaiting"} =>
             caller[c].why # "none" /\ (Alone(r, s)' => Begun(r, s)')
      BY <2>1, <2>2, <2>4, <2>5 DEF CallerOK, Grows, Watching
    <3> QED BY <3>1, <3>2, <3>3
  <2>7. /\ at(c, "creating") => created'[r] = 0
        /\ at(c, "created") => created'[r] = 1
        /\ caller[c].pc \in {"resumed", "submitting", "submitted"} => session'[r]
        /\ caller[c].pc \in {"submitting", "submitted"} => s \in Turns
        /\ at(c, "submitting") => messages'[r][s].state = "absent"
        /\ InFlight(c) => intentOf(r, opOf(c), seqOf(c), "committed") \in intents'
    BY <2>1, <2>2 DEF CallerOK, CallerAside, Grows, at
  <2> QED BY <1>2, <2>1, <2>3, <2>6, <2>7 DEF CallerOK, at
<1> QED BY <1>1, <1>2

\* The run an observer writes: its row was observing, keeps its turn, and gets a
\* status the invariant allows.
RowWritten(r) ==
  /\ isRunObserving(r)
  /\ row'[r].msg = row[r].msg
  /\ row'[r].status \in {"observing"} \cup TerminalStatus
  /\ row'[r].status = "completed" => row'[r].out = "valid" /\ ~row'[r].tool
  /\ row'[r].status \in {"timedOut", "policyBlocked"} /\ Alone(r, row[r].msg)
       => Begun(r, row[r].msg)' /\ messages'[r][row[r].msg].state # "running"

RunWritten(r) ==
  /\ UNCHANGED <<session[r], created[r], turns[r]>>
  /\ row'[r] = row[r] \/ RowWritten(r)
  /\ \A i \in Turns : messages'[r][i].state # "absent" =>
       messages[r][i].state # "absent" \/ operationKeyTaken(r, "submitTurn", i)'

\* A run whose row is written as RunWritten allows is still in order.
LEMMA WrittenRunKept ==
  ASSUME TypeOK, Grows, NEW r \in Runs, RunOK(r), RunWritten(r)
  PROVE  RunOK(r)'
<1>1. CASE row'[r] = row[r]
  <2>1. RunAside(r)
    BY <1>1 DEF RunWritten, RunAside
  <2> QED BY <2>1, RunKept
<1>2. CASE RowWritten(r)
  <2>1. /\ row[r].status = "observing" /\ row[r].status # "none" /\ row'[r].status # "none"
        /\ row'[r] # NoRow
    BY <1>2 DEF RowWritten, isRunObserving, TerminalStatus, NoRow
  <2>2. PICK s : s = row[r].msg /\ s = row'[r].msg
    BY <1>2 DEF RowWritten
  <2>3. Alone(r, s)' => Alone(r, s)
    BY DEF Alone, Grows
  <2>4. row'[r].status \in {"timedOut", "policyBlocked"} /\ Alone(r, s)'
          => Begun(r, s)' /\ messages'[r][s].state # "running"
    BY <1>2, <2>2, <2>3 DEF RowWritten
  <2>5. /\ session'[r] => created'[r] = 1 /\ intentOf(r, "createSession", None, "consumed") \in intents'
        /\ created'[r] = 1 => operationKeyTaken(r, "createSession", None)'
        /\ turns'[r] # {} => session'[r]
        /\ \A i \in turns'[r] : intentOf(r, "submitTurn", i, "consumed") \in intents'
        /\ \A i \in Turns : messages'[r][i].state # "absent" => operationKeyTaken(r, "submitTurn", i)'
    BY DEF RunOK, RunWritten, Grows
  <2>6. s \in turns'[r] /\ r \in specs'
    BY <2>1, <2>2 DEF RunOK, RunWritten, Grows
  <2>7. row'[r].status = "completed" => row'[r].out = "valid" /\ ~row'[r].tool
    BY <1>2 DEF RowWritten
  <2> QED BY <2>1, <2>2, <2>4, <2>5, <2>6, <2>7 DEF RunOK
<1> QED BY <1>1, <1>2 DEF RunWritten

\* The runs stay as the invariant says when the step writes at most some rows.
LEMMA RunsKept ==
  ASSUME TypeOK, RunsOK, Grows, \A r \in Runs : RunWritten(r)
  PROVE  RunsOK'
BY WrittenRunKept DEF RunsOK

\* Ended attempts stay ended, so nothing needs to be said of a step that prepares
\* no further attempt.
LEMMA ChainKept ==
  ASSUME ChainOK, Grows,
         \A w \in Works, n \in 2..MaxAttempts : <<w, n>> \in specs' => <<w, n>> \in specs
  PROVE  ChainOK'
<1>1. \A r \in Runs : EndedBadly(r) => EndedBadly(r)'
  BY DEF Grows, EndedBadly, terminal
<1>2. ASSUME NEW w \in Works, NEW n \in 1..MaxAttempts, <<w, n>> \in specs', NEW m \in 1..(n - 1)
      PROVE  EndedBadly(<<w, m>>)'
  <2>1. MaxAttempts \in Nat
    BY GatewayAssumption
  <2>2. n \in 2..MaxAttempts /\ m \in 1..MaxAttempts
    BY <1>2, <2>1
  <2>3. EndedBadly(<<w, m>>) /\ <<w, m>> \in Runs
    BY <1>2, <2>2 DEF ChainOK, Runs
  <2> QED BY <1>1, <2>3
<1> QED BY <1>2 DEF ChainOK

\* An idle caller has nothing to keep.
LEMMA IdleCaller ==
  ASSUME NEW c \in Callers, caller'[c] = Idle
  PROVE  CallerOK(c)' /\ ~InFlight(c)'
BY DEF CallerOK, Idle, at, run, InFlight, InCall, Watching

\* Callers that stay as they are or stop.
LEMMA CallersKept ==
  ASSUME TypeOK, RunsOK, CallersOK, NoSharedCall, Grows,
         \A d \in Callers : CallerAside(d) \/ caller'[d] = Idle
  PROVE  CallersOK' /\ NoSharedCall'
<1>1. CallersOK'
  BY CallerKept, IdleCaller DEF CallersOK
<1>2. \A d \in Callers : InFlight(d)' => caller'[d] = caller[d]
  BY IdleCaller DEF CallerAside
<1>3. NoSharedCall'
  BY <1>2 DEF NoSharedCall, InFlight, SameCall, run, opOf, seqOf
<1> QED BY <1>1, <1>3

\* One caller that makes a step: what is its own it may change, and a new operation
\* has a number of its own.
OwnCall(c, q, o, s) == InFlight(c) /\ q = run(c) /\ o = opOf(c) /\ s = seqOf(c)
StepOf(c) ==
  /\ \A d \in Callers \ {c} : caller'[d] = caller[d]
  /\ \A q, o, s : /\ intentOf(q, o, s, "committed") \in intents
                  /\ ~OwnCall(c, q, o, s)
                  => intentOf(q, o, s, "committed") \in intents'
  /\ \A q \in Runs : created'[q] = created[q] \/ (at(c, "creating") /\ q = run(c))
  /\ \A q \in Runs, i \in Turns : messages[q][i].state = "absent" =>
       messages'[q][i].state = "absent" \/ (at(c, "submitting") /\ q = run(c) /\ i = caller[c].seq)
  /\ InFlight(c)' => \/ OwnCall(c, run(c)', opOf(c)', seqOf(c)')
                     \/ ~operationKeyTaken(run(c)', opOf(c)', seqOf(c)')

\* A step of one caller leaves every other in order, and lets no two share a call.
LEMMA OthersKept ==
  ASSUME TypeOK, RunsOK, CallersOK, NoSharedCall, Grows, NEW c \in Callers, StepOf(c), CallerOK(c)'
  PROVE  CallersOK' /\ NoSharedCall'
<1>1. ASSUME NEW d \in Callers, d # c PROVE CallerAside(d)
  <2>1. PICK q, o, s : q = run(d) /\ o = opOf(d) /\ s = seqOf(d)
    OBVIOUS
  <2>2. InFlight(d) => ~OwnCall(c, q, o, s)
    BY <1>1, <2>1 DEF NoSharedCall, SameCall, OwnCall
  <2>3. InFlight(d) => intentOf(q, o, s, "committed") \in intents'
    BY <2>1, <2>2 DEF StepOf, CallersOK, CallerOK
  <2>4. caller[d].pc \in {"creating", "created"} => created'[q] = created[q]
    <3>1. HAVE caller[d].pc \in {"creating", "created"}
    <3>2. InFlight(d) /\ o = "createSession" /\ s = None /\ q \in Runs
      BY <2>1, <3>1 DEF InFlight, InCall, opOf, seqOf, CallersOK, CallerOK, at, TypeOK
    <3>3. ~(at(c, "creating") /\ q = run(c))
      BY <2>2, <3>2 DEF OwnCall, at, InFlight, InCall, opOf, seqOf
    <3> QED BY <3>2, <3>3 DEF StepOf
  <2>5. at(d, "submitting") => messages'[q][caller[d].seq].state = "absent"
    <3>1. HAVE at(d, "submitting")
    <3>2. InFlight(d) /\ o = "submitTurn" /\ s = caller[d].seq /\ q \in Runs /\ s \in Turns
          /\ messages[q][s].state = "absent"
      BY <2>1, <3>1 DEF InFlight, InCall, opOf, seqOf, CallersOK, CallerOK, at, TypeOK
    <3>3. ~(at(c, "submitting") /\ q = run(c) /\ s = caller[c].seq)
      BY <2>2, <3>2 DEF OwnCall, at, InFlight, InCall, opOf, seqOf
    <3> QED BY <3>2, <3>3 DEF StepOf
  <2> QED BY <1>1, <2>1, <2>3, <2>4, <2>5 DEF CallerAside, StepOf
<1>2. CallersOK'
  BY <1>1, CallerKept DEF CallersOK
<1>3. ASSUME NEW d \in Callers, d # c, InFlight(d)', InFlight(c)', SameCall(c, d)'
      PROVE  FALSE
  <2>1. PICK q, o, s : q = run(d) /\ o = opOf(d) /\ s = seqOf(d)
    OBVIOUS
  <2>2. /\ InFlight(d) /\ q = run(d)' /\ o = opOf(d)' /\ s = seqOf(d)'
    BY <1>3, <2>1 DEF StepOf, InFlight, run, opOf, seqOf
  <2>3. q = run(c)' /\ o = opOf(c)' /\ s = seqOf(c)'
    BY <1>3, <2>2 DEF SameCall
  <2>4. ~OwnCall(c, q, o, s)
    BY <1>3, <2>1, <2>2 DEF NoSharedCall, SameCall, OwnCall
  <2>5. intentOf(q, o, s, "committed") \in intents
    BY <2>1, <2>2 DEF CallersOK, CallerOK
  <2>6. operationKeyTaken(q, o, s)
    BY <2>5 DEF operationKeyTaken, operationsOf, intentOf
  <2> QED BY <1>3, <2>3, <2>4, <2>6 DEF StepOf
<1>4. ASSUME NEW d \in Callers, NEW e \in Callers, d # c, e # c, InFlight(d)', InFlight(e)', SameCall(d, e)'
      PROVE  d = e
  <2>1. InFlight(d) /\ InFlight(e) /\ SameCall(d, e)
    BY <1>4 DEF StepOf, InFlight, run, opOf, seqOf, SameCall
  <2> QED BY <2>1 DEF NoSharedCall
<1>5. NoSharedCall'
  BY <1>3, <1>4 DEF NoSharedCall, SameCall
<1> QED BY <1>2, <1>5

----------------------------------------------------------------------------
(* What an observer sees.                                                  *)

\* A reading never says that the turn runs, and shows a tool only of a turn that
\* was begun.
LEMMA ReadingOfTurn ==
  ASSUME TypeOK, NEW r \in Runs, NEW s \in Turns
  PROVE  read(r, s) \in Reading /\ (read(r, s).tool => Begun(r, s))
<1>1. MaxTurns \in Nat
  BY GatewayAssumption
<1> DEFINE relevant == messagesAfterParent(r, s)
           answered == {i \in relevant : messages[r][i].out # "none"
                                       /\ messages[r][i].state \in {"running", "completed"}}
           last == messages[r][Max(relevant)]
<1>2. relevant \subseteq Turns /\ (\A i \in relevant : Begun(r, i)) /\ (Begun(r, s) => s \in relevant)
  BY <1>1 DEF messagesAfterParent, Turns, Begun
<1>3. messages[r] \in [Turns -> Message]
  BY DEF TypeOK
<1>4. CASE ~Begun(r, s)
  <2>1. read(r, s) = NoReading
    BY <1>4 DEF read, Begun
  <2> QED BY <2>1 DEF NoReading, Reading, Outputs
<1>5. CASE Begun(r, s)
  <2>1. Max(relevant) \in relevant
    <3> HIDE DEF relevant
    <3> QED BY <1>2, <1>5, LatestAndEarliest
  <2>2. last \in Message /\ last.state \notin {"absent", "pending"}
    <3> HIDE DEF relevant
    <3> QED BY <1>2, <1>3, <2>1 DEF Begun
  <2>3. finalState(last) \in {"unknown", "completed", "cancelled"}
    <3> HIDE DEF last
    <3> QED BY <2>2 DEF finalState, Message
  <2>4. candidateOutput(r, relevant) \in Outputs
    <3>1. candidateOutput(r, relevant) = IF answered = {} THEN "none" ELSE messages[r][Min(answered)].out
      BY DEF candidateOutput
    <3>2. answered # {} => Min(answered) \in Turns
      <4>1. answered \subseteq Turns
        BY <1>2
      <4> HIDE DEF answered
      <4> QED BY <4>1, LatestAndEarliest
    <3> HIDE DEF answered, relevant
    <3> QED BY <3>1, <3>2, <1>3 DEF Message, Outputs
  <2>5. read(r, s) = [last |-> finalState(last),
                      tool |-> \E i \in relevant : messages[r][i].tool,
                      candidate |-> candidateOutput(r, relevant),
                      output |-> last.out]
    BY <1>5 DEF read, Begun
  <2>6. (\E i \in relevant : messages[r][i].tool) \in BOOLEAN
    OBVIOUS
  <2> HIDE DEF relevant, last
  <2> QED BY <2>2, <2>3, <2>4, <2>5, <2>6, <1>5 DEF Reading, Message
<1> QED BY <1>4, <1>5

\* An observation says running exactly when the session was busy.
ObservationType == [state : {"running", "unknown", "completed", "cancelled"}, tool : BOOLEAN, out : Outputs]
\* An observation is running exactly when the session is busy, and shows the tool use of its
\* reading.
LEMMA ObservationOfReading ==
  ASSUME NEW reading \in Reading, NEW b \in BOOLEAN
  PROVE  /\ toObservation(b, reading) \in ObservationType
         /\ toObservation(b, reading).state = "running" <=> b
         /\ toObservation(b, reading).tool = reading.tool
<1> DEFINE state == observationState(b, reading)
           out == CASE state = "running"   -> reading.candidate
                   [] state = "completed" -> reading.output
                   [] OTHER               -> "none"
<1>1. state \in {"running", "unknown", "completed", "cancelled"} /\ (state = "running" <=> b)
  BY DEF observationState, Reading
<1>2. out \in Outputs
  <2> HIDE DEF state
  <2> QED BY DEF Reading, Outputs
<1>3. toObservation(b, reading) = [state |-> state, tool |-> reading.tool, out |-> out]
  BY DEF toObservation
<1> HIDE DEF state, out
<1> QED BY <1>1, <1>2, <1>3 DEF ObservationType, Reading

\* A busy session is busy with a turn that was submitted.
LEMMA BusyWithSubmitted ==
  ASSUME TypeOK, RunsOK, NEW r \in Runs, busy(r), NEW s \in Turns, Alone(r, s)
  PROVE  Begun(r, s)
<1>1. PICK i \in Turns : messages[r][i].state = "running"
  BY DEF busy
<1>2. operationKeyTaken(r, "submitTurn", i) /\ i \in Nat
  BY <1>1, GatewayAssumption DEF RunsOK, RunOK, Turns
<1> QED BY <1>1, <1>2 DEF Alone, Begun

----------------------------------------------------------------------------
(* The steps that store nothing about a run.                               *)

\* Nothing stored and nothing at the provider changes.
LEMMA NothingGrows ==
  ASSUME IInv, UNCHANGED <<stored, provider>>
  PROVE  /\ Grows /\ KeysOK' /\ RunsOK' /\ ChainOK'
         /\ \A q, o, s : operationKeyTaken(q, o, s)' <=> operationKeyTaken(q, o, s)
<1>1. /\ specs' = specs /\ intents' = intents /\ session' = session /\ turns' = turns
      /\ row' = row /\ created' = created /\ messages' = messages
  BY DEF stored, provider
<1>2. \A q, o, s : operationKeyTaken(q, o, s)' <=> operationKeyTaken(q, o, s)
  BY <1>1 DEF operationKeyTaken, operationsOf
<1>3. Grows
  BY <1>1, <1>2 DEF Grows, Begun
<1>4. KeysOK'
  BY <1>1, <1>2 DEF IInv, KeysOK
<1>5. RunsOK'
  <2>1. \A r \in Runs : RunWritten(r)
    BY <1>1 DEF RunWritten
  <2> QED BY <1>3, <2>1, RunsKept DEF IInv
<1>6. ChainOK'
  BY <1>1, <1>3, ChainKept DEF IInv
<1> QED BY <1>2, <1>3, <1>4, <1>5, <1>6

\* Callers that stop, and a recovery that starts.
LEMMA StopStep ==
  ASSUME IInv, UNCHANGED <<stored, provider>>, caller' \in [Callers -> Caller],
         \A d \in Callers : caller'[d] = caller[d] \/ caller'[d] = Idle,
         recovery' \in Recovery
  PROVE  IInv'
<1>1. /\ specs' = specs /\ intents' = intents /\ session' = session /\ turns' = turns
      /\ row' = row /\ created' = created /\ messages' = messages
  BY DEF stored, provider
<1>2. Grows /\ KeysOK' /\ RunsOK' /\ ChainOK'
  BY NothingGrows
<1>3. \A d \in Callers : CallerAside(d) \/ caller'[d] = Idle
  BY <1>1 DEF CallerAside, IInv, CallersOK, CallerOK
<1>4. CallersOK' /\ NoSharedCall'
  BY <1>2, <1>3, CallersKept DEF IInv
<1>5. TypeOK'
  BY <1>1 DEF IInv, TypeOK
<1> QED BY <1>2, <1>4, <1>5 DEF IInv

\* The idle caller is a caller.
LEMMA IdleType == Idle \in Caller
BY GatewayAssumption DEF Idle, Caller, None, NoReading, Reading, Outputs

\* A dispatch that ends, fails before it wrote, or dies.
LEMMA CallerStops ==
  ASSUME IInv, NEW c \in Callers, verifyProfileFails(c) \/ Crash(c)
  PROVE  IInv'
<1>1. /\ caller' = [caller EXCEPT ![c] = Idle] /\ UNCHANGED <<stored, provider, recovery>>
  BY DEF verifyProfileFails, Crash, throw, return
<1>2. caller' \in [Callers -> Caller] /\ recovery' \in Recovery
  BY <1>1, IdleType DEF IInv, TypeOK
<1>3. \A d \in Callers : caller'[d] = caller[d] \/ caller'[d] = Idle
  BY <1>1 DEF IInv, TypeOK
<1>4. UNCHANGED <<stored, provider>>
  BY <1>1
<1> QED BY <1>2, <1>3, <1>4, StopStep

\* A restart of the runtime ends the scheduler's callers and keeps what is stored.
LEMMA RuntimeRestarts ==
  ASSUME IInv, RuntimeRestart
  PROVE  IInv'
<1>1. /\ caller' = [c \in Callers |-> IF ~at(c, "idle") /\ ~Manual(run(c)) THEN Idle ELSE caller[c]]
      /\ UNCHANGED <<stored, provider>>
      /\ recovery' = [NoRecovery EXCEPT !.todo = orphanedTargets]
  BY DEF RuntimeRestart
<1>2. caller' \in [Callers -> Caller]
  BY <1>1, IdleType DEF IInv, TypeOK
<1>3. \A d \in Callers : caller'[d] = caller[d] \/ caller'[d] = Idle
  BY <1>1
<1>4. recovery' \in Recovery
  BY <1>1 DEF NoRecovery, Recovery, orphanedTargets, None
<1> QED BY <1>1, <1>2, <1>3, <1>4, StopStep

\* A step that changes nothing keeps the invariant.
LEMMA NothingStored ==
  ASSUME IInv, UNCHANGED <<stored, provider, caller, recovery>>
  PROVE  IInv'
<1>1. caller' \in [Callers -> Caller] /\ recovery' \in Recovery
  BY DEF IInv, TypeOK
<1>2. UNCHANGED <<stored, provider>> /\ \A d \in Callers : caller'[d] = caller[d] \/ caller'[d] = Idle
  OBVIOUS
<1> QED BY <1>1, <1>2, StopStep

\* The observer takes its reading.
LEMMA ObserverReads ==
  ASSUME IInv, NEW c \in Callers, observeRun(c)
  PROVE  IInv'
<1>1. /\ at(c, "observing") /\ UNCHANGED <<stored, provider, recovery>>
      /\ caller' = [caller EXCEPT ![c].pc = "reading", ![c].seen = read(run(c), caller[c].seq)]
  BY DEF observeRun
<1>2. PICK r \in Runs, s \in Turns : r = run(c) /\ s = caller[c].seq
  <2>1. run(c) \in Runs /\ caller[c].seq \in turns[run(c)]
    BY <1>1 DEF IInv, TypeOK, CallersOK, CallerOK, at, Watching, RunsOK, RunOK
  <2> QED BY <2>1 DEF IInv, TypeOK
<1>3. PICK reading \in Reading : reading = read(r, s) /\ (reading.tool => Begun(r, s))
  BY ReadingOfTurn DEF IInv
<1>4. caller' = [caller EXCEPT ![c].pc = "reading", ![c].seen = reading]
  BY <1>1, <1>2, <1>3
<1>5. /\ specs' = specs /\ intents' = intents /\ session' = session /\ turns' = turns
      /\ row' = row /\ created' = created /\ messages' = messages /\ recovery' = recovery
  BY <1>1 DEF stored, provider
<1>6. Grows /\ KeysOK' /\ RunsOK' /\ ChainOK'
  BY <1>1, NothingGrows
<1>7. caller' \in [Callers -> Caller]
  <2>1. caller \in [Callers -> Caller] /\ caller[c] \in Caller
    BY DEF IInv, TypeOK
  <2>2. caller' = [caller EXCEPT ![c] = [caller[c] EXCEPT !.pc = "reading", !.seen = reading]]
    BY <1>4
  <2>3. [caller[c] EXCEPT !.pc = "reading", !.seen = reading] \in Caller
    BY <2>1 DEF Caller, Watching
  <2> QED BY <2>1, <2>2, <2>3
<1>8. /\ caller'[c].pc = "reading" /\ caller'[c].run = r /\ caller'[c].seq = s
      /\ caller'[c].seen = reading
  BY <1>2, <1>4 DEF IInv, TypeOK, Caller, run
<1>9. CallerOK(c)' /\ ~InFlight(c)'
  <2>1. r \in specs /\ row[r].status # "none" /\ row[r].msg = s
    BY <1>1, <1>2 DEF IInv, CallersOK, CallerOK, at, Watching
  <2> QED BY <1>3, <1>5, <1>8, <2>1 DEF CallerOK, at, run, InFlight, InCall, Watching, Begun
<1>10. StepOf(c)
  BY <1>4, <1>5, <1>9 DEF StepOf, IInv, TypeOK
<1>11. CallersOK' /\ NoSharedCall'
  BY <1>6, <1>9, <1>10, OthersKept DEF IInv
<1>12. TypeOK'
  BY <1>5, <1>7 DEF IInv, TypeOK
<1> QED BY <1>6, <1>11, <1>12 DEF IInv

----------------------------------------------------------------------------
(* Preparing and dispatching runs.                                         *)

\* Preparing a run adds it and leaves everything else.
LEMMA RunPrepared ==
  ASSUME IInv, NEW r \in Runs, prepareResolved(r), UNCHANGED <<intents, session, turns, row, provider>>
  PROVE  /\ Grows /\ KeysOK' /\ RunsOK' /\ specs' = specs \cup {r}
         /\ UNCHANGED <<intents, session, turns, row, created, messages>>
<1>1. /\ intents' = intents /\ session' = session /\ turns' = turns
      /\ row' = row /\ created' = created /\ messages' = messages
  BY DEF provider
<1>2. specs' = specs \cup {r}
  BY DEF prepareResolved, existingDispatch
<1>3. \A q, o, s : operationKeyTaken(q, o, s)' <=> operationKeyTaken(q, o, s)
  BY <1>1 DEF operationKeyTaken, operationsOf
<1>4. Grows
  BY <1>1, <1>2, <1>3 DEF Grows, Begun
<1>5. KeysOK'
  BY <1>1, <1>3 DEF IInv, KeysOK
<1>6. RunsOK'
  <2>1. \A q \in Runs : RunWritten(q)
    BY <1>1 DEF RunWritten
  <2> QED BY <1>4, <2>1, RunsKept DEF IInv
<1> QED BY <1>1, <1>2, <1>4, <1>5, <1>6

\* A run prepared while the callers go on.
LEMMA PreparedStep ==
  ASSUME IInv, NEW r \in Runs, prepareResolved(r), ChainOK',
         UNCHANGED <<intents, session, turns, row, provider, caller, recovery>>
  PROVE  IInv'
<1>1. UNCHANGED <<intents, session, turns, row, provider>> /\ caller' = caller /\ recovery' = recovery
  OBVIOUS
<1>2. /\ Grows /\ KeysOK' /\ RunsOK' /\ specs' = specs \cup {r}
      /\ UNCHANGED <<intents, session, turns, row, created, messages>>
  BY <1>1, RunPrepared
<1>3. \A d \in Callers : CallerAside(d) \/ caller'[d] = Idle
  BY <1>1, <1>2 DEF CallerAside, IInv, CallersOK, CallerOK
<1>4. CallersOK' /\ NoSharedCall'
  BY <1>2, <1>3, CallersKept DEF IInv
<1>5. TypeOK'
  BY <1>1, <1>2 DEF IInv, TypeOK
<1> QED BY <1>2, <1>4, <1>5 DEF IInv

\* The first attempt of a work is prepared by hand.
LEMMA RunIsPrepared ==
  ASSUME IInv, NEW w \in Works, prepareRunSpec(w)
  PROVE  IInv'
<1>1. /\ prepareResolved(<<w, 1>>)
      /\ UNCHANGED <<intents, session, turns, row, provider>>
      /\ UNCHANGED <<intents, session, turns, row, provider, caller, recovery>>
  BY DEF prepareRunSpec
<1>2. <<w, 1>> \in Runs
  BY GatewayAssumption DEF Runs
<1>3. Grows /\ specs' = specs \cup {<<w, 1>>}
  BY <1>1, <1>2, RunPrepared
<1>4. ChainOK'
  <2>1. \A v \in Works, n \in 2..MaxAttempts : <<v, n>> \in specs' => <<v, n>> \in specs
    BY <1>3
  <2> QED BY <1>3, <2>1, ChainKept DEF IInv
<1> QED BY <1>1, <1>2, <1>4, PreparedStep

\* The next attempt is prepared when the last one ended badly, and then so had all
\* before it.
LEMMA RunIsRetried ==
  ASSUME IInv, NEW r \in Runs, retryRunSpec(r)
  PROVE  IInv'
<1>1. /\ r \in specs /\ Manual(r) /\ EndedBadly(r)
      /\ successorDispatchRef(r) \in Runs /\ prepareResolved(successorDispatchRef(r))
      /\ UNCHANGED <<intents, session, turns, row, provider>>
      /\ UNCHANGED <<intents, session, turns, row, provider, caller, recovery>>
  BY DEF retryRunSpec, assertRetryable, EndedBadly
<1>2. Grows /\ specs' = specs \cup {successorDispatchRef(r)}
  BY <1>1, RunPrepared
<1>3. MaxAttempts \in Nat /\ Works \cap Effects = {}
  BY GatewayAssumption
<1>4. PICK w \in Works, k \in 1..MaxAttempts : r = <<w, k>> /\ successorDispatchRef(r) = <<w, k + 1>>
  BY <1>1, <1>3 DEF Runs, Manual, successorDispatchRef
<1>5. \A q \in Runs : EndedBadly(q) => EndedBadly(q)'
  BY <1>2 DEF Grows, EndedBadly, terminal
<1>6. ChainOK'
  <2>1. ASSUME NEW v \in Works, NEW n \in 1..MaxAttempts, <<v, n>> \in specs', NEW m \in 1..(n - 1)
        PROVE  EndedBadly(<<v, m>>)'
    <3>1. <<v, m>> \in Runs
      BY <1>3, <2>1 DEF Runs
    <3>2. CASE <<v, n>> \in specs
      BY <1>5, <2>1, <3>1, <3>2 DEF IInv, ChainOK
    <3>3. CASE <<v, n>> = <<w, k + 1>> /\ m = k
      BY <1>1, <1>4, <1>5, <3>3
    <3>4. CASE <<v, n>> = <<w, k + 1>> /\ m # k
      <4>1. m \in 1..(k - 1) /\ v = w
        BY <1>3, <2>1, <3>4
      <4> QED BY <1>1, <1>4, <1>5, <3>1, <4>1 DEF IInv, ChainOK
    <3> QED BY <1>2, <1>4, <2>1, <3>2, <3>3, <3>4
  <2> QED BY <2>1 DEF ChainOK
<1> QED BY <1>1, <1>6, PreparedStep

\* A dispatch prepares its run, if need be after an attempt that ended badly, and takes an idle
\* caller.
LEMMA RunIsDispatched ==
  ASSUME IInv, NEW c \in Callers, NEW r \in Runs, dispatchRun(c, r)
  PROVE  IInv'
<1>1. /\ at(c, "idle") /\ prepareResolved(r)
      /\ Manual(r) => r \in specs
      /\ caller' = [caller EXCEPT ![c] = [Idle EXCEPT !.pc = "verifying", !.run = r]]
      /\ UNCHANGED <<intents, session, turns, row, provider>> /\ recovery' = recovery
  BY DEF dispatchRun
<1>2. /\ Grows /\ KeysOK' /\ RunsOK' /\ specs' = specs \cup {r}
      /\ UNCHANGED <<intents, session, turns, row, created, messages>>
  BY <1>1, RunPrepared
<1>3. ChainOK'
  <2>1. \A w \in Works, n \in 2..MaxAttempts : <<w, n>> \in specs' => <<w, n>> \in specs
    BY <1>1, <1>2 DEF Manual
  <2> QED BY <1>2, <2>1, ChainKept DEF IInv
<1>4. PICK idle \in Caller : idle = Idle
  BY IdleType
<1> DEFINE started == [idle EXCEPT !.pc = "verifying", !.run = r]
<1>5. started \in Caller /\ started.pc = "verifying" /\ started.run = r
  BY DEF Caller
<1>6. caller' = [caller EXCEPT ![c] = started]
  BY <1>1, <1>4
<1>7. /\ caller' \in [Callers -> Caller] /\ caller'[c].pc = "verifying" /\ caller'[c].run = r
      /\ \A d \in Callers \ {c} : caller'[d] = caller[d]
  <2>1. caller \in [Callers -> Caller]
    BY DEF IInv, TypeOK
  <2> HIDE DEF started
  <2> QED BY <1>5, <1>6, <2>1
<1>8. CallerOK(c)' /\ ~InFlight(c)'
  BY <1>2, <1>7 DEF CallerOK, at, run, InFlight, InCall, Watching
<1>9. StepOf(c)
  BY <1>2, <1>7, <1>8 DEF StepOf
<1>10. CallersOK' /\ NoSharedCall'
  BY <1>2, <1>8, <1>9, OthersKept DEF IInv
<1>11. TypeOK'
  BY <1>1, <1>2, <1>7 DEF IInv, TypeOK
<1> QED BY <1>2, <1>3, <1>10, <1>11 DEF IInv

----------------------------------------------------------------------------
(* The provider works, and sessions are stopped.                           *)

\* What may happen to a message that was sent: it begins, goes on, ends, and never
\* begins again.
Moves ==
  /\ messages' \in [Runs -> [Turns -> Message]]
  /\ \A r \in Runs, i \in Turns :
       /\ messages'[r][i].state = "absent" <=> messages[r][i].state = "absent"
       /\ Begun(r, i) => Begun(r, i)' /\ (messages[r][i].state # "running" => messages'[r][i].state # "running")

\* A message that is there and moves to a later state is all that changes.
LEMMA MessageMoves ==
  ASSUME TypeOK, NEW r \in Runs, NEW i \in Turns, NEW m \in Message,
         messages' = [messages EXCEPT ![r] = [messages[r] EXCEPT ![i] = m]],
         messages[r][i].state # "absent", m.state # "absent",
         Begun(r, i) => /\ m.state # "pending"
                        /\ messages[r][i].state # "running" => m.state # "running"
  PROVE  Moves
<1>1. messages \in [Runs -> [Turns -> Message]]
  BY DEF TypeOK
<1>2. messages[r] \in [Turns -> Message]
  BY <1>1
<1>3. [messages[r] EXCEPT ![i] = m] \in [Turns -> Message]
  BY <1>2
<1>4. messages' \in [Runs -> [Turns -> Message]]
  BY <1>1, <1>3
<1>5. \A q \in Runs, j \in Turns :
        messages'[q][j] = IF q = r /\ j = i THEN m ELSE messages[q][j]
  BY <1>1, <1>2
<1> QED BY <1>4, <1>5 DEF Moves, Begun

\* What the provider does makes no message appear, and what has begun or ended has still.
LEMMA ProviderMoves ==
  ASSUME TypeOK, NEW r \in Runs, NEW i \in Turns,
         \/ ProviderStarts(r, i) \/ ProviderUsesTool(r, i)
         \/ ProviderAnswers(r, i) \/ ProviderEnds(r, i)
  PROVE  Moves
<1> DEFINE old == messages[r][i]
           changed(m) == [messages EXCEPT ![r] = [messages[r] EXCEPT ![i] = m]]
<1>1. old \in Message
  BY DEF TypeOK
<1>2. CASE ProviderStarts(r, i)
  <2> DEFINE m == [old EXCEPT !.state = "running"]
  <2>1. messages' = changed(m) /\ old.state = "pending"
    BY <1>2 DEF ProviderStarts
  <2>2. m \in Message /\ m.state = "running"
    BY <1>1 DEF Message
  <2> HIDE DEF m
  <2> QED BY <2>1, <2>2, MessageMoves DEF Begun
<1>3. CASE ProviderUsesTool(r, i)
  <2> DEFINE m == [old EXCEPT !.tool = TRUE]
  <2>1. messages' = changed(m) /\ old.state = "running"
    BY <1>3 DEF ProviderUsesTool
  <2>2. m \in Message /\ m.state = old.state
    BY <1>1 DEF Message
  <2> HIDE DEF m
  <2> QED BY <2>1, <2>2, MessageMoves DEF Begun
<1>4. CASE ProviderAnswers(r, i)
  <2> DEFINE m == [old EXCEPT !.out = "valid"]
  <2>1. messages' = changed(m) /\ old.state = "running"
    BY <1>4 DEF ProviderAnswers
  <2>2. m \in Message /\ m.state = old.state
    BY <1>1 DEF Message, Outputs
  <2> HIDE DEF m
  <2> QED BY <2>1, <2>2, MessageMoves DEF Begun
<1>5. CASE ProviderEnds(r, i)
  <2>1. PICK st \in {"completed", "unknown"}, out \in Outputs :
          messages' = [messages EXCEPT ![r][i].state = st, ![r][i].out = out]
    BY <1>5 DEF ProviderEnds, Outputs
  <2> DEFINE m == [old EXCEPT !.state = st, !.out = out]
  <2>2. messages \in [Runs -> [Turns -> Message]] /\ old.state = "running"
    BY <1>5 DEF TypeOK, ProviderEnds
  <2>3. messages' = changed(m)
    BY <2>1, <2>2
  <2>4. m \in Message /\ m.state = st
    BY <1>1 DEF Message
  <2> HIDE DEF m
  <2> QED BY <2>2, <2>3, <2>4, MessageMoves DEF Begun
<1> QED BY <1>2, <1>3, <1>4, <1>5

\* An abort makes no message appear, and what has begun or ended has still.
LEMMA SessionAborted ==
  ASSUME TypeOK, NEW r \in Runs, abortSession(r)
  PROVE  Moves
<1>1. messages \in [Runs -> [Turns -> Message]]
  BY DEF TypeOK
<1>2. CASE messages' = messages
  BY <1>1, <1>2 DEF Moves, Begun
<1>3. CASE messages' # messages
  <2> DEFINE stopped(m) == [m EXCEPT !.state = "cancelled", !.out = "none"]
             new == [i \in Turns |-> IF messages[r][i].state = "running"
                                       THEN stopped(messages[r][i]) ELSE messages[r][i]]
  <2>1. messages' = [messages EXCEPT ![r] = new]
    BY <1>3 DEF abortSession
  <2>2. \A m \in Message : stopped(m) \in Message /\ stopped(m).state = "cancelled"
    BY DEF Message, Outputs
  <2> HIDE DEF stopped
  <2>3. /\ new \in [Turns -> Message]
        /\ \A i \in Turns : new[i].state = IF messages[r][i].state = "running"
                                             THEN "cancelled" ELSE messages[r][i].state
    BY <1>1, <2>2
  <2> HIDE DEF new
  <2> QED BY <1>1, <2>1, <2>3 DEF Moves, Begun
<1> QED BY <1>2, <1>3

\* Only messages change, and they move.
LEMMA MovesGrow ==
  ASSUME IInv, Moves, UNCHANGED <<stored, created>>
  PROVE  Grows /\ KeysOK' /\ RunsOK' /\ ChainOK'
<1>1. /\ specs' = specs /\ intents' = intents /\ session' = session /\ turns' = turns
      /\ row' = row /\ created' = created
  BY DEF stored
<1>2. \A q, o, s : operationKeyTaken(q, o, s)' <=> operationKeyTaken(q, o, s)
  BY <1>1 DEF operationKeyTaken, operationsOf
<1>3. Grows
  BY <1>1, <1>2 DEF Grows, Moves
<1>4. KeysOK'
  BY <1>1, <1>2 DEF IInv, KeysOK
<1>5. RunsOK'
  <2>1. \A r \in Runs : RunWritten(r)
    BY <1>1 DEF RunWritten, Moves
  <2> QED BY <1>3, <2>1, RunsKept DEF IInv
<1>6. ChainOK'
  BY <1>1, <1>3, ChainKept DEF IInv
<1> QED BY <1>3, <1>4, <1>5, <1>6

\* Steps of the provider keep the invariant.
LEMMA ProviderSteps ==
  ASSUME IInv, ProviderStep
  PROVE  IInv'
<1>1. UNCHANGED <<stored, created>> /\ caller' = caller /\ recovery' = recovery
  BY DEF ProviderStep
<1>2. Moves
  BY ProviderMoves DEF ProviderStep, IInv
<1>3. Grows /\ KeysOK' /\ RunsOK' /\ ChainOK'
  BY <1>1, <1>2, MovesGrow
<1>4. /\ specs' = specs /\ intents' = intents /\ session' = session /\ turns' = turns
      /\ row' = row /\ created' = created
  BY <1>1 DEF stored
<1>5. ASSUME NEW d \in Callers PROVE CallerAside(d)
  <2>1. InFlight(d) => intentOf(run(d), opOf(d), seqOf(d), "committed") \in intents'
    BY <1>4 DEF IInv, CallersOK, CallerOK
  <2>2. at(d, "submitting") => messages'[run(d)][caller[d].seq].state = "absent"
    <3>1. HAVE at(d, "submitting")
    <3>2. run(d) \in Runs /\ caller[d].seq \in Turns /\ messages[run(d)][caller[d].seq].state = "absent"
      BY <3>1 DEF IInv, CallersOK, CallerOK, at, TypeOK
    <3> QED BY <1>2, <3>2 DEF Moves
  <2> QED BY <1>1, <1>4, <2>1, <2>2 DEF CallerAside
<1>6. CallersOK' /\ NoSharedCall'
  BY <1>3, <1>5, CallersKept DEF IInv
<1>7. TypeOK'
  BY <1>1, <1>2, <1>4 DEF IInv, TypeOK, Moves
<1> QED BY <1>3, <1>6, <1>7 DEF IInv

\* The observer asks the provider to stop the turn, or stops it after its answer.
LEMMA ObserverStops ==
  ASSUME IInv, NEW c \in Callers, cancelRun(c) \/ completedHygiene(c)
  PROVE  IInv'
<1>1. /\ caller[c].pc \in {"cancelling", "hygiene"} /\ abortSession(run(c))
      /\ UNCHANGED <<stored, created>> /\ recovery' = recovery
      /\ \/ at(c, "cancelling") /\ caller' = [caller EXCEPT ![c].pc = "awaiting"]
         \/ caller' = [caller EXCEPT ![c] = Idle]
  BY DEF cancelRun, completedHygiene, at, goto, return
<1>2. PICK r \in Runs : r = run(c)
  BY <1>1 DEF IInv, CallersOK, CallerOK, TypeOK, at
<1>3. Moves
  BY <1>1, <1>2, SessionAborted DEF IInv
<1>4. Grows /\ KeysOK' /\ RunsOK' /\ ChainOK'
  BY <1>1, <1>3, MovesGrow
<1>5. /\ specs' = specs /\ intents' = intents /\ session' = session /\ turns' = turns
      /\ row' = row /\ created' = created
  BY <1>1 DEF stored
<1>6. caller \in [Callers -> Caller]
  BY DEF IInv, TypeOK
<1>7. caller' \in [Callers -> Caller] /\ \A d \in Callers \ {c} : caller'[d] = caller[d]
  BY <1>1, <1>6, IdleType DEF Caller, Watching
<1>8. CallerOK(c)' /\ ~InFlight(c)'
  <2>1. CASE caller' = [caller EXCEPT ![c] = Idle]
    BY <1>6, <2>1, IdleCaller
  <2>2. CASE at(c, "cancelling") /\ caller' = [caller EXCEPT ![c].pc = "awaiting"]
    <3>1. PICK s : s = caller[c].seq
      OBVIOUS
    <3>2. /\ caller'[c].pc = "awaiting" /\ caller'[c].run = r /\ caller'[c].seq = s
          /\ caller'[c].why = caller[c].why
      BY <1>2, <1>6, <2>2, <3>1 DEF Caller, run
    <3>3. /\ row[r].status # "none" /\ row[r].msg = s /\ r \in specs /\ s \in Turns
          /\ caller[c].why # "none" /\ (Alone(r, s) => Begun(r, s))
      <4>1. CallerOK(c) /\ RunOK(r)
        BY DEF IInv, CallersOK, RunsOK
      <4>2. row[r].status # "none" /\ row[r].msg = s /\ r \in specs /\ caller[c].why # "none"
            /\ (Alone(r, s) => Begun(r, s))
        BY <1>2, <2>2, <3>1, <4>1 DEF CallerOK, at, Watching
      <4>3. s \in turns[r]
        BY <4>1, <4>2 DEF RunOK
      <4> QED BY <4>2, <4>3 DEF IInv, TypeOK
    <3>4. Alone(r, s)' => Begun(r, s)'
      BY <1>4, <3>3 DEF Grows, Alone
    <3> QED BY <1>5, <3>2, <3>3, <3>4 DEF CallerOK, at, run, InFlight, InCall, Watching
  <2> QED BY <1>1, <2>1, <2>2
<1>9. StepOf(c)
  <2>1. \A q \in Runs, i \in Turns : messages[q][i].state = "absent" => messages'[q][i].state = "absent"
    BY <1>3 DEF Moves
  <2> QED BY <1>5, <1>7, <1>8, <2>1 DEF StepOf
<1>10. CallersOK' /\ NoSharedCall'
  BY <1>4, <1>8, <1>9, OthersKept DEF IInv
<1>11. TypeOK'
  BY <1>1, <1>3, <1>5, <1>7 DEF IInv, TypeOK, Moves
<1> QED BY <1>4, <1>10, <1>11 DEF IInv

----------------------------------------------------------------------------
(* The observers write the row.                                            *)

\* A caller that watches a run watches a prepared one whose row holds the turn it submitted.
LEMMA WatchedRun ==
  ASSUME IInv, NEW c \in Callers, caller[c].pc \in Watching
  PROVE  \E r \in Runs, s \in Turns :
           /\ r = run(c) /\ s = caller[c].seq /\ r \in specs
           /\ row[r].status # "none" /\ row[r].msg = s
<1>1. CallerOK(c) /\ caller[c].pc # "idle"
  BY DEF IInv, CallersOK, Watching
<1>2. /\ run(c) \in specs /\ row[run(c)].status # "none" /\ row[run(c)].msg = caller[c].seq
  BY <1>1 DEF CallerOK, at
<1>3. run(c) \in Runs /\ row[run(c)].msg \in Turns
  BY <1>2 DEF IInv, TypeOK, RunsOK, RunOK
<1> QED BY <1>2, <1>3

\* The row of one run is the only one written, and only while it says observing.
RowStep(r) ==
  /\ row' \in [Runs -> Row]
  /\ \A q \in Runs \ {r} : row'[q] = row[q]
  /\ row'[r] = row[r] \/ RowWritten(r)

\* Finishing a run writes its row as RowStep allows, if what is finished was observed.
LEMMA RowFinished ==
  ASSUME TypeOK, NEW r \in Runs, NEW st \in TerminalStatus, NEW observation,
         NEW s, s = row[r].msg, observation.tool \in BOOLEAN, observation.out \in Outputs,
         finishGatewayRun(r, st, observation),
         st = "completed" => observation.out = "valid" /\ ~observation.tool,
         st \in {"timedOut", "policyBlocked"} /\ Alone(r, s)
           => Begun(r, s)' /\ messages'[r][s].state # "running"
  PROVE  RowStep(r)
<1>1. CASE isRunObserving(r)
  <2> DEFINE out == IF st = "completed" THEN observation.out ELSE "none"
  <2>1. out \in Outputs
    BY DEF Outputs
  <2>2. PICK x \in Row : x = row[r]
    BY DEF TypeOK
  <2> DEFINE new == [x EXCEPT !.status = st, !.tool = observation.tool, !.out = out]
  <2>3. row' = [row EXCEPT ![r] = new]
    BY <1>1, <2>2 DEF finishGatewayRun, runStatusScope
  <2>4. new \in Row /\ new.msg = x.msg /\ new.status = st /\ new.out = out /\ new.tool = observation.tool
    <3> HIDE DEF out
    <3> QED BY <2>1 DEF Row
  <2> HIDE DEF new
  <2>5. /\ row' \in [Runs -> Row] /\ row'[r] = new
        /\ \A q \in Runs \ {r} : row'[q] = row[q]
    BY <2>3, <2>4 DEF TypeOK
  <2>6. row'[r].msg = row[r].msg /\ row'[r].status = st /\ row'[r].tool = observation.tool
        /\ (st = "completed" => row'[r].out = observation.out)
    BY <2>2, <2>4, <2>5
  <2>7. RowWritten(r)
    BY <1>1, <2>6 DEF RowWritten
  <2> QED BY <2>5, <2>7 DEF RowStep
<1>2. CASE ~isRunObserving(r)
  BY <1>2 DEF finishGatewayRun, runStatusScope, RowStep, TypeOK
<1> QED BY <1>1, <1>2

\* Recording an observation writes the row as RowStep allows.
LEMMA RowRecorded ==
  ASSUME TypeOK, NEW r \in Runs, NEW observation, observation.tool \in BOOLEAN,
         recordGatewayObservation(r, observation)
  PROVE  RowStep(r)
<1>1. CASE isRunObserving(r)
  <2>1. row' = [row EXCEPT ![r].tool = observation.tool] /\ row[r].status = "observing"
    BY <1>1 DEF recordGatewayObservation, runStatusScope, isRunObserving
  <2>2. /\ row' \in [Runs -> Row] /\ row'[r].msg = row[r].msg /\ row'[r].status = row[r].status
        /\ row'[r].tool = observation.tool
        /\ \A q \in Runs \ {r} : row'[q] = row[q]
    <3> DEFINE new == [row[r] EXCEPT !.tool = observation.tool]
    <3>1. row \in [Runs -> Row] /\ row[r] \in Row
      BY DEF TypeOK
    <3>2. row' = [row EXCEPT ![r] = new]
      BY <2>1, <3>1
    <3>3. new \in Row /\ new.msg = row[r].msg /\ new.status = row[r].status /\ new.tool = observation.tool
      BY <3>1 DEF Row
    <3> HIDE DEF new
    <3> QED BY <3>1, <3>2, <3>3
  <2>3. RowWritten(r)
    BY <1>1, <2>1, <2>2 DEF RowWritten
  <2> QED BY <2>2, <2>3 DEF RowStep
<1>2. CASE ~isRunObserving(r)
  BY <1>2 DEF recordGatewayObservation, runStatusScope, RowStep, TypeOK
<1> QED BY <1>1, <1>2

\* Failing an observed run writes the row as RowStep allows.
LEMMA RowFailed ==
  ASSUME TypeOK, NEW r \in Runs, NEW st \in {"failed", "cancelled"},
         row' = IF isRunObserving(r) THEN [row EXCEPT ![r].status = st] ELSE row
  PROVE  RowStep(r)
<1>1. CASE isRunObserving(r)
  <2>1. row' = [row EXCEPT ![r].status = st]
    BY <1>1
  <2>2. /\ row' \in [Runs -> Row] /\ row'[r].msg = row[r].msg /\ row'[r].status = st
        /\ \A q \in Runs \ {r} : row'[q] = row[q]
    <3>1. PICK x \in Row : x = row[r]
      BY DEF TypeOK
    <3> DEFINE new == [x EXCEPT !.status = st]
    <3>2. new \in Row /\ new.msg = x.msg /\ new.status = st
      BY DEF Row, TerminalStatus
    <3>3. row' = [row EXCEPT ![r] = new]
      BY <2>1, <3>1
    <3> HIDE DEF new
    <3> QED BY <3>1, <3>2, <3>3 DEF TypeOK
  <2>3. RowWritten(r)
    BY <1>1, <2>2 DEF RowWritten, TerminalStatus
  <2> QED BY <2>2, <2>3 DEF RowStep
<1>2. CASE ~isRunObserving(r)
  BY <1>2 DEF RowStep, TypeOK
<1> QED BY <1>1, <1>2

\* What follows when nothing else is stored and messages only move.
LEMMA RowGrows ==
  ASSUME IInv, NEW r \in Runs, RowStep(r), UNCHANGED <<specs, intents, session, turns, created>>,
         Moves
  PROVE  Grows /\ KeysOK' /\ RunsOK' /\ ChainOK'
<1>1. \A q, o, s : operationKeyTaken(q, o, s)' <=> operationKeyTaken(q, o, s)
  BY DEF operationKeyTaken, operationsOf
<1>2. \A q \in Runs : /\ row[q].status # "none" => row'[q].status # "none" /\ row'[q].msg = row[q].msg
                      /\ terminal(q) => row'[q] = row[q]
  BY DEF RowStep, RowWritten, isRunObserving, terminal, TerminalStatus
<1>3. Grows
  BY <1>1, <1>2 DEF Grows, Moves
<1>4. KeysOK'
  BY <1>1 DEF IInv, KeysOK
<1>5. RunsOK'
  <2>1. \A q \in Runs : RunWritten(q)
    BY DEF RunWritten, Moves, RowStep
  <2> QED BY <1>3, <2>1, RunsKept DEF IInv
<1>6. ChainOK'
  BY <1>3, ChainKept DEF IInv
<1> QED BY <1>3, <1>4, <1>5, <1>6

\* Messages that do not change are a case of Moves.
LEMMA MessagesStay ==
  ASSUME TypeOK, UNCHANGED messages
  PROVE  Moves
BY DEF TypeOK, Moves, Begun

\* An observer writes its row and goes on or stops.
LEMMA ObserverWrites ==
  ASSUME IInv, NEW c \in Callers, NEW r \in Runs, r = run(c), RowStep(r),
         UNCHANGED <<specs, intents, session, turns, provider, recovery>>,
         caller' \in [Callers -> Caller], \A d \in Callers \ {c} : caller'[d] = caller[d],
         CallerOK(c)', ~InFlight(c)'
  PROVE  IInv'
<1>1. /\ specs' = specs /\ intents' = intents /\ session' = session /\ turns' = turns
      /\ created' = created /\ messages' = messages /\ recovery' = recovery
  BY DEF provider
<1>2. Grows /\ KeysOK' /\ RunsOK' /\ ChainOK'
  <2>1. Moves
    BY <1>1, MessagesStay DEF IInv
  <2> QED BY <1>1, <2>1, RowGrows
<1>3. StepOf(c)
  BY <1>1 DEF StepOf
<1>4. CallersOK' /\ NoSharedCall'
  BY <1>2, <1>3, OthersKept DEF IInv
<1>5. TypeOK'
  BY <1>1 DEF IInv, TypeOK, RowStep
<1> QED BY <1>2, <1>4, <1>5 DEF IInv

\* Whatever is thrown while the turn is observed.
LEMMA ObserverFails ==
  ASSUME IInv, NEW c \in Callers, failObservingRun(c)
  PROVE  IInv'
<1>1. /\ caller[c].pc \in Watching /\ failGatewayRun(run(c)) /\ caller' = [caller EXCEPT ![c] = Idle]
      /\ UNCHANGED <<specs, intents, session, turns, provider, recovery>>
  BY DEF failObservingRun, throw, return, Watching
<1>2. PICK r \in Runs : r = run(c)
  BY <1>1, WatchedRun
<1>3. RowStep(r)
  <2>1. row' = IF isRunObserving(r) THEN [row EXCEPT ![r].status = "failed"] ELSE row
    BY <1>1, <1>2 DEF failGatewayRun, runStatusScope
  <2>2. PICK st \in {"failed", "cancelled"} : st = "failed"
    OBVIOUS
  <2> QED BY <2>1, <2>2, RowFailed DEF IInv
<1>4. /\ caller' \in [Callers -> Caller] /\ \A d \in Callers \ {c} : caller'[d] = caller[d]
      /\ caller'[c] = Idle
  BY <1>1, IdleType DEF IInv, TypeOK
<1>5. CallerOK(c)' /\ ~InFlight(c)'
  BY <1>4, IdleCaller
<1> QED BY <1>1, <1>2, <1>3, <1>4, <1>5, ObserverWrites

\* After a reading the observer goes on, stops the turn, tidies up or returns.
LEMMA LoopEnds ==
  ASSUME IInv, NEW c \in Callers, NEW r \in Runs, NEW s \in Turns, NEW why \in {"policy", "timeout"},
         r = run(c), s = caller[c].seq, r \in specs, row[r].status # "none", row[r].msg = s,
         RowStep(r), UNCHANGED <<specs, intents, session, turns, provider, recovery>>,
         \/ caller' = [caller EXCEPT ![c] = Idle]
         \/ caller' = [caller EXCEPT ![c].pc = "hygiene"]
         \/ /\ stopFor(c, why) /\ (Alone(r, s) => Begun(r, s))
         \/ caller' = [caller EXCEPT ![c].pc = "observing", ![c].seen = NoReading]
  PROVE  IInv'
<1>1. caller \in [Callers -> Caller]
  BY DEF IInv, TypeOK
<1>2. row'[r].status # "none" /\ row'[r].msg = s /\ UNCHANGED <<specs, intents, messages>>
  BY DEF RowStep, RowWritten, TerminalStatus, provider
<1>3. CASE caller' = [caller EXCEPT ![c] = Idle]
  <2>1. /\ caller' \in [Callers -> Caller] /\ \A d \in Callers \ {c} : caller'[d] = caller[d]
        /\ caller'[c] = Idle
    BY <1>1, <1>3, IdleType
  <2> QED BY <2>1, IdleCaller, ObserverWrites
<1>4. CASE caller' = [caller EXCEPT ![c].pc = "hygiene"]
  <2>1. /\ caller' \in [Callers -> Caller] /\ \A d \in Callers \ {c} : caller'[d] = caller[d]
        /\ caller'[c].pc = "hygiene" /\ caller'[c].run = r
    BY <1>1, <1>4 DEF Caller, run
  <2>2. CallerOK(c)' /\ ~InFlight(c)'
    BY <1>2, <2>1 DEF CallerOK, at, run, InFlight, InCall, Watching
  <2> QED BY <2>1, <2>2, ObserverWrites
<1>5. PICK blank \in Reading : blank = NoReading
  BY DEF NoReading, Reading, Outputs
<1>6. CASE stopFor(c, why) /\ (Alone(r, s) => Begun(r, s))
  <2>1. caller' = [caller EXCEPT ![c].pc = "cancelling", ![c].why = why, ![c].seen = blank]
    BY <1>5, <1>6 DEF stopFor
  <2>2. /\ caller' \in [Callers -> Caller] /\ \A d \in Callers \ {c} : caller'[d] = caller[d]
        /\ caller'[c].pc = "cancelling" /\ caller'[c].run = r /\ caller'[c].seq = s
        /\ caller'[c].why = why
    <3>1. PICK m \in Caller : m = caller[c]
      BY <1>1
    <3> DEFINE new == [m EXCEPT !.pc = "cancelling", !.why = why, !.seen = blank]
    <3>2. new \in Caller /\ new.pc = "cancelling" /\ new.run = m.run /\ new.seq = m.seq /\ new.why = why
      BY DEF Caller, Watching
    <3>3. caller' = [caller EXCEPT ![c] = new]
      BY <2>1, <3>1
    <3> HIDE DEF new
    <3> QED BY <1>1, <3>1, <3>2, <3>3 DEF run
  <2>3. Alone(r, s)' => Begun(r, s)'
    BY <1>2, <1>6 DEF Alone, Begun, operationKeyTaken, operationsOf
  <2>4. CallerOK(c)' /\ ~InFlight(c)'
    BY <1>2, <2>2, <2>3 DEF CallerOK, at, run, InFlight, InCall, Watching
  <2> QED BY <2>2, <2>4, ObserverWrites
<1>7. CASE caller' = [caller EXCEPT ![c].pc = "observing", ![c].seen = NoReading]
  <2>1. caller' = [caller EXCEPT ![c].pc = "observing", ![c].seen = blank]
    BY <1>5, <1>7
  <2>2. /\ caller' \in [Callers -> Caller] /\ \A d \in Callers \ {c} : caller'[d] = caller[d]
        /\ caller'[c].pc = "observing" /\ caller'[c].run = r /\ caller'[c].seq = s
    <3>1. PICK m \in Caller : m = caller[c]
      BY <1>1
    <3> DEFINE new == [m EXCEPT !.pc = "observing", !.seen = blank]
    <3>2. new \in Caller /\ new.pc = "observing" /\ new.run = m.run /\ new.seq = m.seq
      BY DEF Caller, Watching
    <3>3. caller' = [caller EXCEPT ![c] = new]
      BY <2>1, <3>1
    <3> HIDE DEF new
    <3> QED BY <1>1, <3>1, <3>2, <3>3 DEF run
  <2>3. CallerOK(c)' /\ ~InFlight(c)'
    BY <1>2, <2>2 DEF CallerOK, at, run, InFlight, InCall, Watching
  <2> QED BY <2>2, <2>3, ObserverWrites
<1> QED BY <1>3, <1>4, <1>6, <1>7

\* One turn of the observation loop, or the ceiling that ends it, keeps the invariant.
LEMMA ObserverLoops ==
  ASSUME IInv, NEW c \in Callers, runObservationLoop(c) \/ ceilingPassed(c)
  PROVE  IInv'
<1>1. at(c, "reading") /\ UNCHANGED <<specs, intents, session, turns, provider, recovery>>
  BY DEF runObservationLoop, ceilingPassed
<1>2. PICK r \in Runs, s \in Turns : /\ r = run(c) /\ s = caller[c].seq /\ r \in specs
                                     /\ row[r].status # "none" /\ row[r].msg = s
  BY <1>1, WatchedRun DEF at, Watching
<1>3. PICK reading \in Reading, b \in BOOLEAN : reading = caller[c].seen /\ b = busy(r)
  <2>1. caller[c].seen \in Reading
    BY DEF IInv, TypeOK, Caller
  <2>2. busy(r) \in BOOLEAN
    BY DEF busy
  <2> QED BY <2>1, <2>2
<1>4. PICK o : o = Observation(c)
  OBVIOUS
<1>5. /\ o.state \in {"running", "unknown", "completed", "cancelled"} /\ o.tool \in BOOLEAN
      /\ o.out \in Outputs /\ (o.state = "running" <=> busy(r)) /\ o.tool = caller[c].seen.tool
  <2>1. o = toObservation(b, reading)
    BY <1>2, <1>3, <1>4 DEF Observation
  <2> QED BY <1>3, <2>1, ObservationOfReading DEF ObservationType
<1>6. o.tool => Begun(r, s)
  BY <1>1, <1>2, <1>5 DEF IInv, CallersOK, CallerOK
<1>7. o.state = "running" /\ Alone(r, s) => Begun(r, s)
  BY <1>5, BusyWithSubmitted DEF IInv
<1>8. CASE enforceToolPolicy(c, o)
  <2>1. /\ recordGatewayObservation(r, o) /\ stopFor(c, "policy") /\ Begun(r, s)
    BY <1>2, <1>6, <1>8 DEF enforceToolPolicy, prohibited
  <2>2. RowStep(r)
    BY <1>5, <2>1, RowRecorded DEF IInv
  <2> QED BY <1>1, <1>2, <2>1, <2>2, LoopEnds
<1>9. CASE enforceProgressTimeout(c, o) \/ enforceRunDurationCeiling(c, o)
  <2>1. /\ recordGatewayObservation(r, o) /\ stopFor(c, "timeout") /\ o.state = "running"
    BY <1>2, <1>9 DEF enforceProgressTimeout, enforceRunDurationCeiling, stillRunning
  <2>2. RowStep(r)
    BY <1>5, <2>1, RowRecorded DEF IInv
  <2> QED BY <1>1, <1>2, <1>7, <2>1, <2>2, LoopEnds
<1>10. CASE sleep(c, o)
  <2>1. /\ recordGatewayObservation(r, o)
        /\ caller' = [caller EXCEPT ![c].pc = "observing", ![c].seen = NoReading]
    BY <1>2, <1>10 DEF sleep
  <2>2. RowStep(r)
    BY <1>5, <2>1, RowRecorded DEF IInv
  <2> QED BY <1>1, <1>2, <2>1, <2>2, LoopEnds
<1>11. CASE handleTerminal(c, o) /\ ~prohibited(o)
  <2>1. caller' = [caller EXCEPT ![c] = Idle] /\ o.state # "running" /\ ~o.tool
    BY <1>11 DEF handleTerminal, return, prohibited
  <2>2. PICK st \in {"completed", "outputInvalid", "failed", "cancelled"} :
           finishGatewayRun(r, st, o) /\ (st = "completed" => o.out = "valid")
    <3>1. CASE o.state = "completed"
      BY <1>2, <1>11, <3>1 DEF handleTerminal, validateCompletion, finishRun
    <3>2. CASE o.state # "completed"
      <4>1. finishGatewayRun(r, terminalStatusOf(o.state), o)
        BY <1>2, <1>11, <3>2 DEF handleTerminal, finishRun
      <4>2. terminalStatusOf(o.state) \in {"failed", "cancelled"}
        BY <1>5, <2>1, <3>2 DEF terminalStatusOf
      <4> QED BY <4>1, <4>2
    <3> QED BY <3>1, <3>2
  <2>3. RowStep(r)
    <3>1. st \in TerminalStatus /\ st \notin {"timedOut", "policyBlocked"}
      BY DEF TerminalStatus
    <3> QED BY <1>5, <2>1, <2>2, <3>1, RowFinished DEF IInv
  <2> QED BY <1>1, <1>2, <2>1, <2>3, LoopEnds
<1>12. CASE completeFromCandidate(c, o) /\ ~prohibited(o)
  <2>1. /\ caller' = [caller EXCEPT ![c].pc = "hygiene"] /\ ~o.tool /\ o.out = "valid"
        /\ finishGatewayRun(r, "completed", o)
    BY <1>2, <1>12 DEF completeFromCandidate, finishRun, goto, prohibited
  <2>2. RowStep(r)
    <3>1. PICK st \in TerminalStatus : st = "completed"
      BY DEF TerminalStatus
    <3> QED BY <1>5, <2>1, <3>1, RowFinished DEF IInv
  <2> QED BY <1>1, <1>2, <2>1, <2>2, LoopEnds
<1> QED
  BY <1>4, <1>8, <1>9, <1>10, <1>11, <1>12 DEF runObservationLoop, ceilingPassed, observed

\* The wait for the stop is over: only a session seen idle is said to be stopped.
LEMMA StopIsAwaited ==
  ASSUME IInv, NEW c \in Callers, cancelAndAwait(c)
  PROVE  IInv'
<1>1. /\ at(c, "awaiting") /\ caller' = [caller EXCEPT ![c] = Idle]
      /\ UNCHANGED <<specs, intents, session, turns, provider, recovery>>
  BY DEF cancelAndAwait, throw, return
<1>2. PICK r \in Runs, s \in Turns : /\ r = run(c) /\ s = caller[c].seq /\ r \in specs
                                     /\ row[r].status # "none" /\ row[r].msg = s
  BY <1>1, WatchedRun DEF at, Watching
<1>3. PICK reading \in Reading, b \in BOOLEAN : reading = read(r, s) /\ b = busy(r)
  <2>1. read(r, s) \in Reading
    BY ReadingOfTurn DEF IInv
  <2>2. busy(r) \in BOOLEAN
    BY DEF busy
  <2> QED BY <2>1, <2>2
<1>4. PICK o : o = toObservation(b, reading)
  OBVIOUS
<1>5. o.tool \in BOOLEAN /\ o.out \in Outputs /\ (o.state = "running" <=> busy(r))
  BY <1>3, <1>4, ObservationOfReading DEF ObservationType
<1>6. finishGatewayRun(r, stoppedStatus(c, o), o)
  BY <1>2, <1>3, <1>4 DEF cancelAndAwait, finishRun
<1>7. caller[c].why \in {"policy", "timeout"} /\ (Alone(r, s) => Begun(r, s))
  <2>1. caller[c].why \in {"none", "policy", "timeout"}
    BY DEF IInv, TypeOK, Caller
  <2> QED BY <1>1, <1>2, <2>1 DEF IInv, CallersOK, CallerOK, at
<1>8. PICK st \in {"failed", "timedOut", "policyBlocked"} :
        st = stoppedStatus(c, o) /\ (st # "failed" => ~busy(r))
  <2>1. CASE o.state = "running"
    <3>1. stoppedStatus(c, o) = "failed"
      BY <1>7, <2>1 DEF stoppedStatus, confirmed
    <3> QED BY <3>1
  <2>2. CASE o.state # "running"
    <3>1. stoppedStatus(c, o) \in {"timedOut", "policyBlocked"}
      BY <1>7, <2>2 DEF stoppedStatus, confirmed
    <3> QED BY <1>5, <2>2, <3>1
  <2> QED BY <2>1, <2>2
<1>9. st # "failed" /\ Alone(r, s) => Begun(r, s)' /\ messages'[r][s].state # "running"
  BY <1>1, <1>7, <1>8 DEF busy, Begun, provider
<1>10. RowStep(r)
  <2>1. st \in TerminalStatus /\ st # "completed"
    BY DEF TerminalStatus
  <2> QED BY <1>2, <1>5, <1>6, <1>8, <1>9, <2>1, RowFinished DEF IInv
<1> QED BY <1>1, <1>2, <1>10, LoopEnds

----------------------------------------------------------------------------
(* A turn is accepted and its observation begins.                          *)

\* The run whose turn s is accepted, or was, and whose row is created for it if
\* there is none.
LEMMA TurnAcceptedRun ==
  ASSUME TypeOK, Grows, NEW r \in Runs, NEW s \in Turns, RunOK(r), session[r], r \in specs,
         UNCHANGED <<session[r], created[r]>>, turns'[r] = turns[r] \cup {s},
         UNCHANGED messages, intentOf(r, "submitTurn", s, "consumed") \in intents',
         \/ row'[r] = row[r]
         \/ /\ row[r].status = "none"
            /\ row'[r] = [status |-> "observing", msg |-> s, tool |-> FALSE, out |-> "none"]
  PROVE  RunOK(r)'
<1>1. /\ session'[r] => created'[r] = 1 /\ intentOf(r, "createSession", None, "consumed") \in intents'
      /\ created'[r] = 1 => operationKeyTaken(r, "createSession", None)'
      /\ turns'[r] # {} => session'[r]
      /\ \A i \in turns'[r] : intentOf(r, "submitTurn", i, "consumed") \in intents'
      /\ \A i \in Turns : messages'[r][i].state # "absent" => operationKeyTaken(r, "submitTurn", i)'
  BY DEF RunOK, Grows
<1>2. r \in specs'
  BY DEF Grows
<1>3. CASE row'[r] = row[r]
  <2>1. PICK t : t = row[r].msg /\ t = row'[r].msg
    BY <1>3
  <2>2. row[r].status \in {"timedOut", "policyBlocked"} /\ Alone(r, t)
          => Begun(r, t) /\ messages[r][t].state # "running"
    BY <2>1 DEF RunOK
  <2>3. Alone(r, t)' => Alone(r, t)
    BY DEF Alone, Grows
  <2>4. row'[r].status \in {"timedOut", "policyBlocked"} /\ Alone(r, t)'
          => Begun(r, t)' /\ messages'[r][t].state # "running"
    BY <1>3, <2>2, <2>3 DEF Begun
  <2>5. /\ row'[r].status # "none" => t \in turns'[r]
        /\ row'[r].status = "none" <=> row'[r] = NoRow
        /\ row'[r].status = "completed" => row'[r].out = "valid" /\ ~row'[r].tool
    BY <1>3, <2>1 DEF RunOK
  <2> QED BY <1>1, <1>2, <2>1, <2>4, <2>5 DEF RunOK
<1>4. CASE row'[r] = [status |-> "observing", msg |-> s, tool |-> FALSE, out |-> "none"]
  <2>1. row'[r].status = "observing" /\ row'[r].msg = s /\ row'[r] # NoRow
    BY <1>4 DEF NoRow
  <2> QED BY <1>1, <1>2, <2>1 DEF RunOK
<1> QED BY <1>3, <1>4

\* observeTurnToCompletion begins, resumes or refuses the observation.
LEMMA ObservationBegins ==
  ASSUME TypeOK, NEW c \in Callers, NEW r \in Runs, NEW s \in Turns, r = run(c), r \in specs,
         RunOK(r), observeTurnToCompletion(c, r, s), UNCHANGED specs
  PROVE  /\ row' \in [Runs -> Row] /\ \A q \in Runs \ {r} : row'[q] = row[q]
         /\ \/ row'[r] = row[r]
            \/ /\ row[r].status = "none"
               /\ row'[r] = [status |-> "observing", msg |-> s, tool |-> FALSE, out |-> "none"]
         /\ caller' \in [Callers -> Caller] /\ \A d \in Callers \ {c} : caller'[d] = caller[d]
         /\ CallerOK(c)' /\ ~InFlight(c)'
<1>1. caller \in [Callers -> Caller] /\ row \in [Runs -> Row]
  BY DEF TypeOK
<1> DEFINE fresh == [status |-> "observing", msg |-> s, tool |-> FALSE, out |-> "none"]
<1>2. CASE caller' = [caller EXCEPT ![c] = Idle] /\ row' = row
  <2>1. /\ caller' \in [Callers -> Caller] /\ \A d \in Callers \ {c} : caller'[d] = caller[d]
        /\ caller'[c] = Idle
    BY <1>1, <1>2, IdleType
  <2>2. CallerOK(c)' /\ ~InFlight(c)'
    BY <2>1, IdleCaller
  <2> QED BY <1>1, <1>2, <2>1, <2>2
<1>3. CASE /\ caller' = [caller EXCEPT ![c].pc = "observing", ![c].seq = s]
           /\ \/ row' = row /\ row[r] # NoRow /\ row[r].msg = s
              \/ row' = [row EXCEPT ![r] = fresh] /\ row[r] = NoRow
  <2>1. fresh \in Row /\ fresh.status = "observing" /\ fresh.msg = s
    BY GatewayAssumption DEF Row, Outputs, Turns
  <2>2. /\ row' \in [Runs -> Row] /\ \A q \in Runs \ {r} : row'[q] = row[q]
        /\ \/ row'[r] = row[r] /\ row[r] # NoRow /\ row[r].msg = s
           \/ row'[r] = fresh /\ row[r] = NoRow
    <3> HIDE DEF fresh
    <3> QED BY <1>1, <1>3, <2>1
  <2>3. row[r] = NoRow <=> row[r].status = "none"
    BY DEF RunOK
  <2>4. row'[r].status # "none" /\ row'[r].msg = s
    BY <2>1, <2>2, <2>3
  <2>5. /\ caller' \in [Callers -> Caller] /\ \A d \in Callers \ {c} : caller'[d] = caller[d]
        /\ caller'[c].pc = "observing" /\ caller'[c].run = r /\ caller'[c].seq = s
    <3>1. PICK m \in Caller : m = caller[c]
      BY <1>1
    <3>2. s \in 0..MaxTurns
      BY GatewayAssumption DEF Turns
    <3> DEFINE new == [m EXCEPT !.pc = "observing", !.seq = s]
    <3>3. new \in Caller /\ new.pc = "observing" /\ new.run = m.run /\ new.seq = s
      BY <3>2 DEF Caller, Watching
    <3>4. caller' = [caller EXCEPT ![c] = new]
      BY <1>3, <3>1
    <3> HIDE DEF new
    <3> QED BY <1>1, <3>1, <3>3, <3>4 DEF run
  <2>6. CallerOK(c)' /\ ~InFlight(c)'
    BY <2>4, <2>5 DEF CallerOK, at, run, InFlight, InCall, Watching
  <2> HIDE DEF fresh
  <2> QED BY <2>2, <2>3, <2>5, <2>6 DEF fresh
<1>4. CASE durableCompletion(r)
  BY <1>2, <1>4 DEF observeTurnToCompletion, return
<1>5. CASE ~durableCompletion(r)
  <2>1. beginOrResumeObservation(c, r, s)
    BY <1>5 DEF observeTurnToCompletion
  <2>2. CASE row[r] = NoRow
    BY <1>3, <2>1, <2>2 DEF beginOrResumeObservation, createObservingGatewayRun
  <2>3. CASE row[r] # NoRow /\ row[r].msg = s
    BY <1>3, <2>1, <2>3 DEF beginOrResumeObservation
  <2>4. CASE row[r] # NoRow /\ row[r].msg # s
    BY <1>2, <2>1, <2>4 DEF beginOrResumeObservation, throw, return
  <2> QED BY <2>2, <2>3, <2>4
<1> QED BY <1>4, <1>5

----------------------------------------------------------------------------
(* Operations are committed before the adapter is called.                  *)

\* A new operation of a caller: its key was free, and so nothing of it has happened.
LEMMA OperationBegins ==
  ASSUME IInv, NEW c \in Callers, NEW r \in Runs, NEW op \in {"createSession", "submitTurn"}, NEW seq,
         FreeKey(r, op, seq), commitIntent(r, op, seq), ~InFlight(c), r = run(c), r \in specs,
         \/ /\ op = "createSession"
            /\ caller' = [caller EXCEPT ![c].pc = "creating"]
         \/ /\ op = "submitTurn" /\ seq \in Turns /\ session[r]
            /\ caller' = [caller EXCEPT ![c].pc = "submitting", ![c].seq = seq],
         UNCHANGED <<specs, session, turns, row, provider, recovery>>
  PROVE  IInv'
<1>1. /\ specs' = specs /\ session' = session /\ turns' = turns /\ row' = row
      /\ created' = created /\ messages' = messages /\ recovery' = recovery
  BY DEF provider
<1>2. /\ intents' \subseteq Intent /\ KeysOK' /\ intents \subseteq intents'
      /\ intentOf(r, op, seq, "committed") \in intents' /\ ~operationKeyTaken(r, op, seq)
      /\ \A q, o, s : operationKeyTaken(q, o, s)' <=>
            operationKeyTaken(q, o, s) \/ (q = r /\ o = op /\ s = seq)
  <2>1. TypeOK /\ KeysOK
    BY DEF IInv
  <2> QED BY <2>1, IntentCommitted
<1>3. Grows
  BY <1>1, <1>2 DEF Grows, Begun
<1>4. RunsOK'
  <2>1. \A q \in Runs : RunWritten(q)
    BY <1>1 DEF RunWritten
  <2> QED BY <1>3, <2>1, RunsKept DEF IInv
<1>5. ChainOK'
  BY <1>1, <1>3, ChainKept DEF IInv
<1>6. caller \in [Callers -> Caller] /\ RunOK(r)
  BY DEF IInv, TypeOK, RunsOK
<1>7. /\ caller' \in [Callers -> Caller] /\ \A d \in Callers \ {c} : caller'[d] = caller[d]
      /\ CallerOK(c)' /\ run(c)' = r /\ opOf(c)' = op /\ seqOf(c)' = seq
  <2>1. CASE op = "createSession" /\ caller' = [caller EXCEPT ![c].pc = "creating"]
    <3>1. /\ caller' \in [Callers -> Caller] /\ \A d \in Callers \ {c} : caller'[d] = caller[d]
          /\ caller'[c].pc = "creating" /\ caller'[c].run = r
      BY <1>6, <2>1 DEF Caller, InCall, run
    <3>2. seq = None /\ created[r] = 0
      <4>1. seq = None
        BY <2>1 DEF FreeKey
      <4>2. created[r] # 1 /\ created[r] \in {0, 1}
        BY <1>2, <1>6, <2>1, <4>1 DEF RunOK, IInv, TypeOK
      <4> QED BY <4>1, <4>2
    <3>3. CallerOK(c)'
      BY <1>1, <1>2, <2>1, <3>1, <3>2 DEF CallerOK, at, run, InFlight, InCall, Watching, opOf, seqOf
    <3> QED BY <2>1, <3>1, <3>2, <3>3 DEF run, opOf, seqOf
  <2>2. CASE op = "submitTurn" /\ seq \in Turns /\ session[r]
               /\ caller' = [caller EXCEPT ![c].pc = "submitting", ![c].seq = seq]
    <3>1. /\ caller' \in [Callers -> Caller] /\ \A d \in Callers \ {c} : caller'[d] = caller[d]
          /\ caller'[c].pc = "submitting" /\ caller'[c].run = r /\ caller'[c].seq = seq
      <4>1. PICK m \in Caller : m = caller[c]
        BY <1>6
      <4>2. seq \in 0..MaxTurns
        BY <2>2, GatewayAssumption DEF Turns
      <4> DEFINE new == [m EXCEPT !.pc = "submitting", !.seq = seq]
      <4>3. new \in Caller /\ new.pc = "submitting" /\ new.run = m.run /\ new.seq = seq
        BY <4>2 DEF Caller, InCall
      <4>4. caller' = [caller EXCEPT ![c] = new]
        BY <2>2, <4>1
      <4> HIDE DEF new
      <4> QED BY <1>6, <4>1, <4>3, <4>4 DEF run
    <3>2. messages[r][seq].state = "absent"
      BY <1>2, <1>6, <2>2 DEF RunOK
    <3>3. CallerOK(c)'
      BY <1>1, <1>2, <2>2, <3>1, <3>2 DEF CallerOK, at, run, InFlight, InCall, Watching, opOf, seqOf
    <3> QED BY <2>2, <3>1, <3>3 DEF run, opOf, seqOf
  <2> QED BY <2>1, <2>2
<1>8. StepOf(c)
  BY <1>1, <1>2, <1>7 DEF StepOf
<1>9. CallersOK' /\ NoSharedCall'
  BY <1>3, <1>7, <1>8, OthersKept DEF IInv
<1>10. TypeOK'
  BY <1>1, <1>2, <1>7 DEF IInv, TypeOK
<1> QED BY <1>2, <1>4, <1>5, <1>9, <1>10 DEF IInv

\* With a session: the accepted turn is observed, or a first one is submitted.
LEMMA TurnEnsured ==
  ASSUME IInv, NEW c \in Callers, NEW r \in Runs, r = run(c), r \in specs, session[r], ~InFlight(c),
         ensureTurn(c, r), UNCHANGED <<specs, session, turns, provider, recovery>>
  PROVE  IInv'
<1>1. /\ specs' = specs /\ session' = session /\ turns' = turns
      /\ created' = created /\ messages' = messages /\ recovery' = recovery
  BY DEF provider
<1>2. CASE turns[r] = {}
  <2>1. PICK s : s = nextTurnSequence(r)
    OBVIOUS
  <2>2. /\ s \in Turns /\ commitIntent(r, "submitTurn", s) /\ row' = row
        /\ caller' = [caller EXCEPT ![c].pc = "submitting", ![c].seq = s]
    BY <1>2, <2>1 DEF ensureTurn
  <2>3. FreeKey(r, "submitTurn", s)
    BY <2>1 DEF FreeKey, nextTurnSequence
  <2>4. PICK op \in {"createSession", "submitTurn"} : op = "submitTurn"
    OBVIOUS
  <2> QED BY <1>1, <2>2, <2>3, <2>4, OperationBegins
<1>3. CASE turns[r] # {}
  <2>1. PICK s \in Turns : s = loadLatestTurn(r) /\ s \in turns[r]
    <3>1. turns[r] \subseteq Turns
      BY DEF IInv, TypeOK
    <3> QED BY <1>3, <3>1, LatestAndEarliest DEF loadLatestTurn
  <2>2. observeTurnToCompletion(c, r, s) /\ intents' = intents
    BY <1>3, <2>1 DEF ensureTurn
  <2>3. RunOK(r) /\ TypeOK
    BY DEF IInv, RunsOK
  <2>4. /\ row' \in [Runs -> Row] /\ \A q \in Runs \ {r} : row'[q] = row[q]
        /\ \/ row'[r] = row[r]
           \/ /\ row[r].status = "none"
              /\ row'[r] = [status |-> "observing", msg |-> s, tool |-> FALSE, out |-> "none"]
        /\ caller' \in [Callers -> Caller] /\ \A d \in Callers \ {c} : caller'[d] = caller[d]
        /\ CallerOK(c)' /\ ~InFlight(c)'
    BY <1>1, <2>2, <2>3, ObservationBegins
  <2>5. \A q, o, t : operationKeyTaken(q, o, t)' <=> operationKeyTaken(q, o, t)
    BY <2>2 DEF operationKeyTaken, operationsOf
  <2>6. Grows
    <3>1. \A q \in Runs : /\ row[q].status # "none" => row'[q].status # "none" /\ row'[q].msg = row[q].msg
                          /\ terminal(q) => row'[q] = row[q]
      BY <2>4 DEF terminal, TerminalStatus
    <3> QED BY <1>1, <2>2, <2>5, <3>1 DEF Grows, Begun
  <2>7. KeysOK'
    BY <2>2, <2>5 DEF IInv, KeysOK
  <2>8. RunsOK'
    <3>1. \A q \in Runs \ {r} : RunOK(q)'
      <4>1. \A q \in Runs \ {r} : RunAside(q)
        BY <1>1, <2>4 DEF RunAside
      <4> QED BY <2>3, <2>6, <4>1, RunKept DEF IInv, RunsOK
    <3>2. RunOK(r)'
      <4>1. turns'[r] = turns[r] \cup {s}
        BY <1>1, <2>1
      <4>2. intentOf(r, "submitTurn", s, "consumed") \in intents'
        BY <2>1, <2>2, <2>3 DEF RunOK
      <4>3. UNCHANGED <<session[r], created[r]>> /\ UNCHANGED messages
        BY <1>1
      <4> QED BY <2>3, <2>4, <2>6, <4>1, <4>2, <4>3, TurnAcceptedRun
    <3> QED BY <3>1, <3>2 DEF RunsOK
  <2>9. ChainOK'
    BY <1>1, <2>6, ChainKept DEF IInv
  <2>10. StepOf(c)
    BY <1>1, <2>2, <2>4 DEF StepOf
  <2>11. CallersOK' /\ NoSharedCall'
    BY <2>4, <2>6, <2>10, OthersKept DEF IInv
  <2>12. TypeOK'
    BY <1>1, <2>2, <2>4 DEF IInv, TypeOK
  <2> QED BY <2>7, <2>8, <2>9, <2>11, <2>12 DEF IInv
<1> QED BY <1>2, <1>3

\* The run a dispatch is about.
LEMMA DispatchedRun ==
  ASSUME IInv, NEW c \in Callers, ~at(c, "idle")
  PROVE  \E r \in Runs : r = run(c) /\ r \in specs
BY DEF IInv, TypeOK, CallersOK, CallerOK

\* A verified caller goes on with the session it finds, or commits the intent that creates one.
LEMMA SessionEnsured ==
  ASSUME IInv, NEW c \in Callers, ensureSession(c)
  PROVE  IInv'
<1>1. at(c, "verifying") /\ UNCHANGED <<specs, session, turns, provider, recovery>>
  BY DEF ensureSession
<1>2. PICK r \in Runs : r = run(c) /\ r \in specs
  BY <1>1, DispatchedRun DEF at
<1>3. ~InFlight(c)
  BY <1>1 DEF at, InFlight, InCall
<1>4. PICK changed \in BOOLEAN :
        \/ session[r] /\ ~changed /\ ensureTurn(c, r)
        \/ throw(c) /\ UNCHANGED <<intents, row>>
        \/ /\ ~session[r] /\ ~operationKeyTaken(r, "createSession", None)
           /\ commitIntent(r, "createSession", None)
           /\ goto(c, "creating") /\ UNCHANGED row
  <2>1. PICK changed \in BOOLEAN :
         CASE session[r] /\ ~changed -> ensureTurn(c, r)
           [] session[r] /\ changed -> throw(c) /\ UNCHANGED <<intents, row>>
           [] ~session[r] /\ operationKeyTaken(r, "createSession", None) ->
                throw(c) /\ UNCHANGED <<intents, row>>
           [] ~session[r] /\ ~operationKeyTaken(r, "createSession", None) ->
                /\ commitIntent(r, "createSession", None)
                /\ goto(c, "creating") /\ UNCHANGED row
    BY <1>2 DEF ensureSession
  <2>2. session[r] \in BOOLEAN
    BY DEF IInv, TypeOK
  <2>3. CASE session[r] /\ ~changed
    BY <2>1, <2>3
  <2>4. CASE session[r] /\ changed
    BY <2>1, <2>4
  <2>5. CASE ~session[r] /\ operationKeyTaken(r, "createSession", None)
    BY <2>1, <2>5
  <2>6. CASE ~session[r] /\ ~operationKeyTaken(r, "createSession", None)
    BY <2>1, <2>6
  <2> QED BY <2>3, <2>4, <2>5, <2>6
<1>5. CASE session[r] /\ ~changed /\ ensureTurn(c, r)
  BY <1>1, <1>2, <1>3, <1>5, TurnEnsured
<1>6. CASE throw(c) /\ UNCHANGED <<intents, row>>
  <2>1. UNCHANGED <<stored, provider>> /\ recovery' = recovery /\ caller' = [caller EXCEPT ![c] = Idle]
    BY <1>1, <1>6 DEF stored, throw, return
  <2>2. /\ caller' \in [Callers -> Caller] /\ recovery' \in Recovery
        /\ \A d \in Callers : caller'[d] = caller[d] \/ caller'[d] = Idle
    BY <2>1, IdleType DEF IInv, TypeOK
  <2> QED BY <2>1, <2>2, StopStep
<1>7. CASE /\ ~session[r] /\ ~operationKeyTaken(r, "createSession", None)
           /\ commitIntent(r, "createSession", None)
           /\ goto(c, "creating") /\ UNCHANGED row
  <2>1. FreeKey(r, "createSession", None) /\ caller' = [caller EXCEPT ![c].pc = "creating"]
    BY <1>7 DEF FreeKey, goto
  <2>2. PICK op \in {"createSession", "submitTurn"} : op = "createSession"
    OBVIOUS
  <2>3. UNCHANGED <<specs, session, turns, row, provider, recovery>>
    BY <1>1, <1>7
  <2>4. PICK seq : seq = None
    OBVIOUS
  <2>5. FreeKey(r, op, seq) /\ commitIntent(r, op, seq)
    BY <1>7, <2>1, <2>2, <2>4
  <2>6. op = "createSession" /\ caller' = [caller EXCEPT ![c].pc = "creating"]
    BY <2>1, <2>2
  <2> QED BY <1>2, <1>3, <2>3, <2>5, <2>6, OperationBegins
<1> QED BY <1>4, <1>5, <1>6, <1>7

\* A resumed session goes on to its turn.
LEMMA SessionIsResumed ==
  ASSUME IInv, NEW c \in Callers, sessionResumed(c)
  PROVE  IInv'
<1>1. /\ at(c, "resumed") /\ UNCHANGED <<specs, session, turns, provider, recovery>>
      /\ ensureTurn(c, run(c))
  BY DEF sessionResumed
<1>2. PICK r \in Runs : r = run(c) /\ r \in specs
  BY <1>1, DispatchedRun DEF at
<1>3. ~InFlight(c) /\ session[r]
  BY <1>1, <1>2 DEF at, InFlight, InCall, IInv, CallersOK, CallerOK
<1> QED BY <1>1, <1>2, <1>3, TurnEnsured

----------------------------------------------------------------------------
(* The adapter's calls and what is stored of their answers.                *)

\* The run and the operation of a caller that is in a call.
LEMMA CallInFlight ==
  ASSUME IInv, NEW c \in Callers, InFlight(c)
  PROVE  \E r \in Runs, s \in 0..MaxTurns :
           /\ r = run(c) /\ r \in specs /\ s = seqOf(c)
           /\ intentOf(r, opOf(c), s, "committed") \in intents
           /\ operationKeyTaken(r, opOf(c), s)
<1>1. PICK r \in Runs : r = run(c) /\ r \in specs
  BY DispatchedRun DEF InFlight, InCall, at
<1>2. intentOf(r, opOf(c), seqOf(c), "committed") \in intents
  BY <1>1 DEF IInv, CallersOK, CallerOK
<1>3. operationKeyTaken(r, opOf(c), seqOf(c))
  BY <1>2 DEF operationKeyTaken, operationsOf, intentOf
<1>4. seqOf(c) \in 0..MaxTurns
  BY GatewayAssumption DEF seqOf, None, IInv, TypeOK, Caller
<1> QED BY <1>1, <1>2, <1>3, <1>4

\* The call that creates a session is answered or lost, with its intent committed.
LEMMA SessionIsCreated ==
  ASSUME IInv, NEW c \in Callers, createOpenCodeSession(c)
  PROVE  IInv'
<1>1. /\ at(c, "creating") /\ UNCHANGED <<specs, intents, session, turns, row, messages, recovery>>
      /\ created' = [created EXCEPT ![run(c)] = @ + 1]
      /\ caller' = [caller EXCEPT ![c].pc = "created"]
  BY DEF createOpenCodeSession, goto, stored
<1>2. InFlight(c) /\ opOf(c) = "createSession" /\ seqOf(c) = None
  BY <1>1 DEF InFlight, InCall, at, opOf, seqOf
<1>3. PICK r \in Runs : /\ r = run(c) /\ r \in specs
                        /\ intentOf(r, "createSession", None, "committed") \in intents
                        /\ operationKeyTaken(r, "createSession", None)
  BY <1>2, CallInFlight
<1>4. created[r] = 0 /\ RunOK(r) /\ caller \in [Callers -> Caller]
  BY <1>1, <1>3 DEF IInv, CallersOK, CallerOK, RunsOK, TypeOK
<1>5. /\ created' \in [Runs -> {0, 1}] /\ created'[r] = 1 /\ \A q \in Runs \ {r} : created'[q] = created[q]
  BY <1>1, <1>3, <1>4 DEF IInv, TypeOK
<1>6. /\ caller' \in [Callers -> Caller] /\ \A d \in Callers \ {c} : caller'[d] = caller[d]
      /\ caller'[c].pc = "created" /\ caller'[c].run = r
  BY <1>1, <1>3, <1>4 DEF Caller, InCall, run
<1>7. \A q, o, s : operationKeyTaken(q, o, s)' <=> operationKeyTaken(q, o, s)
  BY <1>1 DEF operationKeyTaken, operationsOf
<1>8. Grows
  BY <1>1, <1>7 DEF Grows, Begun
<1>9. KeysOK'
  BY <1>1, <1>7 DEF IInv, KeysOK
<1>10. RunsOK'
  <2>1. \A q \in Runs \ {r} : RunOK(q)'
    <3>1. \A q \in Runs \ {r} : RunAside(q)
      BY <1>1, <1>5 DEF RunAside
    <3> QED BY <1>8, <3>1, RunKept DEF IInv, RunsOK
  <2>2. RunOK(r)'
    <3>1. ~session[r]
      BY <1>4 DEF RunOK
    <3> QED BY <1>1, <1>3, <1>4, <1>5, <1>7, <3>1 DEF RunOK, Begun, Alone
  <2> QED BY <2>1, <2>2 DEF RunsOK
<1>11. ChainOK'
  BY <1>1, <1>8, ChainKept DEF IInv
<1>12. CallerOK(c)' /\ OwnCall(c, run(c)', opOf(c)', seqOf(c)')
  <2>1. run(c)' = r /\ opOf(c)' = "createSession" /\ seqOf(c)' = None
    BY <1>6 DEF run, opOf, seqOf
  <2> QED BY <1>1, <1>2, <1>3, <1>5, <1>6, <2>1 DEF CallerOK, OwnCall, at, run, InFlight, InCall, Watching
<1>13. StepOf(c)
  BY <1>1, <1>3, <1>5, <1>6, <1>12 DEF StepOf
<1>14. CallersOK' /\ NoSharedCall'
  BY <1>8, <1>12, <1>13, OthersKept DEF IInv
<1>15. TypeOK'
  BY <1>1, <1>5, <1>6 DEF IInv, TypeOK
<1> QED BY <1>9, <1>10, <1>11, <1>14, <1>15 DEF IInv

\* The created session is stored and its intent consumed.
LEMMA SessionIsAccepted ==
  ASSUME IInv, NEW c \in Callers, sessionCreated(c)
  PROVE  IInv'
<1>1. /\ at(c, "created") /\ UNCHANGED <<specs, turns, row, created, messages, recovery>>
      /\ session' = [session EXCEPT ![run(c)] = TRUE]
      /\ intents' = closed(run(c), "createSession", None, "consumed")
      /\ caller' = [caller EXCEPT ![c].pc = "resumed"]
  BY DEF sessionCreated, acceptSession, consumeIntent, goto, provider
<1>2. InFlight(c) /\ opOf(c) = "createSession" /\ seqOf(c) = None
  BY <1>1 DEF InFlight, InCall, at, opOf, seqOf
<1>3. PICK r \in Runs : /\ r = run(c) /\ r \in specs
                        /\ intentOf(r, "createSession", None, "committed") \in intents
  BY <1>2, CallInFlight
<1>4. created[r] = 1 /\ RunOK(r) /\ caller \in [Callers -> Caller] /\ TypeOK /\ KeysOK
  BY <1>1, <1>3 DEF IInv, CallersOK, CallerOK, RunsOK, TypeOK
<1>5. /\ session' \in [Runs -> BOOLEAN] /\ session'[r] /\ \A q \in Runs \ {r} : session'[q] = session[q]
  BY <1>1, <1>3, <1>4 DEF TypeOK
<1>6. /\ caller' \in [Callers -> Caller] /\ \A d \in Callers \ {c} : caller'[d] = caller[d]
      /\ caller'[c].pc = "resumed" /\ caller'[c].run = r
  BY <1>1, <1>3, <1>4 DEF Caller, run
<1>7. /\ intents' \subseteq Intent /\ KeysOK'
      /\ \A q, o, s : operationKeyTaken(q, o, s)' <=> operationKeyTaken(q, o, s)
      /\ \A q, o, s : intentOf(q, o, s, "consumed") \in intents
                        => intentOf(q, o, s, "consumed") \in intents'
      /\ \A q, o, s : /\ intentOf(q, o, s, "committed") \in intents
                      /\ ~(q = r /\ o = "createSession" /\ s = None)
                      => intentOf(q, o, s, "committed") \in intents'
      /\ intentOf(r, "createSession", None, "consumed") \in intents'
  <2>1. PICK st \in {"consumed", "blocked"} : st = "consumed"
    OBVIOUS
  <2>2. intents' = closed(r, "createSession", None, st)
    BY <1>1, <1>3, <2>1
  <2> QED BY <1>3, <1>4, <2>1, <2>2, IntentClosed
<1>8. Grows
  BY <1>1, <1>5, <1>7 DEF Grows, Begun
<1>9. RunsOK'
  <2>1. \A q \in Runs \ {r} : RunOK(q)'
    <3>1. \A q \in Runs \ {r} : RunAside(q)
      BY <1>1, <1>5 DEF RunAside
    <3> QED BY <1>4, <1>8, <3>1, RunKept DEF IInv, RunsOK
  <2>2. RunOK(r)'
    BY <1>1, <1>3, <1>4, <1>5, <1>7 DEF RunOK, Begun, Alone
  <2> QED BY <2>1, <2>2 DEF RunsOK
<1>10. ChainOK'
  BY <1>1, <1>8, ChainKept DEF IInv
<1>11. CallerOK(c)' /\ ~InFlight(c)'
  BY <1>1, <1>3, <1>5, <1>6 DEF CallerOK, at, run, InFlight, InCall, Watching
<1>12. StepOf(c)
  BY <1>1, <1>2, <1>3, <1>6, <1>7, <1>11 DEF StepOf, OwnCall
<1>13. CallersOK' /\ NoSharedCall'
  BY <1>4, <1>8, <1>11, <1>12, OthersKept DEF IInv
<1>14. TypeOK'
  BY <1>1, <1>4, <1>5, <1>6, <1>7 DEF TypeOK
<1> QED BY <1>7, <1>9, <1>10, <1>13, <1>14 DEF IInv

\* The call that submits a prompt is answered or lost, with its intent committed.
LEMMA PromptIsSubmitted ==
  ASSUME IInv, NEW c \in Callers, submitPrompt(c)
  PROVE  IInv'
<1>1. /\ at(c, "submitting") /\ UNCHANGED <<specs, intents, session, turns, row, created, recovery>>
      /\ messages' = [messages EXCEPT ![run(c)][caller[c].seq].state = "pending"]
      /\ caller' = [caller EXCEPT ![c].pc = "submitted"]
  BY DEF submitPrompt, goto, stored
<1>2. InFlight(c) /\ opOf(c) = "submitTurn" /\ seqOf(c) = caller[c].seq
  BY <1>1 DEF InFlight, InCall, at, opOf, seqOf
<1>3. PICK r \in Runs, s \in 0..MaxTurns :
        /\ r = run(c) /\ r \in specs /\ s = caller[c].seq
        /\ intentOf(r, "submitTurn", s, "committed") \in intents
        /\ operationKeyTaken(r, "submitTurn", s)
  BY <1>2, CallInFlight
<1>4. /\ s \in Turns /\ messages[r][s].state = "absent" /\ session[r]
      /\ caller \in [Callers -> Caller] /\ messages \in [Runs -> [Turns -> Message]]
  BY <1>1, <1>3 DEF IInv, CallersOK, CallerOK, TypeOK, at
<1>5. /\ messages' \in [Runs -> [Turns -> Message]]
      /\ \A q \in Runs, i \in Turns :
           messages'[q][i].state = IF q = r /\ i = s THEN "pending" ELSE messages[q][i].state
  <2>1. PICK m \in Message : m = messages[r][s]
    BY <1>4
  <2> DEFINE new == [m EXCEPT !.state = "pending"]
  <2>2. new \in Message /\ new.state = "pending"
    BY DEF Message
  <2>3. messages' = [messages EXCEPT ![r][s] = new]
    BY <1>1, <1>3, <2>1
  <2> HIDE DEF new
  <2> QED BY <1>4, <2>2, <2>3
<1>6. /\ caller' \in [Callers -> Caller] /\ \A d \in Callers \ {c} : caller'[d] = caller[d]
      /\ caller'[c].pc = "submitted" /\ caller'[c].run = r /\ caller'[c].seq = s
  BY <1>1, <1>3, <1>4 DEF Caller, InCall, run
<1>7. \A q, o, t : operationKeyTaken(q, o, t)' <=> operationKeyTaken(q, o, t)
  BY <1>1 DEF operationKeyTaken, operationsOf
<1>8. Grows
  BY <1>1, <1>4, <1>5, <1>7 DEF Grows, Begun
<1>9. KeysOK'
  BY <1>1, <1>7 DEF IInv, KeysOK
<1>10. RunsOK'
  <2>1. \A q \in Runs : RunWritten(q)
    BY <1>1, <1>3, <1>5, <1>7 DEF RunWritten
  <2> QED BY <1>8, <2>1, RunsKept DEF IInv
<1>11. ChainOK'
  BY <1>1, <1>8, ChainKept DEF IInv
<1>12. CallerOK(c)' /\ OwnCall(c, run(c)', opOf(c)', seqOf(c)')
  <2>1. run(c)' = r /\ opOf(c)' = "submitTurn" /\ seqOf(c)' = s
    BY <1>6 DEF run, opOf, seqOf
  <2> QED BY <1>1, <1>2, <1>3, <1>4, <1>6, <2>1 DEF CallerOK, OwnCall, at, run, InFlight, InCall, Watching
<1>13. StepOf(c)
  BY <1>1, <1>3, <1>5, <1>6, <1>12 DEF StepOf
<1>14. CallersOK' /\ NoSharedCall'
  BY <1>8, <1>12, <1>13, OthersKept DEF IInv
<1>15. TypeOK'
  BY <1>1, <1>5, <1>6 DEF IInv, TypeOK
<1> QED BY <1>9, <1>10, <1>11, <1>14, <1>15 DEF IInv

\* The submitted turn is stored, its intent consumed and its observation begun.
LEMMA TurnIsSubmitted ==
  ASSUME IInv, NEW c \in Callers, turnSubmitted(c)
  PROVE  IInv'
<1>1. /\ at(c, "submitted") /\ UNCHANGED <<specs, session, created, messages, recovery>>
      /\ turns' = [turns EXCEPT ![run(c)] = @ \cup {caller[c].seq}]
      /\ intents' = closed(run(c), "submitTurn", caller[c].seq, "consumed")
      /\ observeTurnToCompletion(c, run(c), caller[c].seq)
  BY DEF turnSubmitted, acceptTurn, consumeIntent, provider
<1>2. InFlight(c) /\ opOf(c) = "submitTurn" /\ seqOf(c) = caller[c].seq
  BY <1>1 DEF InFlight, InCall, at, opOf, seqOf
<1>3. PICK r \in Runs, s \in 0..MaxTurns :
        /\ r = run(c) /\ r \in specs /\ s = caller[c].seq
        /\ intentOf(r, "submitTurn", s, "committed") \in intents
  BY <1>2, CallInFlight
<1>4. s \in Turns /\ session[r] /\ RunOK(r) /\ TypeOK /\ KeysOK
  BY <1>1, <1>3 DEF IInv, CallersOK, CallerOK, RunsOK, at
<1>5. /\ turns' \in [Runs -> SUBSET Turns] /\ turns'[r] = turns[r] \cup {s}
      /\ \A q \in Runs \ {r} : turns'[q] = turns[q]
  BY <1>1, <1>3, <1>4 DEF TypeOK
<1>6. /\ intents' \subseteq Intent /\ KeysOK'
      /\ \A q, o, t : operationKeyTaken(q, o, t)' <=> operationKeyTaken(q, o, t)
      /\ \A q, o, t : intentOf(q, o, t, "consumed") \in intents
                        => intentOf(q, o, t, "consumed") \in intents'
      /\ \A q, o, t : /\ intentOf(q, o, t, "committed") \in intents
                      /\ ~(q = r /\ o = "submitTurn" /\ t = s)
                      => intentOf(q, o, t, "committed") \in intents'
      /\ intentOf(r, "submitTurn", s, "consumed") \in intents'
  <2>1. PICK st \in {"consumed", "blocked"} : st = "consumed"
    OBVIOUS
  <2>2. intents' = closed(r, "submitTurn", s, st)
    BY <1>1, <1>3, <2>1
  <2> QED BY <1>3, <1>4, <2>1, <2>2, IntentClosed
<1>7. /\ row' \in [Runs -> Row] /\ \A q \in Runs \ {r} : row'[q] = row[q]
      /\ \/ row'[r] = row[r]
         \/ /\ row[r].status = "none"
            /\ row'[r] = [status |-> "observing", msg |-> s, tool |-> FALSE, out |-> "none"]
      /\ caller' \in [Callers -> Caller] /\ \A d \in Callers \ {c} : caller'[d] = caller[d]
      /\ CallerOK(c)' /\ ~InFlight(c)'
  <2>1. observeTurnToCompletion(c, r, s) /\ specs' = specs
    BY <1>1, <1>3
  <2> QED BY <1>3, <1>4, <2>1, ObservationBegins
<1>8. Grows
  <2>1. \A q \in Runs : /\ row[q].status # "none" => row'[q].status # "none" /\ row'[q].msg = row[q].msg
                        /\ terminal(q) => row'[q] = row[q]
    BY <1>7 DEF terminal, TerminalStatus
  <2>2. \A q \in Runs : turns[q] \subseteq turns'[q]
    BY <1>5
  <2> QED BY <1>1, <1>6, <2>1, <2>2 DEF Grows, Begun
<1>9. RunsOK'
  <2>1. \A q \in Runs \ {r} : RunOK(q)'
    <3>1. \A q \in Runs \ {r} : RunAside(q)
      BY <1>1, <1>5, <1>7 DEF RunAside
    <3> QED BY <1>4, <1>8, <3>1, RunKept DEF IInv, RunsOK
  <2>2. RunOK(r)'
    <3>1. UNCHANGED <<session[r], created[r]>> /\ UNCHANGED messages
      BY <1>1
    <3> QED BY <1>3, <1>4, <1>5, <1>6, <1>7, <1>8, <3>1, TurnAcceptedRun
  <2> QED BY <2>1, <2>2 DEF RunsOK
<1>10. ChainOK'
  BY <1>1, <1>8, ChainKept DEF IInv
<1>11. StepOf(c)
  BY <1>1, <1>2, <1>3, <1>6, <1>7 DEF StepOf, OwnCall
<1>12. CallersOK' /\ NoSharedCall'
  BY <1>4, <1>7, <1>8, <1>11, OthersKept DEF IInv
<1>13. TypeOK'
  BY <1>1, <1>4, <1>5, <1>6, <1>7 DEF TypeOK
<1> QED BY <1>6, <1>9, <1>10, <1>12, <1>13 DEF IInv

\* A call that fails blocks its intent, and the dispatch stops.
LEMMA CallFails ==
  ASSUME IInv, NEW c \in Callers, adapterCallFails(c)
  PROVE  IInv'
<1>1. /\ InFlight(c) /\ UNCHANGED <<specs, session, turns, row, created, messages, recovery>>
      /\ intents' = closed(run(c), opOf(c), seqOf(c), "blocked")
      /\ caller' = [caller EXCEPT ![c] = Idle]
  BY DEF adapterCallFails, InFlight, InCall, blockIntent, opOf, seqOf, throw, return, provider
<1>2. PICK r \in Runs, s \in 0..MaxTurns, op \in {"createSession", "submitTurn"} :
        r = run(c) /\ s = seqOf(c) /\ op = opOf(c)
  BY <1>1, CallInFlight DEF opOf
<1>3. TypeOK /\ KeysOK /\ caller \in [Callers -> Caller]
  BY DEF IInv, TypeOK
<1>4. /\ intents' \subseteq Intent /\ KeysOK'
      /\ \A q, o, t : operationKeyTaken(q, o, t)' <=> operationKeyTaken(q, o, t)
      /\ \A q, o, t : intentOf(q, o, t, "consumed") \in intents
                        => intentOf(q, o, t, "consumed") \in intents'
      /\ \A q, o, t : /\ intentOf(q, o, t, "committed") \in intents
                      /\ ~(q = r /\ o = op /\ t = s)
                      => intentOf(q, o, t, "committed") \in intents'
  <2>1. PICK st \in {"consumed", "blocked"} : st = "blocked"
    OBVIOUS
  <2>2. intents' = closed(r, op, s, st)
    BY <1>1, <1>2, <2>1
  <2> QED BY <1>3, <2>2, IntentClosed
<1>5. /\ caller' \in [Callers -> Caller] /\ \A d \in Callers \ {c} : caller'[d] = caller[d]
      /\ caller'[c] = Idle
  BY <1>1, <1>3, IdleType
<1>6. CallerOK(c)' /\ ~InFlight(c)'
  BY <1>5, IdleCaller
<1>7. Grows
  BY <1>1, <1>4 DEF Grows, Begun
<1>8. RunsOK'
  <2>1. \A q \in Runs : RunWritten(q)
    BY <1>1 DEF RunWritten
  <2> QED BY <1>7, <2>1, RunsKept DEF IInv
<1>9. ChainOK'
  BY <1>1, <1>7, ChainKept DEF IInv
<1>10. StepOf(c)
  BY <1>1, <1>2, <1>4, <1>5, <1>6 DEF StepOf, OwnCall
<1>11. CallersOK' /\ NoSharedCall'
  BY <1>6, <1>7, <1>10, OthersKept DEF IInv
<1>12. TypeOK'
  BY <1>1, <1>3, <1>4, <1>5 DEF TypeOK
<1> QED BY <1>4, <1>8, <1>9, <1>11, <1>12 DEF IInv

----------------------------------------------------------------------------
(* The reconciliation of orphaned runs.                                    *)

\* It closes or commits an orphan's cancellation, which is no caller's operation,
\* and writes the orphan's row while messages only move.
LEMMA ReconciliationStep ==
  ASSUME IInv, NEW r \in Runs, RowStep(r), Moves, KeysOK', intents' \subseteq Intent,
         \A q, o, t : operationKeyTaken(q, o, t) => operationKeyTaken(q, o, t)',
         \A q, o, t : intentOf(q, o, t, "consumed") \in intents
                        => intentOf(q, o, t, "consumed") \in intents',
         \A q, o, t : intentOf(q, o, t, "committed") \in intents /\ o # "cancelOrphan"
                        => intentOf(q, o, t, "committed") \in intents',
         UNCHANGED <<specs, session, turns, created, caller>>, recovery' \in Recovery
  PROVE  IInv'
<1>1. \A q \in Runs : /\ row[q].status # "none" => row'[q].status # "none" /\ row'[q].msg = row[q].msg
                      /\ terminal(q) => row'[q] = row[q]
  BY DEF RowStep, RowWritten, isRunObserving, terminal, TerminalStatus
<1>2. Grows
  BY <1>1 DEF Grows, Moves
<1>3. RunsOK'
  <2>1. \A q \in Runs : RunWritten(q)
    BY DEF RunWritten, Moves, RowStep
  <2> QED BY <1>2, <2>1, RunsKept DEF IInv
<1>4. ChainOK'
  BY <1>2, ChainKept DEF IInv
<1>5. ASSUME NEW d \in Callers PROVE CallerAside(d)
  <2>1. InFlight(d) => intentOf(run(d), opOf(d), seqOf(d), "committed") \in intents'
    BY DEF IInv, CallersOK, CallerOK, opOf
  <2>2. at(d, "submitting") => messages'[run(d)][caller[d].seq].state = "absent"
    <3>1. HAVE at(d, "submitting")
    <3>2. run(d) \in Runs /\ caller[d].seq \in Turns /\ messages[run(d)][caller[d].seq].state = "absent"
      BY <3>1 DEF IInv, CallersOK, CallerOK, at, TypeOK
    <3> QED BY <3>2 DEF Moves
  <2> QED BY <2>1, <2>2 DEF CallerAside
<1>6. CallersOK' /\ NoSharedCall'
  BY <1>2, <1>5, CallersKept DEF IInv
<1>7. TypeOK'
  BY DEF IInv, TypeOK, RowStep, Moves
<1> QED BY <1>3, <1>4, <1>6, <1>7 DEF IInv

\* Recovery commits the cancellation of an orphan before it calls the provider.
LEMMA OrphanIsTargeted ==
  ASSUME IInv, NEW r \in Runs, cancelTarget(r)
  PROVE  IInv'
<1>1. UNCHANGED <<specs, session, turns, created, caller>> /\ messages' = messages
  BY DEF cancelTarget, provider
<1>2. Moves
  BY <1>1, MessagesStay DEF IInv
<1>3. PICK s : s = nextOperationSequence("cancelOrphan", r)
  OBVIOUS
<1>4. TypeOK /\ KeysOK /\ recovery \in Recovery
  BY DEF IInv, TypeOK
<1>5. CASE /\ commitIntent(r, "cancelOrphan", s) /\ row' = row
           /\ recovery' = [recovery EXCEPT !.run = r, !.seq = s]
  <2>1. /\ intents' \subseteq Intent /\ KeysOK' /\ s \in Nat /\ intents \subseteq intents'
        /\ \A q, o, t : operationKeyTaken(q, o, t) => operationKeyTaken(q, o, t)'
    <3>1. FreeKey(r, "cancelOrphan", s)
      BY <1>3 DEF FreeKey
    <3> QED BY <1>4, <1>5, <3>1, IntentCommitted
  <2>2. recovery' \in Recovery
    <3>1. PICK m \in Recovery : m = recovery
      BY <1>4
    <3>2. [m EXCEPT !.run = r, !.seq = s] \in Recovery
      BY <2>1 DEF Recovery
    <3> QED BY <1>5, <3>1, <3>2
  <2>3. RowStep(r)
    BY <1>4, <1>5 DEF RowStep, TypeOK
  <2> QED BY <1>1, <1>2, <2>1, <2>2, <2>3, ReconciliationStep
<1>6. CASE /\ finalizeOrphanedRun(r, "failed") /\ intents' = intents
           /\ recovery' = [recovery EXCEPT !.todo = @ \ {r}]
  <2>1. RowStep(r)
    <3>1. PICK st \in {"failed", "cancelled"} : st = "failed"
      OBVIOUS
    <3> QED BY <1>4, <1>6, <3>1, RowFailed DEF finalizeOrphanedRun
  <2>2. recovery' \in Recovery
    BY <1>4, <1>6 DEF Recovery
  <2>3. \A q, o, t : operationKeyTaken(q, o, t)' <=> operationKeyTaken(q, o, t)
    BY <1>6 DEF operationKeyTaken, operationsOf
  <2>4. KeysOK' /\ intents' \subseteq Intent
    BY <1>4, <1>6, <2>3 DEF KeysOK, TypeOK
  <2> QED BY <1>1, <1>2, <1>6, <2>1, <2>2, <2>3, <2>4, ReconciliationStep
<1> QED BY <1>3, <1>5, <1>6 DEF cancelTarget

\* Recovery closes the cancellation it committed and records its outcome.
LEMMA OrphanIsCancelled ==
  ASSUME IInv, NEW acknowledged \in BOOLEAN, orphanCancelled(acknowledged)
  PROVE  IInv'
<1>1. PICK r \in Runs : r = recovery.run
  BY DEF orphanCancelled, IInv, TypeOK, Recovery
<1>2. UNCHANGED <<specs, session, turns, created, caller>> /\ recovery.run # NoRun
  BY DEF orphanCancelled
<1>3. TypeOK /\ KeysOK /\ recovery \in Recovery
  BY DEF IInv, TypeOK
<1>4. recovery' \in Recovery
  <2>1. recovery' = [NoRecovery EXCEPT !.todo = recovery.todo \ {recovery.run}]
    BY DEF orphanCancelled
  <2> QED BY <1>3, <2>1 DEF Recovery, NoRecovery, None
<1>5. PICK s : s = recovery.seq
  OBVIOUS
<1>6. PICK st \in {"consumed", "blocked"}, end \in {"failed", "cancelled"} :
        /\ intents' = closed(r, "cancelOrphan", s, st)
        /\ finalizeOrphanedRun(r, end)
        /\ abortSession(r) \/ messages' = messages
  BY <1>1, <1>5 DEF orphanCancelled, consumeIntent, blockIntent
<1>7. Moves
  BY <1>3, <1>6, SessionAborted, MessagesStay
<1>8. RowStep(r)
  BY <1>3, <1>6, RowFailed DEF finalizeOrphanedRun
<1>9. /\ intents' \subseteq Intent /\ KeysOK'
      /\ \A q, o, t : operationKeyTaken(q, o, t)' <=> operationKeyTaken(q, o, t)
      /\ \A q, o, t : intentOf(q, o, t, "consumed") \in intents
                        => intentOf(q, o, t, "consumed") \in intents'
      /\ \A q, o, t : /\ intentOf(q, o, t, "committed") \in intents
                      /\ ~(q = r /\ o = "cancelOrphan" /\ t = s)
                      => intentOf(q, o, t, "committed") \in intents'
  BY <1>3, <1>6, IntentClosed
<1> QED BY <1>2, <1>4, <1>7, <1>8, <1>9, ReconciliationStep

----------------------------------------------------------------------------
(* The invariant and what it gives.                                        *)

\* The initial states are in order: nothing is stored and every caller is idle.
LEMMA InitOK == Init => IInv
<1> SUFFICES ASSUME Init PROVE IInv
  OBVIOUS
<1>1. MaxTurns \in Nat
  BY GatewayAssumption
<1>2. NoRow \in Row /\ NoRow.status = "none"
  BY <1>1 DEF NoRow, Row, None, Outputs
<1>3. NoMessage \in Message /\ NoMessage.state = "absent"
  BY DEF NoMessage, Message, Outputs
<1>4. NoRecovery \in Recovery
  BY DEF NoRecovery, Recovery, None
<1>5. TypeOK
  BY <1>2, <1>3, <1>4, IdleType DEF Init, TypeOK
<1>6. \A q, o, s : ~operationKeyTaken(q, o, s)
  BY DEF Init, operationKeyTaken, operationsOf
<1>7. KeysOK
  <2>1. \A s \in Nat : ~(s \in 1..0)
    OBVIOUS
  <2>2. \A r \in Runs, op \in {"submitTurn", "cancelOrphan"} :
          \E n \in Nat : \A s \in Nat : operationKeyTaken(r, op, s) <=> s \in 1..n
    BY <1>6, <2>1
  <2> QED BY <2>2 DEF KeysOK, Init
<1>8. ASSUME NEW r \in Runs PROVE RunOK(r)
  <2>1. /\ ~session[r] /\ created[r] = 0 /\ turns[r] = {} /\ row[r] = NoRow
        /\ \A i \in Turns : messages[r][i].state = "absent"
    BY <1>3 DEF Init
  <2> QED BY <1>2, <2>1 DEF RunOK
<1>9. ChainOK
  BY DEF Init, ChainOK
<1>10. \A c \in Callers : CallerOK(c) /\ ~InFlight(c)
  BY DEF Init, CallerOK, Idle, at, run, InFlight, InCall, Watching
<1> QED BY <1>5, <1>7, <1>8, <1>9, <1>10 DEF IInv, RunsOK, CallersOK, NoSharedCall

\* Every step keeps the invariant: one case for each action.
LEMMA StepOK == IInv /\ [Next]_vars => IInv'
<1> SUFFICES ASSUME IInv, [Next]_vars PROVE IInv'
  OBVIOUS
<1>1. ASSUME NEW w \in Works, prepareRunSpec(w) PROVE IInv'
  BY <1>1, RunIsPrepared
<1>2. ASSUME NEW r \in Runs, retryRunSpec(r) PROVE IInv'
  BY <1>2, RunIsRetried
<1>3. ASSUME NEW c \in Callers, NEW r \in Runs, dispatchRun(c, r) PROVE IInv'
  BY <1>3, RunIsDispatched
<1>4. ASSUME NEW c \in Callers, CallerStep(c) \/ ceilingPassed(c) \/ Crash(c) PROVE IInv'
  <2>1. CASE ensureSession(c)
    BY <2>1, SessionEnsured
  <2>2. CASE verifyProfileFails(c) \/ Crash(c)
    BY <2>2, CallerStops
  <2>3. CASE createOpenCodeSession(c)
    BY <2>3, SessionIsCreated
  <2>4. CASE sessionCreated(c)
    BY <2>4, SessionIsAccepted
  <2>5. CASE sessionResumed(c)
    BY <2>5, SessionIsResumed
  <2>6. CASE submitPrompt(c)
    BY <2>6, PromptIsSubmitted
  <2>7. CASE turnSubmitted(c)
    BY <2>7, TurnIsSubmitted
  <2>8. CASE adapterCallFails(c)
    BY <2>8, CallFails
  <2>9. CASE observeRun(c)
    BY <2>9, ObserverReads
  <2>10. CASE runObservationLoop(c) \/ ceilingPassed(c)
    BY <2>10, ObserverLoops
  <2>11. CASE cancelRun(c) \/ completedHygiene(c)
    BY <2>11, ObserverStops
  <2>12. CASE cancelAndAwait(c)
    BY <2>12, StopIsAwaited
  <2>13. CASE failObservingRun(c)
    BY <2>13, ObserverFails
  <2> QED BY <1>4, <2>1, <2>2, <2>3, <2>4, <2>5, <2>6, <2>7, <2>8, <2>9, <2>10, <2>11, <2>12, <2>13
       DEF CallerStep
<1>5. CASE ProviderStep
  BY <1>5, ProviderSteps
<1>6. CASE RuntimeRestart
  BY <1>6, RuntimeRestarts
<1>7. CASE reconcileOrphanedGatewayRuns
  BY <1>7, OrphanIsTargeted, OrphanIsCancelled DEF reconcileOrphanedGatewayRuns
<1>8. ASSUME NEW e \in Effects, EffectEnds(e) PROVE IInv'
  <2>1. UNCHANGED <<stored, provider, caller, recovery>>
    BY <1>8 DEF EffectEnds
  <2> QED BY <2>1, NothingStored
<1>9. CASE UNCHANGED vars
  <2>1. UNCHANGED <<stored, provider, caller, recovery>>
    BY <1>9 DEF vars
  <2> QED BY <2>1, NothingStored
<1> QED BY <1>1, <1>2, <1>3, <1>4, <1>5, <1>6, <1>7, <1>8, <1>9 DEF Next

\* Every session, turn and row of a run in order has the intent it stands on.
LEMMA TrailFromInvariant == IInv => DurableTrail
<1> SUFFICES ASSUME IInv, NEW r \in Runs
             PROVE  /\ created[r] <= 1
                    /\ session[r] => created[r] = 1 /\ intentOf(r, "createSession", None, "consumed") \in intents
                    /\ row[r] # NoRow =>
                         /\ row[r].msg \in turns[r]
                         /\ intentOf(r, "submitTurn", row[r].msg, "consumed") \in intents
                         /\ terminal(r) => terminalDispatchReceipt(r)
  BY DEF DurableTrail, intentOf
<1>1. RunOK(r) /\ created[r] \in {0, 1}
  BY DEF IInv, RunsOK, TypeOK
<1>2. row[r] # NoRow => row[r].msg \in turns[r]
  BY <1>1 DEF RunOK
<1>3. row[r] # NoRow => intentOf(r, "submitTurn", row[r].msg, "consumed") \in intents
  BY <1>1, <1>2 DEF RunOK
<1>4. row[r] # NoRow /\ terminal(r) => terminalDispatchReceipt(r)
  BY <1>1, <1>2 DEF RunOK, terminalDispatchReceipt
<1> QED BY <1>1, <1>2, <1>3, <1>4 DEF RunOK

\* A completed run is clean: RunOK says so of every run.
LEMMA CleanFromInvariant == IInv => CompletedRunIsClean
BY DEF IInv, RunsOK, RunOK, CompletedRunIsClean

\* One operation, numbered 1, is the only one.
LEMMA StoppedFromInvariant == IInv => StoppedBeforeItSaysSo
<1> SUFFICES ASSUME IInv, NEW r \in Runs, row[r].status \in {"timedOut", "policyBlocked"},
                    Cardinality(operationsOf(r, "submitTurn")) = 1
             PROVE  messages[r][row[r].msg].state # "running"
  BY DEF StoppedBeforeItSaysSo
<1>1. RunOK(r) /\ TypeOK /\ KeysOK
  BY DEF IInv, RunsOK
<1>2. nextOperationSequence("submitTurn", r) = 2
  BY DEF nextOperationSequence
<1>3. \A s \in Nat : operationKeyTaken(r, "submitTurn", s) <=> s \in 1..1
  <2>1. PICK op \in {"submitTurn", "cancelOrphan"} : op = "submitTurn"
    OBVIOUS
  <2>2. \A s \in Nat : operationKeyTaken(r, op, s) <=> s \in 1..(nextOperationSequence(op, r) - 1)
    BY <1>1, NextSequenceIsFree
  <2> QED BY <1>2, <2>1, <2>2
<1>4. PICK t : t = row[r].msg
  OBVIOUS
<1>5. operationKeyTaken(r, "submitTurn", t) /\ t \in Nat
  <2>1. t \in turns[r]
    BY <1>1, <1>4 DEF RunOK
  <2>2. intentOf(r, "submitTurn", t, "consumed") \in intents
    BY <1>1, <2>1 DEF RunOK
  <2>3. operationKeyTaken(r, "submitTurn", t)
    BY <2>2 DEF operationKeyTaken, operationsOf, intentOf
  <2>4. t \in Nat
    BY <1>1, <2>1, GatewayAssumption DEF TypeOK, Turns
  <2> QED BY <2>3, <2>4
<1>6. Alone(r, t)
  BY <1>3, <1>5 DEF Alone
<1> QED BY <1>1, <1>4, <1>6 DEF RunOK

\* Of two completed attempts the earlier one ended badly, so there are no two.
LEMMA OneFromInvariant == IInv => OneCompletionPerWork
<1> SUFFICES ASSUME IInv, NEW w \in Works
             PROVE  Cardinality({n \in 1..MaxAttempts : row[<<w, n>>].status = "completed"}) <= 1
  BY DEF OneCompletionPerWork
<1> DEFINE C == {n \in 1..MaxAttempts : row[<<w, n>>].status = "completed"}
<1>1. MaxAttempts \in Nat
  BY GatewayAssumption
<1>2. \A n \in C : <<w, n>> \in specs
  <2>1. \A n \in C : <<w, n>> \in Runs
    BY DEF Runs
  <2> QED BY <2>1 DEF IInv, RunsOK, RunOK
<1>3. ASSUME NEW m \in C, NEW n \in C, m < n PROVE FALSE
  <2>1. m \in 1..(n - 1)
    BY <1>1, <1>3
  <2>2. EndedBadly(<<w, m>>)
    BY <1>2, <2>1 DEF IInv, ChainOK
  <2> QED BY <2>2 DEF EndedBadly
<1>4. \A m, n \in C : m = n
  <2>1. \A m, n \in C : m \in Int /\ n \in Int /\ ~(m < n) /\ ~(n < m)
    BY <1>1, <1>3
  <2> QED BY <2>1
<1>5. C = {} \/ \E n : C = {n}
  <2> HIDE DEF C
  <2> QED BY <1>4
<1> HIDE DEF C
<1>6. Cardinality(C) <= 1
  <2>1. CASE C = {}
    BY <2>1, FS_EmptySet
  <2>2. CASE C # {}
    <3>1. PICK n : C = {n}
      BY <1>5, <2>2
    <3>2. Cardinality(C) = 1
      BY <3>1, FS_Singleton
    <3> QED BY <3>2
  <2> QED BY <2>1, <2>2
<1> QED BY <1>6 DEF C

\* The invariant holds in every state of the gateway.
THEOREM GatewayInvariant == Spec => []IInv
<1>1. Init => IInv
  BY InitOK
<1>2. IInv /\ [Next]_vars => IInv'
  BY StepOK
<1> QED BY <1>1, <1>2, PTL DEF Spec

\* However callers crash and race, a run has one session at the provider, and a run
\* with a row has the trail a later dispatch answers from (gateway.ts
\* ensureSession, terminalDispatchReceipt).
THEOREM TrailIsDurable == Spec => []DurableTrail
BY GatewayInvariant, TrailFromInvariant, PTL

\* A run is stored as completed only with a valid answer and no prohibited tool
\* (gateway-lifecycle.ts runObservationLoop).
THEOREM CompletionIsClean == Spec => []CompletedRunIsClean
BY GatewayInvariant, CleanFromInvariant, PTL

\* A run submitted once is said to be timed out or blocked by policy only when its
\* turn runs no longer (cancelAndAwait).
THEOREM StopsAreTrue == Spec => []StoppedBeforeItSaysSo
BY GatewayInvariant, StoppedFromInvariant, PTL

\* A retry chain completes at most once (run-retry.ts assertRetryable).
THEOREM WorkCompletesOnce == Spec => []OneCompletionPerWork
BY GatewayInvariant, OneFromInvariant, PTL

----------------------------------------------------------------------------
(* The context catalogue.                                                  *)

\* Before the kind of the charters is ranked, every rank is at least 1.
RanksOK ==
  /\ \A kind \in DOMAIN contextPrecedence : contextPrecedence[kind] \in Int
  /\ RoleKind \notin DOMAIN contextPrecedence =>
       \A kind \in DOMAIN contextPrecedence : contextPrecedence[kind] >= 1

ContextInv == IsFiniteSet(DOMAIN contextItems) /\ RanksOK

\* A precedence of kinds gives each a rank from 1 to their number.
LEMMA ReplaceRanks ==
  ASSUME NEW kinds \in Precedences, replaceContextPrecedence(kinds)
  PROVE  RanksOK'
<1>1. kinds \in Seq({kinds[i] : i \in DOMAIN kinds})
  BY PrecedencesAssumption
<1>2. DOMAIN kinds = 1..Len(kinds) /\ Len(kinds) \in Nat
  BY <1>1
<1> DEFINE place(kind) == CHOOSE i \in DOMAIN kinds : kinds[i] = kind
           K == {kinds[i] : i \in DOMAIN kinds}
<1>3. \A kind \in K : place(kind) \in 1..Len(kinds)
  <2>1. ASSUME NEW kind \in K PROVE place(kind) \in DOMAIN kinds
    <3>1. \E i \in DOMAIN kinds : kinds[i] = kind
      OBVIOUS
    <3> QED BY <3>1
  <2> QED BY <1>2, <2>1
<1>4. contextPrecedence' = [kind \in K |-> Len(kinds) + 1 - place(kind)]
  BY DEF replaceContextPrecedence
<1> HIDE DEF K, place
<1>5. DOMAIN contextPrecedence' = K
      /\ \A kind \in K : contextPrecedence'[kind] = Len(kinds) + 1 - place(kind)
  BY <1>4
<1>6. \A kind \in K : contextPrecedence'[kind] \in Int /\ contextPrecedence'[kind] >= 1
  BY <1>2, <1>3, <1>5
<1> QED BY <1>5, <1>6 DEF RanksOK

\* The kind of the charters is ranked below the others.
LEMMA BundledRanks ==
  ASSUME ContextInv, ensureBundledContextPrecedence
  PROVE  RanksOK'
<1> DEFINE ranks == {contextPrecedence[kind] : kind \in DOMAIN contextPrecedence}
           rank == IF ranks = {} THEN 1 ELSE Min(ranks \cup {1}) - 1
           D == DOMAIN contextPrecedence
<1>1. \A x \in ranks : x \in Int /\ x >= 1
  BY DEF ensureBundledContextPrecedence, ContextInv, RanksOK
<1>2. contextPrecedence' = [kind \in D \cup {RoleKind} |->
                              IF kind = RoleKind THEN rank ELSE contextPrecedence[kind]]
  BY DEF ensureBundledContextPrecedence
<1>3. rank \in Int
  <2> HIDE DEF ranks
  <2>1. \E x \in ranks \cup {1} : \A y \in ranks \cup {1} : x <= y
    BY <1>1
  <2>2. Min(ranks \cup {1}) \in ranks \cup {1}
    BY <2>1 DEF Min
  <2> QED BY <1>1, <2>2
<1> HIDE DEF rank
<1>4. DOMAIN contextPrecedence' = D \cup {RoleKind}
      /\ \A kind \in D \cup {RoleKind} :
           contextPrecedence'[kind] = IF kind = RoleKind THEN rank ELSE contextPrecedence[kind]
  BY <1>2
<1>5. \A kind \in D : contextPrecedence[kind] \in Int
  BY DEF ContextInv, RanksOK
<1> QED BY <1>3, <1>4, <1>5 DEF RanksOK

\* The store holds finitely many items, and the ranks are numbers.
LEMMA ContextInvHolds == ContextSpec => []ContextInv
<1>1. ContextInit => ContextInv
  BY FS_EmptySet DEF ContextInit, ContextInv, RanksOK
<1>2. ASSUME ContextInv, [ContextNext]_contextVars PROVE ContextInv'
  <2>1. ASSUME NEW item, addContextItem(item) PROVE ContextInv'
    <3> DEFINE ref == [id |-> item.id, version |-> item.version]
    <3>1. DOMAIN contextItems' = DOMAIN contextItems \cup {ref} /\ UNCHANGED contextPrecedence
      BY <2>1 DEF addContextItem
    <3> HIDE DEF ref
    <3>2. IsFiniteSet(DOMAIN contextItems')
      BY <1>2, <3>1, FS_AddElement DEF ContextInv
    <3> QED BY <1>2, <3>1, <3>2 DEF ContextInv, RanksOK
  <2>2. ASSUME NEW item, bootstrapVersionedContextItem(item) PROVE ContextInv'
    BY <2>1, <2>2 DEF bootstrapVersionedContextItem
  <2>3. ASSUME NEW ref, retireContextItem(ref) PROVE ContextInv'
    <3>1. DOMAIN contextItems' = DOMAIN contextItems /\ UNCHANGED contextPrecedence
      BY <2>3 DEF retireContextItem
    <3> QED BY <1>2, <3>1 DEF ContextInv, RanksOK
  <2>4. ASSUME NEW kinds \in Precedences, replaceContextPrecedence(kinds) PROVE ContextInv'
    BY <1>2, <2>4, ReplaceRanks DEF ContextInv, replaceContextPrecedence
  <2>5. CASE ensureBundledContextPrecedence
    BY <1>2, <2>5, BundledRanks DEF ContextInv, ensureBundledContextPrecedence
  <2>6. CASE UNCHANGED <<contextItems, contextPrecedence>>
    BY <1>2, <2>6 DEF ContextInv, RanksOK
  <2>7. CompileContext \/ compileRunSpecInput \/ UNCHANGED contextVars =>
          UNCHANGED <<contextItems, contextPrecedence>>
    BY DEF CompileContext, compileRunSpecInput, persistContextPack, contextVars
  <2> QED BY <1>2, <2>1, <2>2, <2>3, <2>4, <2>5, <2>6, <2>7
          DEF ContextNext, AddContextItem, BootstrapContextItem, RetireContextItem,
              ReplaceContextPrecedence
<1> QED BY <1>1, <1>2, PTL DEF ContextSpec

----------------------------------------------------------------------------
(* Packs.                                                                  *)

applicableTo(attributes) == {ref \in activeItems : isApplicable(ref, attributes)}

\* addDependencies only checks: whatever the walk may meet is active and applicable, and
\* all that is was selected before it started.
LEMMA WalksAddNothing ==
  ASSUME NEW attributes, NEW ref, NEW visiting,
         addDependencies(applicableTo(attributes), ref, attributes, visiting) # Refused
  PROVE  /\ addDependencies(applicableTo(attributes), ref, attributes, visiting) = applicableTo(attributes)
         /\ ref \in applicableTo(attributes)
<1> DEFINE A == applicableTo(attributes)
           found == reached(A, ref)
           D == DOMAIN contextItems
<1>1. requireReference(ref, attributes) /\ addDependencies(A, ref, attributes, visiting) = A \cup found
  BY DEF addDependencies
<1>2. ref \in A
  BY <1>1 DEF requireReference, applicableTo, activeItems, Active
<1>3. {ref} \in SUBSET D
  BY <1>2 DEF applicableTo, activeItems
<1>4. found \subseteq {ref}
  <2> HIDE DEF A
  <2>1. {ref} \ A = {}
    BY <1>2
  <2> QED BY <1>3, <2>1 DEF reached
<1> QED BY <1>1, <1>2, <1>4

\* The candidates of a pack are the items that apply, when all that is asked for and all
\* they depend on is among them.
LEMMA CandidatesAreClosed ==
  ASSUME NEW input, selectCandidates(input) # Refused
  PROVE  LET A == applicableTo(requestAttributes(input)) IN
         /\ selectCandidates(input) = A
         /\ input.references \subseteq A
         /\ \A r \in A : contextItems[r].dependencies \subseteq A
<1> DEFINE attributes == requestAttributes(input)
           A == applicableTo(attributes)
           walk(ref, next) == addDependencies(A, next, attributes, {ref})
           walks == UNION {{walk(ref, next) : next \in contextItems[ref].dependencies} : ref \in A}
<1>1. /\ \A ref \in input.references : requireReference(ref, attributes)
      /\ Refused \notin walks
      /\ selectCandidates(input) = A \cup UNION walks
  BY DEF selectCandidates, applicableTo
<1>2. ASSUME NEW ref \in A, NEW next \in contextItems[ref].dependencies
      PROVE  walk(ref, next) = A /\ next \in A
  <2>1. walk(ref, next) \in walks
    OBVIOUS
  <2>2. walk(ref, next) # Refused
    BY <1>1, <2>1
  <2> QED BY <2>2, WalksAddNothing
<1>3. UNION walks \subseteq A
  <2>1. ASSUME NEW w \in walks PROVE w = A
    <3>1. PICK ref \in A : w \in {walk(ref, next) : next \in contextItems[ref].dependencies}
      OBVIOUS
    <3>2. PICK next \in contextItems[ref].dependencies : w = walk(ref, next)
      BY <3>1
    <3> QED BY <1>2, <3>2
  <2> HIDE DEF walks
  <2> QED BY <2>1
<1>4. input.references \subseteq A
  BY <1>1 DEF requireReference, applicableTo, activeItems, Active
<1> HIDE DEF walks, walk
<1>5. \A r \in A : contextItems[r].dependencies \subseteq A
  BY <1>2
<1> QED BY <1>1, <1>3, <1>4, <1>5

\* Among finitely many items of which each has a rank, one ranks highest.
LEMMA SomeRankIsHighest ==
  ASSUME NEW refs, IsFiniteSet(refs), refs # {}, \A r \in refs : rankOf(r) \in Int
  PROVE  topRanked(refs) # {}
<1> DEFINE above(r) == {s \in refs : rankOf(s) > rankOf(r)}
           counts == {Cardinality(above(r)) : r \in refs}
<1>1. ASSUME NEW r \in refs
      PROVE  IsFiniteSet(above(r)) /\ Cardinality(above(r)) \in Nat
  <2>1. above(r) \subseteq refs
    OBVIOUS
  <2> HIDE DEF above
  <2> QED BY <2>1, FS_Subset, FS_CardinalityType
<1>2. counts \subseteq Nat /\ counts # {}
  <2> HIDE DEF above
  <2> QED BY <1>1
<1>3. PICK n \in counts : \A m \in counts : n <= m
  <2> HIDE DEF counts
  <2> DEFINE R == OpToRel(<, Nat)
  <2>1. \A k, m \in Nat : m < k => <<m, k>> \in R
    BY Zenon DEF OpToRel
  <2>2. IsWellFoundedOn(R, Nat)
    BY NatLessThanWellFounded
  <2> HIDE DEF R
  <2>3. PICK n \in counts : \A m \in counts : ~(<<m, n>> \in R)
    BY <1>2, <2>2, WFMin, Zenon
  <2>4. ASSUME NEW m \in counts PROVE n <= m
    <3>1. m \in Nat /\ n \in Nat /\ ~(m < n)
      BY <1>2, <2>1, <2>3
    <3> QED BY <3>1
  <2> QED BY <2>4
<1>4. PICK r \in refs : Cardinality(above(r)) = n
  BY <1>3
<1>5. ASSUME NEW s \in refs, rankOf(s) > rankOf(r) PROVE FALSE
  <2>1. above(s) \subseteq above(r) /\ s \in above(r) /\ s \notin above(s)
    BY <1>5
  <2>2. n <= Cardinality(above(s))
    BY <1>3
  <2> HIDE DEF above
  <2>3. Cardinality(above(s)) < Cardinality(above(r))
    BY <1>1, <2>1, FS_Subset
  <2> QED BY <1>1, <1>4, <2>2, <2>3
<1>6. \A s \in refs : rankOf(s) <= rankOf(r)
  BY <1>5
<1> QED BY <1>6 DEF topRanked

\* Of the items that mean the same one remains, and it ranks above the others.
LEMMA OneItemOfAMeaning ==
  ASSUME ContextInv, NEW selected, selected \subseteq DOMAIN contextItems,
         resolveSemanticConflicts(selected) # Refused
  PROVE  LET items == resolveSemanticConflicts(selected) IN
         /\ items \subseteq selected
         /\ \A ref \in selected : rankOf(ref) \in Int
         /\ \A r, s \in items : contextItems[r].semanticKey = contextItems[s].semanticKey => r = s
         /\ \A ref \in selected : \E w \in items :
              /\ contextItems[w].semanticKey = contextItems[ref].semanticKey
              /\ w = ref \/ rankOf(w) > rankOf(ref)
<1> DEFINE rivals(ref) == {r \in selected : contextItems[r].semanticKey = contextItems[ref].semanticKey}
           top(ref) == topRanked(rivals(ref))
           items == UNION {top(ref) : ref \in selected}
<1>1. /\ resolveSemanticConflicts(selected) = items
      /\ \A ref \in selected : contextItems[ref].kind \in DOMAIN contextPrecedence
      /\ \A ref \in selected : Cardinality(top(ref)) = 1
  BY DEF resolveSemanticConflicts
<1>2. \A ref \in selected : rankOf(ref) \in Int
  BY <1>1 DEF ContextInv, RanksOK, rankOf
<1>3. \A ref \in selected :
        top(ref) \subseteq rivals(ref) /\ rivals(ref) \subseteq selected /\ ref \in rivals(ref)
  BY DEF topRanked
<1>4. ASSUME NEW ref \in selected PROVE \E w : top(ref) = {w}
  <2>1. top(ref) \subseteq DOMAIN contextItems
    BY <1>3
  <2>2. Cardinality(top(ref)) = 1
    BY <1>1
  <2> HIDE DEF top
  <2>3. IsFiniteSet(top(ref))
    BY <2>1, FS_Subset DEF ContextInv
  <2> QED BY <2>2, <2>3, FS_Singleton
<1>5. ASSUME NEW r \in items, NEW s \in items,
             contextItems[r].semanticKey = contextItems[s].semanticKey
      PROVE  r = s
  <2>1. PICK x \in selected : r \in top(x)
    OBVIOUS
  <2>2. PICK y \in selected : s \in top(y)
    OBVIOUS
  <2>3. rivals(x) = rivals(y)
    BY <1>3, <1>5, <2>1, <2>2
  <2>4. r \in top(x) /\ s \in top(x)
    BY <2>1, <2>2, <2>3
  <2> QED BY <1>4, <2>4
<1>6. ASSUME NEW ref \in selected
      PROVE  \E w \in items : /\ contextItems[w].semanticKey = contextItems[ref].semanticKey
                              /\ w = ref \/ rankOf(w) > rankOf(ref)
  <2>1. PICK w : top(ref) = {w}
    BY <1>4
  <2>2. w \in items /\ w \in rivals(ref)
    <3>1. w \in top(ref)
      BY <2>1
    <3>2. top(ref) \subseteq items
      OBVIOUS
    <3> QED BY <1>3, <3>1, <3>2
  <2>3. \A s \in rivals(ref) : rankOf(s) <= rankOf(w)
    BY <2>1 DEF topRanked
  <2>4. CASE ref \in top(ref)
    BY <2>1, <2>2, <2>4
  <2>5. CASE ref \notin top(ref)
    <3>1. PICK s \in rivals(ref) : ~(rankOf(s) <= rankOf(ref))
      BY <1>3, <2>5 DEF topRanked
    <3>2. rankOf(s) \in Int /\ rankOf(ref) \in Int /\ rankOf(w) \in Int /\ rankOf(s) <= rankOf(w)
      BY <1>2, <1>3, <2>2, <2>3, <3>1
    <3>3. rankOf(w) > rankOf(ref)
      BY <3>1, <3>2
    <3> QED BY <2>2, <3>3
  <2> QED BY <2>4, <2>5
<1>7. items \subseteq selected
  BY <1>3
<1> HIDE DEF items
<1> QED BY <1>1, <1>2, <1>5, <1>6, <1>7

grantBacked(items, c) ==
  LET says(ref, effect) == /\ c \in DOMAIN contextItems[ref].capabilities
                           /\ contextItems[ref].capabilities[c] = effect
  IN  \E r \in items : /\ says(r, "allow")
                       /\ \A s \in items : says(s, "deny") => rankOf(s) < rankOf(r)

\* What compileCapabilities grants, an item allows and none that ranks as high denies.
LEMMA GrantsAreBacked ==
  ASSUME ContextInv, NEW items, items \subseteq DOMAIN contextItems,
         \A ref \in items : rankOf(ref) \in Int,
         NEW requested, compileCapabilities(items, requested) # Refused,
         NEW c \in requested, compileCapabilities(items, requested)[c] = "allow"
  PROVE  grantBacked(items, c)
<1> DEFINE sources == {ref \in items : c \in DOMAIN contextItems[ref].capabilities}
           top == topRanked(sources)
           effects == {contextItems[ref].capabilities[c] : ref \in top}
<1>1. ~(Cardinality(effects) > 1)
  BY DEF compileCapabilities
<1>2. "allow" = IF sources = {} THEN "deny" ELSE CHOOSE e \in effects : TRUE
  BY DEF compileCapabilities
<1>3. sources # {} /\ "allow" = CHOOSE e \in effects : TRUE
  BY <1>2
<1>4. sources \subseteq items /\ \A r \in sources : rankOf(r) \in Int
  OBVIOUS
<1>5. IsFiniteSet(sources)
  <2> HIDE DEF sources
  <2> QED BY <1>4, FS_Subset DEF ContextInv
<1>6. top # {} /\ top \subseteq sources
  <2> HIDE DEF sources
  <2>1. topRanked(sources) # {}
    BY <1>3, <1>4, <1>5, SomeRankIsHighest
  <2> QED BY <2>1 DEF topRanked
<1>7. effects # {} /\ IsFiniteSet(effects)
  <2> HIDE DEF sources
  <2>1. IsFiniteSet(top)
    BY <1>5, <1>6, FS_Subset
  <2> HIDE DEF top
  <2> DEFINE f == [ref \in top |-> contextItems[ref].capabilities[c]]
  <2>2. effects = {f[ref] : ref \in top}
    OBVIOUS
  <2>3. f \in Surjection(top, effects)
    <3>1. f \in [top -> effects]
      OBVIOUS
    <3>2. \A e \in effects : \E ref \in top : f[ref] = e
      BY <2>2
    <3> HIDE DEF f, effects
    <3> QED BY <3>1, <3>2 DEF Surjection
  <2>4. IsFiniteSet(effects)
    <3> HIDE DEF f, effects
    <3> QED BY <2>1, <2>3, FS_Surjection
  <2> HIDE DEF f
  <2> QED BY <1>6, <2>4
<1>8. "allow" \in effects
  <2> HIDE DEF effects
  <2> QED BY <1>3, <1>7
<1>9. \A e \in effects : e = "allow"
  <2> HIDE DEF effects
  <2>1. Cardinality(effects) \in Nat /\ Cardinality(effects) # 0
    BY <1>7, FS_CardinalityType, FS_EmptySet
  <2>2. Cardinality(effects) = 1
    BY <1>1, <2>1
  <2>3. PICK e : effects = {e}
    BY <1>7, <2>2, FS_Singleton
  <2> QED BY <1>8, <2>3
<1>10. PICK r \in top : contextItems[r].capabilities[c] = "allow"
  BY <1>8
<1>11. r \in items /\ c \in DOMAIN contextItems[r].capabilities
  BY <1>6
<1>12. ASSUME NEW s \in items, c \in DOMAIN contextItems[s].capabilities,
              contextItems[s].capabilities[c] = "deny"
       PROVE  rankOf(s) < rankOf(r)
  <2>1. s \in sources
    BY <1>12
  <2>2. s \notin top
    BY <1>9, <1>12
  <2> HIDE DEF sources
  <2>3. PICK t \in sources : ~(rankOf(t) <= rankOf(s))
    BY <2>1, <2>2 DEF topRanked
  <2>4. rankOf(t) <= rankOf(r)
    BY <2>3 DEF topRanked
  <2>5. rankOf(s) \in Int /\ rankOf(t) \in Int /\ rankOf(r) \in Int
    BY <1>4, <1>6, <2>1, <2>3
  <2> QED BY <2>3, <2>4, <2>5
<1> HIDE DEF effects, top
<1> QED BY <1>10, <1>11, <1>12 DEF grantBacked

wholePack(pack) ==
  /\ \A r, s \in pack.items :
       r.id = s.id \/ contextItems[r].semanticKey = contextItems[s].semanticKey => r = s
  /\ \A ref \in pack.input.references \cup UNION {contextItems[r].dependencies : r \in pack.items} :
       inOrOutranked(ref, pack)

backedPack(pack) ==
  \A c \in DOMAIN pack.capabilities : pack.capabilities[c] = "allow" => grantBacked(pack.items, c)

\* A compilation that does not throw gives a pack that is whole and backed.
LEMMA CompiledPack ==
  ASSUME ContextInv, NEW input, compileContext(input) # Refused
  PROVE  wholePack(compileContext(input)) /\ backedPack(compileContext(input))
<1> DEFINE A == applicableTo(requestAttributes(input))
           items == resolveSemanticConflicts(A)
           grants == compileCapabilities(items, input.requestedCapabilities)
           pack == [input |-> input, items |-> items, capabilities |-> grants]
<1>1. indexCatalog /\ selectCandidates(input) # Refused
  BY DEF compileContext
<1>2. /\ selectCandidates(input) = A
      /\ input.references \subseteq A
      /\ \A r \in A : contextItems[r].dependencies \subseteq A
  BY <1>1, CandidatesAreClosed
<1>3. items # Refused /\ grants # Refused /\ compileContext(input) = pack
  BY <1>1, <1>2 DEF compileContext
<1>4. A \subseteq activeItems /\ activeItems \subseteq DOMAIN contextItems
  BY DEF applicableTo, activeItems
<1> HIDE DEF A, items, grants
<1>5. /\ items \subseteq A
      /\ \A ref \in A : rankOf(ref) \in Int
      /\ \A r, s \in items : contextItems[r].semanticKey = contextItems[s].semanticKey => r = s
      /\ \A ref \in A : \E w \in items :
           /\ contextItems[w].semanticKey = contextItems[ref].semanticKey
           /\ w = ref \/ rankOf(w) > rankOf(ref)
  BY <1>3, <1>4, OneItemOfAMeaning DEF items
<1>6. pack.input = input /\ pack.items = items /\ pack.capabilities = grants
  OBVIOUS
<1> HIDE DEF pack
<1>7. wholePack(pack)
  <2>1. \A r, s \in items : r.id = s.id => r = s
    BY <1>1, <1>4, <1>5 DEF indexCatalog
  <2>2. ASSUME NEW ref \in A PROVE inOrOutranked(ref, pack)
    <3>1. PICK w \in items : /\ contextItems[w].semanticKey = contextItems[ref].semanticKey
                             /\ w = ref \/ rankOf(w) > rankOf(ref)
      BY <1>5
    <3>2. Active(ref)
      BY <1>4 DEF activeItems
    <3> QED BY <1>6, <3>1, <3>2 DEF inOrOutranked
  <2>3. UNION {contextItems[r].dependencies : r \in items} \subseteq A
    BY <1>2, <1>5
  <2> QED BY <1>2, <1>5, <1>6, <2>1, <2>2, <2>3 DEF wholePack
<1>8. backedPack(pack)
  <2>1. DOMAIN grants = input.requestedCapabilities
    BY <1>3 DEF grants, compileCapabilities
  <2>2. items \subseteq DOMAIN contextItems /\ \A ref \in items : rankOf(ref) \in Int
    BY <1>4, <1>5
  <2>3. ASSUME NEW c \in DOMAIN grants, grants[c] = "allow" PROVE grantBacked(items, c)
    BY <1>3, <2>1, <2>2, <2>3, GrantsAreBacked DEF grants
  <2> QED BY <1>6, <2>3 DEF backedPack
<1> QED BY <1>3, <1>7, <1>8

\* A pack that is new was just compiled from the catalogue as it is.
LEMMA NewPacks ==
  ASSUME ContextInv, [ContextNext]_contextVars, NEW pack \in contextPacks' \ contextPacks
  PROVE  wholePack(pack) /\ backedPack(pack)
<1>1. contextPacks' # contextPacks
  OBVIOUS
<1>2. CompileContext \/ compileRunSpecInput
  BY <1>1 DEF ContextNext, contextVars, AddContextItem, addContextItem, BootstrapContextItem,
     bootstrapVersionedContextItem, RetireContextItem, retireContextItem, ReplaceContextPrecedence,
     replaceContextPrecedence, ensureBundledContextPrecedence
<1>3. CASE CompileContext
  <2>1. PICK input \in Requests :
          compileContext(input) # Refused /\ persistContextPack(compileContext(input))
    BY <1>3 DEF CompileContext
  <2>2. pack = compileContext(input)
    BY <2>1 DEF persistContextPack
  <2> QED BY <2>1, <2>2, CompiledPack
<1>4. CASE compileRunSpecInput
  <2>1. PICK input : compileContext(input) # Refused /\ persistContextPack(compileContext(input))
    BY <1>4 DEF compileRunSpecInput
  <2>2. pack = compileContext(input)
    BY <2>1 DEF persistContextPack
  <2> QED BY <2>1, <2>2, CompiledPack
<1> QED BY <1>2, <1>3, <1>4

\* A pack holds one version of an item and one item of a meaning, and all it was asked for
\* or depends on, or what outranks it (compileContext refuses what cannot be whole).
THEOREM PackWholeness == ContextSpec => PackIsWhole
<1>1. ContextInv /\ [ContextNext]_contextVars =>
        [\A pack \in contextPacks' \ contextPacks : wholePack(pack)]_contextVars
  BY NewPacks
<1> QED BY <1>1, ContextInvHolds, PTL DEF ContextSpec, PackIsWhole, wholePack

\* What a pack grants, an item of it allows and none that ranks as high denies
\* (compileCapabilities takes the effect of the highest rank, and refuses two of them).
THEOREM GrantSafety == ContextSpec => GrantIsBacked
<1>1. ContextInv /\ [ContextNext]_contextVars =>
        [\A pack \in contextPacks' \ contextPacks, c \in UNION {DOMAIN p.capabilities : p \in contextPacks'} :
           c \in DOMAIN pack.capabilities /\ pack.capabilities[c] = "allow" =>
             grantBacked(pack.items, c)]_contextVars
  BY NewPacks DEF backedPack
<1> QED BY <1>1, ContextInvHolds, PTL DEF ContextSpec, GrantIsBacked, grantBacked
=============================================================================
