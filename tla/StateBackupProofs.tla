--------------------------- MODULE StateBackupProofs ---------------------------
(***************************************************************************)
(* What StateBackup keeps for every number of processes, retention, floor  *)
(* and state of the directory.  The floor rests on what trim keeps, which  *)
(* is counted by rank; the saved state and the usable store on what each   *)
(* command has made sure of as long as it is alone with the directory.     *)
(***************************************************************************)
EXTENDS StateBackup, FiniteSetTheorems, TLAPS

-----------------------------------------------------------------------------
(***************************************************************************)
(* The invariant.                                                          *)
(***************************************************************************)
Entry == [name : Nat, file : State, verified : BOOLEAN]
Kinds == {"none", "backup", "restore", "rebuild", "open"}
Steps == creating \cup {"idle", "validate", "replace", "migrate", "candidate", "swap"}
Command == [kind : Kinds, step : Steps, raw : BOOLEAN, name : Nat, target : Nat,
            copy : State \cup {None}, alone : BOOLEAN]

TypeOK ==
  /\ file \in State \cup {None} /\ served \in State \cup {None} /\ attached \in BOOLEAN
  /\ backups \in Seq(Entry) /\ taken \in Nat /\ writes \in Nat
  /\ op \in [Actors -> Command]

\* A name is in the directory once, and what is marked as verified can be restored.
DirectoryOK ==
  /\ \A i \in DOMAIN backups : /\ backups[i].name <= taken
                               /\ backups[i].verified => restorable(backups[i].file)
  /\ \A i, j \in DOMAIN backups : backups[i].name = backups[j].name => i = j

\* The steps of each kind of command.
KindOK(a) ==
  /\ op[a].kind = "none" <=> op[a].step = "idle"
  /\ op[a].step \in {"validate", "replace"} => op[a].kind = "restore"
  /\ op[a].step \in {"candidate", "swap"} => op[a].kind = "rebuild"
  /\ op[a].step = "migrate" => op[a].kind = "open"

\* What is being written has a name of its own, and is not verified before it is whole.
Naming == {"rename", "metadata", "verify"}
NameOK(a) ==
  /\ op[a].step \in Naming => op[a].name <= taken
  /\ op[a].target <= taken
  /\ at(a, "rename") => /\ op[a].copy \in State
                        /\ \A i \in DOMAIN backups :
                             backups[i].name = op[a].name => op[a].raw /\ ~backups[i].verified
NamesApart ==
  \A a, b \in Actors : a # b =>
    /\ op[a].step \in Naming /\ op[b].step \in Naming => op[a].name # op[b].name
    /\ at(a, "rename") /\ ~op[a].raw /\ op[b].kind = "restore" => op[b].target # op[a].name

\* A migration is under way only on a store of an earlier schema, that nobody serves,
\* and there is one at a time.
OpenOK ==
  \A a \in Actors : op[a].kind = "open" =>
    /\ served = None /\ file \in State /\ file.schema = "migratable"
    /\ \A b \in Actors \ {a} : op[b].kind # "open"

\* How far the state a command is to overwrite is saved, while the command is alone.
newest == backups[Len(backups)]
Saved(a) ==
  /\ at(a, "rename") =>
       op[a].copy = file /\ (op[a].raw => backups # <<>> /\ newest.name = op[a].name)
  /\ op[a].step \in {"metadata", "verify"} =>
       backups # <<>> /\ newest.file = file /\ newest.name = op[a].name
  /\ at(a, "trim") => backups # <<>> /\ newest.file = file
  /\ op[a].step \in {"validate", "replace", "migrate"} =>
       \E i \in DOMAIN backups : backups[i].file = file
SavedOK ==
  \A a \in Actors : op[a].alone /\ served = None /\ op[a].kind \in {"restore", "open"} => Saved(a)

\* What is about to be installed has passed its validation.
TargetOK ==
  \A a \in Actors : op[a].alone /\ at(a, "replace") =>
    exists(op[a].target) /\ restorable(entry(op[a].target).file)

IInv ==
  /\ TypeOK /\ DirectoryOK
  /\ \A a \in Actors : KindOK(a) /\ NameOK(a)
  /\ NamesApart /\ OpenOK /\ SavedOK /\ TargetOK

-----------------------------------------------------------------------------
(***************************************************************************)
(* Positions counted by rank, and what a trim keeps.                       *)
(***************************************************************************)
\* The rank of a position is one of as many numbers as there are positions.
LEMMA RankBounds ==
  ASSUME NEW S \in SUBSET Nat, IsFiniteSet(S), NEW i \in S
  PROVE  rank(S, i) \in 1..Cardinality(S)
<1> DEFINE T == {j \in S : j <= i}
<1>1. T \in SUBSET S /\ T # {}
  OBVIOUS
<1>2. IsFiniteSet(T) /\ Cardinality(T) <= Cardinality(S)
  BY <1>1, FS_Subset
<1>3. Cardinality(T) # 0
  BY <1>1, <1>2, FS_EmptySet
<1>4. Cardinality(T) \in Nat /\ Cardinality(S) \in Nat
  BY <1>2, FS_CardinalityType
<1> HIDE DEF T
<1>5. Cardinality(T) \in 1..Cardinality(S)
  BY <1>2, <1>3, <1>4
<1> QED BY <1>5 DEF rank, T

\* A later position has a higher rank.
LEMMA RankGrows ==
  ASSUME NEW S \in SUBSET Nat, IsFiniteSet(S), NEW i \in S, NEW j \in S, i < j
  PROVE  rank(S, i) < rank(S, j)
<1> DEFINE T(k) == {x \in S : x <= k}
<1>1. T(j) \in SUBSET S /\ T(i) \in SUBSET T(j) /\ T(i) # T(j)
  <2>1. j \in T(j) /\ j \notin T(i)
    OBVIOUS
  <2>2. \A x \in S : x \in Nat /\ (x <= i => x <= j)
    OBVIOUS
  <2>3. \A x \in T(i) : x \in T(j)
    BY <2>2
  <2>4. \A x \in T(j) : x \in S
    OBVIOUS
  <2> QED BY <2>1, <2>3, <2>4
<1>2. IsFiniteSet(T(j))
  BY <1>1, FS_Subset
<1>3. Cardinality(T(i)) <= Cardinality(T(j)) /\ Cardinality(T(i)) # Cardinality(T(j))
      /\ IsFiniteSet(T(i))
  BY <1>1, <1>2, FS_Subset
<1>4. Cardinality(T(i)) \in Nat /\ Cardinality(T(j)) \in Nat
  BY <1>2, <1>3, FS_CardinalityType
<1> HIDE DEF T
<1>5. Cardinality(T(i)) < Cardinality(T(j))
  BY <1>3, <1>4
<1> QED BY <1>5 DEF rank, T

\* Ranks tell positions apart.
LEMMA RankApart ==
  ASSUME NEW S \in SUBSET Nat, IsFiniteSet(S), NEW i \in S, NEW j \in S,
         rank(S, i) = rank(S, j)
  PROVE  i = j
<1>1. rank(S, i) \in Nat /\ rank(S, j) \in Nat
  BY RankBounds
<1>2. CASE i < j
  BY <1>1, <1>2, RankGrows
<1>3. CASE j < i
  BY <1>1, <1>3, RankGrows
<1> QED BY <1>2, <1>3

\* Every rank is that of a position.
LEMMA RankOnto ==
  ASSUME NEW S \in SUBSET Nat, IsFiniteSet(S), NEW k \in 1..Cardinality(S)
  PROVE  \E i \in S : rank(S, i) = k
<1> DEFINE N == 1..Cardinality(S)
           f == [i \in S |-> rank(S, i)]
<1>1. Cardinality(S) \in Nat
  BY FS_CardinalityType
<1>2. f \in [S -> N]
  BY RankBounds
<1>3. \A i, j \in S : f[i] = f[j] => i = j
  BY RankApart
<1>4. f \in Injection(S, N)
  BY <1>2, <1>3 DEF Injection, IsInjective
<1>5. IsFiniteSet(N) /\ Cardinality(N) = Cardinality(S)
  BY <1>1, FS_Interval
<1>6. f \in Surjection(S, N)
  BY <1>4, <1>5, FS_Injection
<1>7. \E i \in S : f[i] = k
  BY <1>6 DEF Surjection
<1> QED BY <1>7

\* What is picked is what was at the positions, each at its rank.
LEMMA PickedEntries ==
  ASSUME NEW dir, NEW S \in SUBSET Nat, IsFiniteSet(S)
  PROVE  /\ DOMAIN pick(dir, S) = 1..Cardinality(S)
         /\ \A i \in S : /\ rank(S, i) \in DOMAIN pick(dir, S)
                         /\ pick(dir, S)[rank(S, i)] = dir[i]
         /\ \A k \in DOMAIN pick(dir, S) : \E i \in S : rank(S, i) = k /\ pick(dir, S)[k] = dir[i]
<1>1. DOMAIN pick(dir, S) = 1..Cardinality(S)
  BY DEF pick
<1>2. ASSUME NEW i \in S
      PROVE  rank(S, i) \in 1..Cardinality(S) /\ pick(dir, S)[rank(S, i)] = dir[i]
  <2>1. rank(S, i) \in 1..Cardinality(S)
    BY RankBounds
  <2>2. (CHOOSE j \in S : rank(S, j) = rank(S, i)) = i
    BY RankApart
  <2> QED BY <2>1, <2>2 DEF pick
<1>3. \A k \in 1..Cardinality(S) : \E i \in S : rank(S, i) = k
  BY RankOnto
<1> QED BY <1>1, <1>2, <1>3

\* No verified entry at a picked position is lost.
LEMMA PickedVerified ==
  ASSUME NEW dir, NEW S \in SUBSET Nat, IsFiniteSet(S), S \subseteq DOMAIN dir
  PROVE  /\ IsFiniteSet(verified(pick(dir, S)))
         /\ Cardinality(verified(dir) \cap S) <= Cardinality(verified(pick(dir, S)))
<1> DEFINE A == verified(dir) \cap S
           B == verified(pick(dir, S))
           f == [i \in A |-> rank(S, i)]
<1>1. ASSUME NEW i \in A PROVE rank(S, i) \in B
  <2>1. rank(S, i) \in DOMAIN pick(dir, S) /\ pick(dir, S)[rank(S, i)] = dir[i]
    BY PickedEntries
  <2> QED BY <2>1 DEF verified
<1>9. f \in [A -> B]
  BY <1>1
<1>2. \A i, j \in A : f[i] = f[j] => i = j
  BY RankApart
<1>3. f \in Injection(A, B)
  BY <1>9, <1>2 DEF Injection, IsInjective
<1>4. B \in SUBSET (1..Cardinality(S))
  <2>1. DOMAIN pick(dir, S) = 1..Cardinality(S)
    BY PickedEntries
  <2> QED BY <2>1 DEF verified
<1>5. IsFiniteSet(1..Cardinality(S))
  BY FS_CardinalityType, FS_Interval
<1>6. IsFiniteSet(B)
  BY <1>4, <1>5, FS_Subset
<1>7. Cardinality(A) <= Cardinality(B)
  BY <1>3, <1>6, FS_Injection
<1> QED BY <1>6, <1>7

\* The first positions, by rank, are as many as their ranks.
LEMMA FirstByRank ==
  ASSUME NEW S \in SUBSET Nat, IsFiniteSet(S), NEW k \in 0..Cardinality(S)
  PROVE  LET L == {i \in S : rank(S, i) <= k} IN IsFiniteSet(L) /\ k <= Cardinality(L)
<1> DEFINE L == {i \in S : rank(S, i) <= k}
           g == [n \in 1..k |-> CHOOSE i \in S : rank(S, i) = n]
<1>1. IsFiniteSet(L) /\ Cardinality(S) \in Nat
  BY FS_Subset, FS_CardinalityType
<1>2. ASSUME NEW n \in 1..k PROVE g[n] \in S /\ rank(S, g[n]) = n
  <2>1. \E i \in S : rank(S, i) = n
    BY <1>1, RankOnto
  <2> QED BY <2>1
<1>3. g \in [1..k -> L]
  BY <1>1, <1>2
<1>4. \A m, n \in 1..k : g[m] = g[n] => m = n
  BY <1>2
<1>5. g \in Injection(1..k, L)
  BY <1>3, <1>4 DEF Injection, IsInjective
<1>6. Cardinality(1..k) = k
  BY <1>1, FS_Interval
<1>7. Cardinality(1..k) <= Cardinality(L)
  BY <1>1, <1>5, FS_Injection
<1> QED BY <1>1, <1>6, <1>7
\* As many verified entries as the floor asks for are kept, if there were so many.
LEMMA KeptReachesFloor ==
  ASSUME NEW dir \in Seq(Entry), NEW retention \in Nat, Floor <= Cardinality(verified(dir))
  PROVE  Floor <= Cardinality(verified(dir) \cap kept(dir, retention))
<1> DEFINE V == verified(dir)
           recent == (Len(dir) - retention + 1)..Len(dir)
           R == V \cap recent
           k == Floor - Cardinality(R)
           L == {i \in V : rank(V, i) <= k}
           K == V \cap kept(dir, retention)
<1>1. V \in SUBSET (1..Len(dir)) /\ V \in SUBSET Nat /\ Len(dir) \in Nat
  BY DEF verified
<1>2. IsFiniteSet(V) /\ Cardinality(V) \in Nat
  <2>1. IsFiniteSet(1..Len(dir))
    BY <1>1, FS_Interval
  <2> QED BY <1>1, <2>1, FS_Subset, FS_CardinalityType
<1>3. IsFiniteSet(R) /\ Cardinality(R) \in Nat
  <2>1. R \in SUBSET V
    OBVIOUS
  <2> HIDE DEF R
  <2> QED BY <1>2, <2>1, FS_Subset, FS_CardinalityType
<1>4. Floor \in Nat
  BY BackupAssumption
<1>5. K = R \cup L
  <2>1. \A i \in V : rank(V, i) \in Nat
    BY <1>1, <1>2, RankBounds
  <2>2. \A i \in V : rank(V, i) <= k <=> rank(V, i) + Cardinality(R) <= Floor
    BY <1>3, <1>4, <2>1
  <2>3. V \subseteq DOMAIN dir
    BY DEF verified
  <2>4. \A i \in V : i \in kept(dir, retention) <=> i \in recent \/ rank(V, i) + Cardinality(R) <= Floor
    BY <2>3 DEF kept
  <2> QED BY <2>2, <2>4
<1>6. IsFiniteSet(K) /\ Cardinality(K) \in Nat
  <2>1. K \in SUBSET V
    OBVIOUS
  <2> HIDE DEF K
  <2> QED BY <1>2, <2>1, FS_Subset, FS_CardinalityType
<1>7. CASE Floor <= Cardinality(R)
  <2>1. R \in SUBSET K
    BY <1>5
  <2>2. Cardinality(R) <= Cardinality(K)
    <3> HIDE DEF R, K
    <3> QED BY <1>6, <2>1, FS_Subset
  <2> HIDE DEF R, K
  <2> QED BY <1>3, <1>4, <1>6, <1>7, <2>2 DEF K
<1>8. CASE ~(Floor <= Cardinality(R))
  <2>1. k \in 0..Cardinality(V)
    BY <1>2, <1>3, <1>4, <1>8
  <2>2. IsFiniteSet(L) /\ k <= Cardinality(L)
    <3> HIDE DEF V, k
    <3> QED BY <1>1, <1>2, <2>1, FirstByRank
  <2>3. CASE R \cap L = {}
    <3>1. Cardinality(K) = Cardinality(R) + Cardinality(L) - Cardinality(R \cap L)
      <4> HIDE DEF R, L, K
      <4> QED BY <1>3, <1>5, <2>2, FS_Union
    <3>2. Cardinality(R \cap L) = 0
      BY <2>3, FS_EmptySet
    <3>3. Cardinality(L) \in Nat
      BY <2>2, FS_CardinalityType
    <3>4. Floor <= Cardinality(K)
      <4> HIDE DEF R, L, K
      <4> QED BY <1>3, <1>4, <1>6, <2>2, <3>1, <3>2, <3>3
    <3> QED BY <3>4
  <2>4. CASE R \cap L # {}
    <3>1. PICK i \in V : i \in recent /\ rank(V, i) <= k
      BY <2>4
    <3>2. ASSUME NEW j \in V, j \notin recent PROVE rank(V, j) <= k
      <4>1. j < i
        BY <1>1, <3>1, <3>2
      <4>2. rank(V, j) < rank(V, i) /\ rank(V, i) \in Nat /\ rank(V, j) \in Nat
        BY <1>1, <1>2, <4>1, RankGrows, RankBounds
      <4> QED BY <2>1, <3>1, <4>2
    <3>3. K = V
      BY <1>5, <3>2
    <3> QED BY <3>3
  <2> QED BY <2>3, <2>4
<1> QED BY <1>7, <1>8

\* A trim keeps the newest entry, entries that were there, and the floor.
LEMMA TrimKeeps ==
  ASSUME NEW dir \in Seq(Entry), NEW retention \in Nat \ {0}
  PROVE  LET S == kept(dir, retention)
             left == trimBackups(dir, retention)
         IN  /\ left \in Seq(Entry) /\ IsFiniteSet(verified(left))
             /\ S \in SUBSET Nat /\ IsFiniteSet(S) /\ S \subseteq DOMAIN dir
             /\ \A k \in DOMAIN left : \E i \in S : rank(S, i) = k /\ left[k] = dir[i]
             /\ dir # <<>> => \E k \in DOMAIN left : left[k] = dir[Len(dir)]
             /\ Floor <= Cardinality(verified(dir)) => Floor <= Cardinality(verified(left))
<1> DEFINE S == kept(dir, retention)
           left == trimBackups(dir, retention)
<1>1. S \subseteq DOMAIN dir /\ DOMAIN dir = 1..Len(dir) /\ Len(dir) \in Nat
  BY DEF kept
<1>2. S \in SUBSET Nat /\ IsFiniteSet(S)
  <2>1. S \in SUBSET (1..Len(dir)) /\ 1..Len(dir) \subseteq Nat
    BY <1>1
  <2>2. IsFiniteSet(1..Len(dir))
    BY <1>1, FS_Interval
  <2> HIDE DEF S
  <2> QED BY <2>1, <2>2, FS_Subset
<1>3. left = pick(dir, S)
  BY DEF trimBackups
<1> HIDE DEF S, left
<1>4. \A k \in DOMAIN left : \E i \in S : rank(S, i) = k /\ left[k] = dir[i]
  BY <1>2, <1>3, PickedEntries
<1>5. left \in Seq(Entry)
  <2>1. DOMAIN left = 1..Cardinality(S) /\ Cardinality(S) \in Nat
    BY <1>2, <1>3, PickedEntries, FS_CardinalityType
  <2>2. \A k \in 1..Cardinality(S) : left[k] \in Entry
    BY <1>1, <1>4, <2>1
  <2>3. left = [k \in 1..Cardinality(S) |-> left[k]]
    BY <1>3, <2>1 DEF pick
  <2> QED BY <2>1, <2>2, <2>3
<1>6. ASSUME dir # <<>> PROVE \E k \in DOMAIN left : left[k] = dir[Len(dir)]
  <2>1. Len(dir) \in S
    BY <1>1, <1>6 DEF S, kept
  <2> QED BY <1>2, <1>3, <2>1, PickedEntries
<1>7. IsFiniteSet(verified(left)) /\ Cardinality(verified(dir) \cap S) <= Cardinality(verified(left))
  BY <1>1, <1>2, <1>3, PickedVerified
<1>8. ASSUME Floor <= Cardinality(verified(dir)) PROVE Floor <= Cardinality(verified(left))
  <2>1. Floor <= Cardinality(verified(dir) \cap S)
    BY <1>8, KeptReachesFloor DEF S
  <2>2. Floor \in Nat /\ Cardinality(verified(left)) \in Nat
    BY <1>7, BackupAssumption, FS_CardinalityType
  <2>3. IsFiniteSet(verified(dir) \cap S)
    BY <1>2, FS_Subset
  <2>4. Cardinality(verified(dir) \cap S) \in Nat
    BY <2>3, FS_CardinalityType
  <2> QED BY <1>7, <2>1, <2>2, <2>4
<1> QED BY <1>1, <1>2, <1>4, <1>5, <1>6, <1>7, <1>8 DEF S, left
-----------------------------------------------------------------------------
(***************************************************************************)
(* What one command's step leaves of the others.                           *)
(***************************************************************************)
\* A command that goes on as it was, but may no longer be alone.
Watches(b) ==
  /\ op'[b] \in Command
  /\ op'[b].kind = op[b].kind /\ op'[b].step = op[b].step /\ op'[b].raw = op[b].raw
  /\ op'[b].name = op[b].name /\ op'[b].target = op[b].target /\ op'[b].copy = op[b].copy
  /\ op'[b].alone => op[b].alone

\* While it is alone the store and the directory are as it left them.
Aside(b) ==
  \/ op'[b] = Idle
  \/ /\ Watches(b)
     /\ op'[b].alone /\ op[b].kind \in {"restore", "open"} =>
          backups' = backups /\ (served' = None => UNCHANGED <<file, served>>)
     /\ op[b].kind = "open" => served' = None /\ file' \in State /\ file'.schema = "migratable"

\* A file that is being written in place is not verified, and no other name is taken before
\* its rename.
NamesFrom(b) ==
  at(b, "rename") => \A i \in DOMAIN backups' :
    backups'[i].name = op[b].name => op[b].raw /\ ~backups'[i].verified

\* The names of the command that moves are its own, or fresh.
OwnNames(a) ==
  /\ op'[a].step \in Naming =>
       \/ op[a].step \in Naming /\ op'[a].name = op[a].name
       \/ op'[a].name = taken + 1
  /\ op'[a].step = "rename" /\ ~op'[a].raw =>
       \/ at(a, "rename") /\ ~op[a].raw /\ op'[a].name = op[a].name
       \/ op'[a].name = taken + 1
  /\ op'[a].kind = "restore" =>
       \/ op[a].kind = "restore" /\ op'[a].target = op[a].target
       \/ exists(op'[a].target)

\* The command that moves is itself in order afterwards.
OwnOK(a) ==
  /\ op' \in [Actors -> Command]
  /\ OwnNames(a) /\ KindOK(a)' /\ NameOK(a)'
  /\ op'[a].alone /\ served' = None /\ op'[a].kind \in {"restore", "open"} => Saved(a)'
  /\ op'[a].alone /\ op'[a].step = "replace" =>
       (exists(op[a].target) /\ restorable(entry(op[a].target).file))'
  /\ op'[a].kind = "open" =>
       /\ served' = None /\ file' \in State /\ file'.schema = "migratable"
       /\ \A b \in Actors \ {a} : op'[b].kind # "open"

\* The store and the directory stay well formed.
StoreOK ==
  /\ file' \in State \cup {None} /\ served' \in State \cup {None} /\ attached' \in BOOLEAN
  /\ backups' \in Seq(Entry) /\ taken' \in {taken, taken + 1} /\ writes' \in Nat
  /\ DirectoryOK'

\* The idle command is a command that does nothing.
LEMMA IdleCommand ==
  /\ Idle \in Command /\ Idle.kind = "none" /\ Idle.step = "idle" /\ Idle.alone
  /\ Idle.name = 0 /\ Idle.target = 0 /\ Idle.raw = FALSE
BY DEF Idle, Command, Kinds, Steps

\* A command that stands aside is still in order.
LEMMA AsideKept ==
  ASSUME IInv, StoreOK, op' \in [Actors -> Command], NEW b \in Actors, Aside(b), NamesFrom(b)
  PROVE  /\ KindOK(b)' /\ NameOK(b)'
         /\ op'[b].alone /\ served' = None /\ op'[b].kind \in {"restore", "open"} => Saved(b)'
         /\ op'[b].alone /\ op'[b].step = "replace" =>
              (exists(op[b].target) /\ restorable(entry(op[b].target).file))'
         /\ op'[b].kind = "open" => served' = None /\ file' \in State /\ file'.schema = "migratable"
<1>1. /\ taken \in Nat /\ taken' \in {taken, taken + 1} /\ op[b] \in Command
      /\ KindOK(b) /\ NameOK(b)
  BY DEF IInv, TypeOK, StoreOK
<1>2. CASE op'[b] = Idle
  BY <1>1, <1>2, IdleCommand DEF KindOK, NameOK, Naming, at
<1>3. CASE op'[b] # Idle
  <2>1. Watches(b)
    BY <1>3 DEF Aside
  <2>2. KindOK(b)'
    BY <1>1, <2>1 DEF KindOK, Watches
  <2>3. NameOK(b)'
    <3>1. op[b].name \in Nat /\ op[b].target \in Nat
      BY <1>1 DEF Command
    <3>2. (op[b].step \in Naming => op[b].name <= taken)' /\ (op[b].target <= taken)'
      BY <1>1, <2>1, <3>1 DEF NameOK, Watches
    <3>3. ASSUME at(b, "rename")', NEW i \in DOMAIN backups', backups'[i].name = op'[b].name
          PROVE  op'[b].raw /\ ~backups'[i].verified
      BY <1>1, <2>1, <3>3 DEF NameOK, NamesFrom, Watches, at
    <3>4. at(b, "rename")' => op'[b].copy \in State
      BY <1>1, <2>1 DEF NameOK, Watches, at
    <3> QED BY <3>2, <3>3, <3>4 DEF NameOK
  <2>4. ASSUME op'[b].alone, served' = None, op'[b].kind \in {"restore", "open"} PROVE Saved(b)'
    <3>1. UNCHANGED <<file, backups, served>> /\ op[b].alone
      BY <1>3, <2>1, <2>4 DEF Aside, Watches
    <3>2. Saved(b)
      BY <2>1, <2>4, <3>1 DEF IInv, SavedOK, Watches
    <3> QED BY <2>1, <3>1, <3>2 DEF Saved, Watches, at, newest
  <2>5. ASSUME op'[b].alone, op'[b].step = "replace"
        PROVE  (exists(op[b].target) /\ restorable(entry(op[b].target).file))'
    <3>1. op[b].alone /\ at(b, "replace") /\ op[b].kind = "restore" /\ op'[b].target = op[b].target
      BY <1>1, <2>1, <2>5 DEF Watches, at, KindOK
    <3>2. CASE backups' = backups
      BY <3>1, <3>2 DEF IInv, TargetOK, exists, entry
    <3>3. CASE backups' # backups
      BY <1>3, <2>5, <3>1, <3>3 DEF Aside
    <3> QED BY <3>2, <3>3
  <2> QED BY <1>3, <2>1, <2>2, <2>3, <2>4, <2>5 DEF Aside, Watches
<1> QED BY <1>2, <1>3
\* A step of one command that leaves the others aside keeps the invariant.
LEMMA StepOfOne ==
  ASSUME IInv, StoreOK, NEW a \in Actors, OwnOK(a),
         \A b \in Actors \ {a} : Aside(b) /\ NamesFrom(b)
  PROVE  IInv'
<1>1. \A b \in Actors \ {a} :
        /\ KindOK(b)' /\ NameOK(b)'
        /\ op'[b].alone /\ served' = None /\ op'[b].kind \in {"restore", "open"} => Saved(b)'
        /\ op'[b].alone /\ op'[b].step = "replace" =>
             (exists(op[b].target) /\ restorable(entry(op[b].target).file))'
        /\ op'[b].kind = "open" => served' = None /\ file' \in State /\ file'.schema = "migratable"
  BY AsideKept DEF OwnOK
<1>2. TypeOK' /\ DirectoryOK'
  BY DEF StoreOK, OwnOK, TypeOK, IInv
<1>3. \A b \in Actors : KindOK(b)' /\ NameOK(b)'
  BY <1>1 DEF OwnOK
<1>4. SavedOK'
  BY <1>1 DEF OwnOK, SavedOK
<1>5. TargetOK'
  BY <1>1 DEF OwnOK, TargetOK, at
<1>6. \A b \in Actors \ {a} : op'[b].kind = op[b].kind \/ op'[b].kind = "none"
  BY IdleCommand DEF Aside, Watches
<1>7. OpenOK'
  <2> SUFFICES ASSUME NEW b \in Actors, op'[b].kind = "open"
               PROVE  /\ served' = None /\ file' \in State /\ file'.schema = "migratable"
                      /\ \A c \in Actors \ {b} : op'[c].kind # "open"
    BY DEF OpenOK
  <2>1. CASE b = a
    BY <2>1 DEF OwnOK
  <2>2. CASE b # a
    <3>1. op[b].kind = "open" /\ op'[a].kind # "open"
      BY <1>6, <2>2 DEF OwnOK
    <3>2. \A c \in Actors \ {b} : op[c].kind # "open"
      BY <3>1 DEF IInv, OpenOK
    <3> QED BY <1>1, <1>6, <2>2, <3>1, <3>2
  <2> QED BY <2>1, <2>2
<1>8. NamesApart'
  <2>1. \A b \in Actors \ {a} :
          /\ op'[b].step \in Naming => op[b].step \in Naming /\ op'[b].name = op[b].name
          /\ op'[b].step = "rename" => at(b, "rename")
          /\ op'[b].step = "rename" /\ ~op'[b].raw => ~op[b].raw
          /\ op'[b].kind = "restore" => op[b].kind = "restore" /\ op'[b].target = op[b].target
    BY IdleCommand DEF Aside, Watches, Naming, at
  <2>2. \A b \in Actors : /\ op[b].step \in Naming => op[b].name # taken + 1
                          /\ op[b].target # taken + 1
    BY DEF IInv, TypeOK, NameOK, Command
  <2>3. \A n : exists(n) => n # taken + 1
    BY DEF IInv, TypeOK, DirectoryOK, exists, Entry
  <2>4. \A b \in Actors : at(b, "rename") /\ ~op[b].raw => ~exists(op[b].name) /\ op[b].step \in Naming
    BY DEF IInv, NameOK, exists, at, Naming
  <2>5. NamesApart
    BY DEF IInv
  <2>6. ASSUME NEW b \in Actors, NEW c \in Actors, b # c, op'[b].step \in Naming, op'[c].step \in Naming
        PROVE  op'[b].name # op'[c].name
    <3>1. CASE b # a /\ c # a
      BY <2>1, <2>5, <2>6, <3>1 DEF NamesApart
    <3>2. CASE b = a
      BY <2>1, <2>2, <2>5, <2>6, <3>2 DEF NamesApart, OwnOK, OwnNames
    <3>3. CASE c = a
      BY <2>1, <2>2, <2>5, <2>6, <3>3 DEF NamesApart, OwnOK, OwnNames
    <3> QED BY <3>1, <3>2, <3>3
  <2>7. ASSUME NEW b \in Actors, NEW c \in Actors, b # c, op'[b].step = "rename", ~op'[b].raw,
               op'[c].kind = "restore"
        PROVE  op'[c].target # op'[b].name
    <3>1. CASE b # a /\ c # a
      <4>1. at(b, "rename") /\ ~op[b].raw /\ op'[b].name = op[b].name
        BY <2>1, <2>7, <3>1 DEF Naming
      <4>2. op[c].kind = "restore" /\ op'[c].target = op[c].target
        BY <2>1, <2>7, <3>1
      <4> QED BY <2>5, <2>7, <4>1, <4>2 DEF NamesApart
    <3>2. CASE b = a
      <4>1. \/ at(a, "rename") /\ ~op[a].raw /\ op'[a].name = op[a].name
            \/ op'[a].name = taken + 1
        BY <2>7, <3>2 DEF OwnOK, OwnNames
      <4>2. op[c].kind = "restore" /\ op'[c].target = op[c].target
        BY <2>1, <2>7, <3>2
      <4>3. op[c].target # taken + 1
        BY <2>2
      <4>4. CASE at(a, "rename") /\ ~op[a].raw /\ op'[a].name = op[a].name
        BY <2>5, <2>7, <3>2, <4>2, <4>4 DEF NamesApart
      <4> QED BY <3>2, <4>1, <4>2, <4>3, <4>4
    <3>3. CASE c = a
      <4>1. at(b, "rename") /\ ~op[b].raw /\ op'[b].name = op[b].name
        BY <2>1, <2>7, <3>3 DEF Naming
      <4>2. ~exists(op[b].name)
        BY <2>4, <4>1
      <4>3. \/ op[a].kind = "restore" /\ op'[a].target = op[a].target
            \/ exists(op'[a].target)
        BY <2>7, <3>3 DEF OwnOK, OwnNames
      <4>4. op[a].kind = "restore" => op[a].target # op[b].name
        BY <2>5, <2>7, <3>3, <4>1 DEF NamesApart
      <4>5. CASE exists(op'[a].target)
        <5> DEFINE t == op'[a].target
                   n == op[b].name
        <5>1. exists(t) /\ ~exists(n)
          BY <4>2, <4>5
        <5> HIDE DEF t, n
        <5>2. t # n
          BY <5>1
        <5> QED BY <3>3, <4>1, <5>2 DEF t, n
      <4> QED BY <3>3, <4>1, <4>3, <4>4, <4>5
    <3> QED BY <3>1, <3>2, <3>3
  <2> QED BY <2>6, <2>7 DEF NamesApart, at
<1> QED BY <1>2, <1>3, <1>4, <1>5, <1>7, <1>8 DEF IInv
-----------------------------------------------------------------------------
(***************************************************************************)
(* Each step keeps the invariant.                                          *)
(***************************************************************************)
\* A step that leaves the directory alone leaves it well formed.
LEMMA SameDirectory ==
  ASSUME IInv, backups' = backups, taken' \in {taken, taken + 1}, writes' \in Nat,
         file' \in State \cup {None}, served' \in State \cup {None}, attached' \in BOOLEAN
  PROVE  StoreOK /\ \A b \in Actors : NamesFrom(b)
<1>1. /\ backups \in Seq(Entry) /\ taken \in Nat /\ DirectoryOK
      /\ \A i \in DOMAIN backups : backups[i].name \in Nat
  <2>1. backups \in Seq(Entry) /\ taken \in Nat /\ DirectoryOK
    BY DEF IInv, TypeOK
  <2>2. \A i \in DOMAIN backups : backups[i] \in Entry
    BY <2>1
  <2> QED BY <2>1, <2>2 DEF Entry
<1>2. DirectoryOK'
  BY <1>1 DEF DirectoryOK
<1>3. \A b \in Actors : NamesFrom(b)
  BY DEF IInv, NameOK, NamesFrom, at
<1> QED BY <1>1, <1>2, <1>3 DEF StoreOK

\* A command nobody touches stands aside while store and directory stay.
LEMMA Untouched ==
  ASSUME IInv, NEW b \in Actors, op'[b] = op[b], UNCHANGED <<file, served, backups>>
  PROVE  Aside(b)
BY DEF IInv, TypeOK, OpenOK, Aside, Watches

\* A command that is no longer alone stands aside whatever happens to the directory, and
\* to the store if it is not opening it.
LEMMA Disturbed ==
  ASSUME IInv, NEW a \in Actors, NEW b \in Actors \ {a}, op'[b] = disturb(a)[b],
         op[b].kind = "open" => UNCHANGED <<file, served>>
  PROVE  Aside(b)
<1>1. op[b] \in Command
  BY DEF IInv, TypeOK
<1>2. CASE op[b].kind \in {"none", "backup"}
  <2>1. op'[b] = op[b]
    BY <1>2 DEF disturb
  <2> QED BY <1>1, <1>2, <2>1 DEF Aside, Watches
<1>3. CASE op[b].kind \notin {"none", "backup"}
  <2>1. op'[b] = [op[b] EXCEPT !.alone = FALSE]
    BY <1>3 DEF disturb
  <2>2. Watches(b) /\ ~op'[b].alone
    BY <1>1, <2>1 DEF Watches, Command
  <2> QED BY <2>2 DEF Aside, IInv, OpenOK
<1> QED BY <1>2, <1>3

\* A command that ends is in order.
LEMMA EndsOK ==
  ASSUME NEW a \in Actors, op' \in [Actors -> Command], op'[a] = Idle, taken' \in Nat
  PROVE  OwnOK(a)
BY IdleCommand DEF OwnOK, OwnNames, KindOK, NameOK, Naming, at

\* A step that changes nothing but the command of its actor.
LEMMA CalmStep ==
  ASSUME IInv, NEW a \in Actors, UNCHANGED <<store, backups, writes>>, taken' \in {taken, taken + 1},
         \A b \in Actors \ {a} : op'[b] = op[b], OwnOK(a)
  PROVE  IInv'
<1>1. file' = file /\ served' = served /\ attached' = attached /\ backups' = backups
  BY DEF store
<1>2. StoreOK /\ \A b \in Actors : NamesFrom(b)
  BY <1>1, SameDirectory DEF IInv, TypeOK
<1>3. \A b \in Actors \ {a} : Aside(b)
  BY <1>1, Untouched
<1> QED BY <1>2, <1>3, StepOfOne

\* A command that ends, and changes nothing.
LEMMA CommandEnds ==
  ASSUME IInv, NEW a \in Actors, done(a), UNCHANGED <<store, backups, taken, writes>>
  PROVE  IInv'
<1>1. op \in [Actors -> Command] /\ taken \in Nat
  BY DEF IInv, TypeOK
<1>2. op' \in [Actors -> Command] /\ op'[a] = Idle /\ \A b \in Actors \ {a} : op'[b] = op[b]
  BY <1>1, IdleCommand DEF done
<1>3. OwnOK(a)
  BY <1>1, <1>2, EndsOK
<1> QED BY <1>1, <1>2, <1>3, CalmStep

\* A command begins: with a name of the directory if it restores, and on a store of an
\* earlier schema that nobody serves if it opens it.
LEMMA CommandBegins ==
  ASSUME IInv, NEW a \in Actors, NEW kind \in {"backup", "restore", "open", "rebuild"}, NEW n \in Nat,
         begin(a, kind, "snapshot", n), n <= taken, kind = "restore" => exists(n),
         kind = "open" => /\ served = None /\ file # None /\ file.schema = "migratable"
                          /\ \A b \in Actors : op[b].kind # "open"
  PROVE  IInv'
<1>1. kind \in Kinds /\ kind # "none"
  BY DEF Kinds
<1>2. /\ op \in [Actors -> Command] /\ taken \in Nat /\ file \in State \cup {None}
      /\ UNCHANGED <<store, backups, taken, writes>>
      /\ op' = [op EXCEPT ![a] = [Idle EXCEPT !.kind = kind, !.step = "snapshot", !.target = n]]
  BY <1>1 DEF IInv, TypeOK, begin
<1>3. /\ op'[a] \in Command /\ op'[a].kind = kind /\ op'[a].step = "snapshot" /\ op'[a].target = n
      /\ op' \in [Actors -> Command] /\ \A b \in Actors \ {a} : op'[b] = op[b]
  BY <1>2, IdleCommand DEF Command, Kinds, Steps, creating
<1>4. OwnOK(a)
  BY <1>1, <1>2, <1>3 DEF OwnOK, OwnNames, KindOK, NameOK, Naming, at, Saved, store
<1> QED BY <1>2, <1>3, <1>4, CalmStep

\* Every command begins so.
LEMMA CommandsBegin ==
  ASSUME IInv, NEW a \in Actors,
         \/ createStateBackup(a) \/ restoreStateBackup(a) \/ openStore(a) \/ rebuild(a)
  PROVE  IInv'
<1>1. taken \in Nat /\ 0 \in Nat /\ 0 <= taken
  BY DEF IInv, TypeOK
<1>2. CASE createStateBackup(a)
  BY <1>1, <1>2, CommandBegins DEF createStateBackup
<1>3. CASE restoreStateBackup(a)
  <2>1. PICK n \in 1..MaxBackups : exists(n) /\ begin(a, "restore", "snapshot", n)
    BY <1>3 DEF restoreStateBackup
  <2>2. n \in Nat /\ n <= taken
    BY <2>1 DEF IInv, DirectoryOK, exists
  <2> QED BY <2>1, <2>2, CommandBegins
<1>4. CASE openStore(a)
  BY <1>1, <1>4, CommandBegins DEF openStore
<1>5. CASE rebuild(a)
  BY <1>1, <1>5, CommandBegins DEF rebuild
<1> QED BY <1>2, <1>3, <1>4, <1>5
\* What a command reads of the store alone is the store's state.
LEMMA ReadState ==
  ASSUME IInv, NEW c \in readLive
  PROVE  c \in State /\ (served = None => c = file)
BY BackupAssumption DEF readLive, current, IInv, TypeOK

\* A snapshot is taken under a fresh name.
LEMMA SnapshotTaken ==
  ASSUME IInv, NEW a \in Actors, vacuumInto(a)
  PROVE  IInv'
<1>1. PICK c \in readLive :
        op' = [op EXCEPT ![a].copy = c, ![a].name = taken + 1, ![a].step = "rename"]
  BY DEF vacuumInto
<1>2. /\ op \in [Actors -> Command] /\ taken \in Nat /\ UNCHANGED <<store, backups, writes>>
      /\ taken' = taken + 1 /\ at(a, "snapshot") /\ ~op[a].raw /\ KindOK(a) /\ NameOK(a)
  BY DEF IInv, TypeOK, vacuumInto
<1>3. c \in State /\ (served = None => c = file)
  BY ReadState
<1>4. /\ op' \in [Actors -> Command] /\ \A b \in Actors \ {a} : op'[b] = op[b]
      /\ op'[a].kind = op[a].kind /\ op'[a].step = "rename" /\ op'[a].name = taken + 1
      /\ op'[a].copy = c /\ op'[a].target = op[a].target /\ op'[a].raw = op[a].raw
  <2> DEFINE next == [kind |-> op[a].kind, step |-> "rename", raw |-> op[a].raw, name |-> taken + 1,
                      target |-> op[a].target, copy |-> c, alone |-> op[a].alone]
  <2>1. op[a] \in Command /\ "rename" \in Steps
    BY <1>2 DEF Steps, creating
  <2>2. next \in Command
    BY <1>2, <1>3, <2>1 DEF Command
  <2>5. op'[a] = [[[op[a] EXCEPT !.copy = c] EXCEPT !.name = taken + 1] EXCEPT !.step = "rename"]
    BY <1>1, <1>2
  <2>3. op'[a] = next /\ \A b \in Actors \ {a} : op'[b] = op[b]
    BY <1>1, <1>2, <2>1, <2>5 DEF Command
  <2>6. op' \in [Actors -> Command]
    <3>1. op' = [b \in Actors |-> op'[b]]
      BY <1>1, <1>2
    <3> HIDE DEF next
    <3> QED BY <1>2, <2>2, <2>3, <3>1
  <2>4. /\ next.kind = op[a].kind /\ next.step = "rename" /\ next.name = taken + 1
        /\ next.copy = c /\ next.target = op[a].target /\ next.raw = op[a].raw
    OBVIOUS
  <2> HIDE DEF next
  <2> QED BY <2>3, <2>4, <2>6
<1>5. \A i \in DOMAIN backups : backups[i].name # taken + 1
  <2>1. backups \in Seq(Entry) /\ taken \in Nat /\ DirectoryOK
    BY DEF IInv, TypeOK
  <2>2. \A i \in DOMAIN backups : backups[i] \in Entry
    BY <2>1
  <2>3. \A i \in DOMAIN backups : backups[i].name \in Nat
    BY <2>2 DEF Entry
  <2> QED BY <2>1, <2>3 DEF DirectoryOK
<1>6. KindOK(a)' /\ NameOK(a)' /\ OwnNames(a)
  <2>1. op[a].target \in Nat /\ backups' = backups
    BY <1>2 DEF Command
  <2>2. KindOK(a)' /\ OwnNames(a)
    BY <1>2, <1>4 DEF KindOK, OwnNames, Naming, at
  <2>3. NameOK(a)'
    BY <1>2, <1>3, <1>4, <1>5, <2>1 DEF NameOK, Naming, at
  <2> QED BY <2>2, <2>3
<1>7. op'[a].kind = "open" =>
        /\ served' = None /\ file' \in State /\ file'.schema = "migratable"
        /\ \A b \in Actors \ {a} : op'[b].kind # "open"
  BY <1>2, <1>4 DEF store, IInv, OpenOK
<1>8. served' = None => Saved(a)'
  BY <1>2, <1>3, <1>4 DEF Saved, at, store
<1>9. OwnOK(a)
  BY <1>4, <1>6, <1>7, <1>8 DEF OwnOK
<1> QED BY <1>2, <1>4, <1>9, CalmStep

\* The metadata is written beside a file that stays as it is.
LEMMA MetadataWritten ==
  ASSUME IInv, NEW a \in Actors, writeMetadata(a)
  PROVE  IInv'
<1>1. /\ op \in [Actors -> Command] /\ taken \in Nat /\ UNCHANGED <<store, backups, taken, writes>>
      /\ at(a, "metadata") /\ KindOK(a) /\ NameOK(a) /\ op' = [op EXCEPT ![a].step = "verify"]
  BY DEF IInv, TypeOK, writeMetadata, step
<1>2. /\ op' \in [Actors -> Command] /\ \A b \in Actors \ {a} : op'[b] = op[b]
      /\ op'[a].kind = op[a].kind /\ op'[a].step = "verify" /\ op'[a].name = op[a].name
      /\ op'[a].target = op[a].target /\ op'[a].alone = op[a].alone
  BY <1>1 DEF Command, Steps, creating
<1>3. KindOK(a)' /\ NameOK(a)' /\ OwnNames(a)
  BY <1>1, <1>2 DEF KindOK, NameOK, OwnNames, Naming, at, Command
<1>4. op'[a].kind = "open" =>
        /\ served' = None /\ file' \in State /\ file'.schema = "migratable"
        /\ \A b \in Actors \ {a} : op'[b].kind # "open"
  BY <1>1, <1>2 DEF store, IInv, OpenOK
<1>5. op'[a].alone /\ served' = None /\ op'[a].kind \in {"restore", "open"} => Saved(a)'
  BY <1>1, <1>2 DEF IInv, SavedOK, Saved, at, store, newest
<1>6. OwnOK(a)
  BY <1>2, <1>3, <1>4, <1>5 DEF OwnOK
<1> QED BY <1>1, <1>2, <1>6, CalmStep

\* A backup that fails is tried again, gone without, or ends the command.
LEMMA CreationFails ==
  ASSUME IInv, NEW a \in Actors, createFails(a)
  PROVE  IInv'
<1>1. /\ op \in [Actors -> Command] /\ taken \in Nat /\ UNCHANGED <<store, backups, taken, writes>>
      /\ op[a].step \in creating /\ KindOK(a) /\ NameOK(a)
  BY DEF IInv, TypeOK, createFails
<1>2. CASE op[a].kind = "restore" /\ ~op[a].raw
  <2>1. op' = [op EXCEPT ![a] = [op[a] EXCEPT !.raw = TRUE, !.copy = None, !.step = "snapshot"]]
    BY <1>2 DEF createFails
  <2>2. /\ op' \in [Actors -> Command] /\ \A b \in Actors \ {a} : op'[b] = op[b]
        /\ op'[a].kind = "restore" /\ op'[a].step = "snapshot" /\ op'[a].target = op[a].target
    BY <1>1, <1>2, <2>1 DEF Command, Steps, creating
  <2>3. OwnOK(a)
    BY <1>1, <1>2, <2>2 DEF OwnOK, OwnNames, KindOK, NameOK, Naming, Saved, at
  <2> QED BY <1>1, <2>2, <2>3, CalmStep
<1>3. CASE op[a].kind = "rebuild"
  <2>1. op' = [op EXCEPT ![a] = [op[a] EXCEPT !.copy = None, !.step = "candidate"]]
    BY <1>3 DEF createFails
  <2>2. /\ op' \in [Actors -> Command] /\ \A b \in Actors \ {a} : op'[b] = op[b]
        /\ op'[a].kind = "rebuild" /\ op'[a].step = "candidate" /\ op'[a].target = op[a].target
    BY <1>1, <1>3, <2>1 DEF Command, Steps, creating
  <2>3. OwnOK(a)
    BY <1>1, <2>2 DEF OwnOK, OwnNames, KindOK, NameOK, Naming, Saved, at
  <2> QED BY <1>1, <2>2, <2>3, CalmStep
<1>4. CASE ~(op[a].kind = "restore" /\ ~op[a].raw) /\ op[a].kind # "rebuild"
  BY <1>1, <1>4, CommandEnds DEF createFails, done
<1> QED BY <1>2, <1>3, <1>4

\* A command that is refused, or dies, leaves everything as it is.
LEMMA CommandStops ==
  ASSUME IInv, NEW a \in Actors, migrationRefused(a) \/ rebuildRefused(a) \/ Crash(a)
  PROVE  IInv'
BY CommandEnds DEF migrationRefused, rebuildRefused, Crash

\* Daemons start when nobody opens the store.
LEMMA DaemonStarts ==
  ASSUME IInv, startDaemon
  PROVE  IInv'
<1>1. /\ op \in [Actors -> Command] /\ taken \in Nat /\ writes \in Nat
      /\ file \in State \cup {None} /\ file # None
      /\ UNCHANGED <<file, backups, op, taken, writes>> /\ served' = file /\ attached' = TRUE
      /\ \A a \in Actors : op[a].kind # "open" /\ op[a] \in Command
  BY DEF startDaemon, IInv, TypeOK
<1>2. StoreOK
  BY <1>1, SameDirectory
<1>3. /\ TypeOK' /\ DirectoryOK' /\ NamesApart' /\ OpenOK' /\ SavedOK' /\ TargetOK'
      /\ \A a \in Actors : KindOK(a)' /\ NameOK(a)'
  BY <1>1, <1>2 DEF StoreOK, TypeOK, IInv, NamesApart, OpenOK, SavedOK, TargetOK, KindOK, NameOK, at,
                    exists, entry
<1> QED BY <1>3 DEF IInv

\* When every command has ended, only the directory has to be in order.
LEMMA AllEnd ==
  ASSUME IInv, StoreOK, op' \in [Actors -> Command], \A a \in Actors : op'[a] = Idle
  PROVE  IInv'
<1>1. taken' \in Nat
  BY DEF StoreOK, IInv, TypeOK
<1>2. \A a \in Actors : KindOK(a)' /\ NameOK(a)'
  BY <1>1, IdleCommand DEF KindOK, NameOK, Naming, at
<1>3. NamesApart' /\ OpenOK' /\ SavedOK' /\ TargetOK'
  BY IdleCommand DEF NamesApart, OpenOK, SavedOK, TargetOK, Naming, at
<1>4. TypeOK' /\ DirectoryOK'
  BY <1>1 DEF StoreOK, TypeOK
<1> QED BY <1>2, <1>3, <1>4 DEF IInv

\* A daemon stops or dies with every command it ran.
LEMMA DaemonEnds ==
  ASSUME IInv, stopDaemon \/ crashDaemon
  PROVE  IInv'
<1>1. /\ taken \in Nat /\ writes \in Nat /\ file \in State \cup {None} /\ served \in State \cup {None}
      /\ Damaged \in State
  BY DEF IInv, TypeOK, Damaged, State
<1>2. /\ UNCHANGED <<backups, taken, writes>> /\ served' = None /\ attached' = FALSE
      /\ file' \in State \cup {None} /\ op' = [a \in Actors |-> Idle]
  <2>1. CASE stopDaemon
    <3>1. op \in [Actors -> Command]
      BY DEF IInv, TypeOK
    <3>2. op' = [a \in Actors |-> Idle]
      BY <2>1, <3>1 DEF stopDaemon
    <3> QED BY <1>1, <2>1, <3>2 DEF stopDaemon
  <2>2. CASE crashDaemon
    BY <1>1, <2>2 DEF crashDaemon
  <2> QED BY <2>1, <2>2
<1>3. StoreOK
  BY <1>1, <1>2, SameDirectory
<1> QED BY <1>2, <1>3, IdleCommand, AllEnd
\* The commands that are disturbed are commands, and the one that moves is not disturbed.
LEMMA DisturbedTypes ==
  ASSUME IInv, NEW a \in Actors
  PROVE  /\ disturb(a) \in [Actors -> Command] /\ disturb(a)[a] = op[a]
         /\ \A b \in Actors : disturb(a)[b].kind = op[b].kind
<1>1. \A b \in Actors : op[b] \in Command /\ [op[b] EXCEPT !.alone = FALSE] \in Command
        /\ [op[b] EXCEPT !.alone = FALSE].kind = op[b].kind
  BY DEF IInv, TypeOK, Command
<1> QED BY <1>1 DEF disturb

\* The entry of a name in the directory is one of the directory, with that name.
LEMMA EntryOfName ==
  ASSUME IInv, NEW n, exists(n)
  PROVE  /\ entry(n) \in Entry /\ entry(n).name = n /\ n <= taken
         /\ \E i \in DOMAIN backups : entry(n) = backups[i]
<1>1. \E i \in DOMAIN backups : backups[i].name = n
  BY DEF exists
<1>2. PICK i \in DOMAIN backups : backups[i].name = n /\ entry(n) = backups[i]
  BY <1>1 DEF entry
<1>3. backups \in Seq(Entry)
  BY DEF IInv, TypeOK
<1>4. backups[i] \in Entry
  BY <1>2, <1>3
<1>5. n <= taken
  BY <1>2 DEF IInv, DirectoryOK
<1> QED BY <1>2, <1>4, <1>5

\* A step of one command that changes the store and not the directory, where it disturbs
\* the others and opens no store that one of them is opening.
LEMMA StoreStep ==
  ASSUME IInv, NEW a \in Actors, UNCHANGED <<backups, taken>>, writes' \in Nat,
         file' \in State \cup {None}, served' \in State \cup {None}, attached' \in BOOLEAN,
         \A b \in Actors \ {a} : \/ op'[b] = Idle
                                 \/ /\ op'[b] = disturb(a)[b]
                                    /\ op[b].kind = "open" => UNCHANGED <<file, served>>,
         OwnOK(a)
  PROVE  IInv'
<1>1. StoreOK /\ \A b \in Actors : NamesFrom(b)
  <2>1. taken' \in {taken, taken + 1}
    OBVIOUS
  <2> QED BY <2>1, SameDirectory
<1>2. \A b \in Actors \ {a} : Aside(b)
  <2> TAKE b \in Actors \ {a}
  <2>1. CASE op'[b] = Idle
    BY <2>1 DEF Aside
  <2>2. CASE op'[b] # Idle
    BY <2>2, Disturbed
  <2> QED BY <2>1, <2>2
<1> QED BY <1>1, <1>2, StepOfOne

\* The file is replaced under the others: those that open it end.
LEMMA FileReplaced ==
  ASSUME IInv, NEW a \in Actors, NEW c \in State \cup {None}, NEW next \in Command,
         replaceFile(a, c, next), UNCHANGED <<served, backups, taken, writes>>,
         \/ next = Idle
         \/ next.kind = "rebuild" /\ next.step = "swap" /\ next.target <= taken
         \/ /\ next.kind = "open" /\ next.step = "snapshot" /\ next.target = 0
            /\ served = None /\ c \in State /\ c.schema = "migratable"
  PROVE  IInv'
<1>1. /\ writes \in Nat /\ taken \in Nat /\ served \in State \cup {None}
      /\ file' = c /\ attached' = FALSE
      /\ op' = [b \in Actors |-> IF b = a THEN next
                                 ELSE IF op[b].kind = "open" THEN Idle ELSE disturb(a)[b]]
  BY DEF IInv, TypeOK, replaceFile
<1>2. /\ op' \in [Actors -> Command] /\ op'[a] = next
      /\ \A b \in Actors \ {a} : /\ op'[b] = Idle \/ (op[b].kind # "open" /\ op'[b] = disturb(a)[b])
                                 /\ op'[b].kind # "open"
  BY <1>1, IdleCommand, DisturbedTypes
<1>3. OwnOK(a)
  <2>1. CASE next = Idle
    BY <1>1, <1>2, <2>1, EndsOK
  <2>2. CASE next.kind = "rebuild" /\ next.step = "swap" /\ next.target <= taken
    BY <1>1, <1>2, <2>2 DEF OwnOK, OwnNames, KindOK, NameOK, Naming, Saved, at
  <2>3. CASE /\ next.kind = "open" /\ next.step = "snapshot" /\ next.target = 0
             /\ served = None /\ c \in State /\ c.schema = "migratable"
    <3>1. KindOK(a)' /\ NameOK(a)'
      BY <1>1, <1>2, <2>3 DEF KindOK, NameOK, Naming, at
    <3>2. OwnNames(a) /\ Saved(a)' /\ op'[a].step # "replace"
      BY <1>2, <2>3 DEF OwnNames, Naming, Saved, at
    <3>3. served' = None /\ file' \in State /\ file'.schema = "migratable"
      BY <1>1, <2>3
    <3> QED BY <1>2, <3>1, <3>2, <3>3 DEF OwnOK
  <2> QED BY <2>1, <2>2, <2>3
<1> QED BY <1>1, <1>2, <1>3, StoreStep

\* A restore installs the snapshot it validated, and opens it if it is of an earlier schema.
LEMMA SnapshotInstalled ==
  ASSUME IInv, NEW a \in Actors, atomicReplace(a)
  PROVE  IInv'
<1> DEFINE n == op[a].target
           opening == [Idle EXCEPT !.kind = "open", !.step = "snapshot"]
<1>1. opening \in Command /\ opening.kind = "open" /\ opening.step = "snapshot" /\ opening.target = 0
  BY IdleCommand DEF Command, Kinds, Steps, creating
<1>2. UNCHANGED <<served, backups, taken, writes>>
  BY DEF atomicReplace
<1>3. CASE ~exists(n)
  BY <1>3, CommandEnds DEF atomicReplace, store
<1>4. CASE exists(n)
  <2>1. entry(n).file \in State
    BY <1>4, EntryOfName DEF Entry
  <2>2. CASE served = None /\ entry(n).file.schema = "migratable"
    <3>1. replaceFile(a, entry(n).file, opening)
      BY <1>4, <2>2 DEF atomicReplace
    <3> HIDE DEF opening
    <3> QED BY <1>1, <1>2, <2>1, <2>2, <3>1, FileReplaced
  <2>3. CASE ~(served = None /\ entry(n).file.schema = "migratable")
    <3>1. replaceFile(a, entry(n).file, Idle)
      BY <1>4, <2>3 DEF atomicReplace
    <3> QED BY <1>2, <2>1, <3>1, IdleCommand, FileReplaced
  <2> QED BY <2>2, <2>3
<1> QED BY <1>3, <1>4

\* A rebuild removes the live files and puts its candidate in their place.
LEMMA RebuildSwaps ==
  ASSUME IInv, NEW a \in Actors, removeLiveDbFiles(a) \/ replaceLiveDb(a)
  PROVE  IInv'
<1>1. UNCHANGED <<served, backups, taken, writes>> /\ candidate \in State /\ op[a] \in Command
      /\ KindOK(a) /\ NameOK(a)
  BY DEF removeLiveDbFiles, replaceLiveDb, candidate, State, IInv, TypeOK
<1>2. CASE removeLiveDbFiles(a)
  <2>1. /\ [op[a] EXCEPT !.step = "swap"] \in Command
        /\ [op[a] EXCEPT !.step = "swap"].kind = op[a].kind
        /\ [op[a] EXCEPT !.step = "swap"].step = "swap"
        /\ [op[a] EXCEPT !.step = "swap"].target = op[a].target
    BY <1>1 DEF Command, Steps
  <2>2. op[a].kind = "rebuild" /\ op[a].target <= taken
        /\ replaceFile(a, None, [op[a] EXCEPT !.step = "swap"])
    BY <1>1, <1>2 DEF removeLiveDbFiles, KindOK, NameOK, at
  <2> QED BY <1>1, <2>1, <2>2, FileReplaced
<1>3. CASE replaceLiveDb(a)
  BY <1>1, <1>3, IdleCommand, FileReplaced DEF replaceLiveDb
<1> QED BY <1>2, <1>3

\* A migration changes the schema of the store it opened, which nobody else has open.
LEMMA StoreMigrated ==
  ASSUME IInv, NEW a \in Actors, performMigration(a)
  PROVE  IInv'
<1>1. /\ UNCHANGED <<served, attached, backups, taken, writes>> /\ op[a].kind = "open"
      /\ op' = [disturb(a) EXCEPT ![a] = Idle]
      /\ writes \in Nat /\ taken \in Nat /\ attached \in BOOLEAN /\ served \in State \cup {None}
  BY DEF performMigration, IInv, TypeOK, KindOK, at
<1>2. file \in State /\ [file EXCEPT !.schema = "current"] \in State
      /\ \A b \in Actors \ {a} : op[b].kind # "open"
  BY <1>1 DEF IInv, OpenOK, State
<1>3. file' \in State
  BY <1>2 DEF performMigration
<1>4. op' \in [Actors -> Command] /\ op'[a] = Idle /\ \A b \in Actors \ {a} : op'[b] = disturb(a)[b]
  BY <1>1, IdleCommand, DisturbedTypes
<1>5. OwnOK(a)
  BY <1>1, <1>4, EndsOK
<1> QED BY <1>1, <1>2, <1>3, <1>4, <1>5, StoreStep

\* A command that is disturbed by a write or a new file at the store's path.
LEMMA StoreWritten ==
  ASSUME IInv, NEW a \in Actors, write(a) \/ createMissing(a)
  PROVE  IInv'
<1>1. /\ UNCHANGED <<attached, backups, taken>> /\ op' = disturb(a)
      /\ attached \in BOOLEAN /\ writes \in Nat /\ taken \in Nat /\ op[a] \in Command
      /\ file \in State \cup {None} /\ served \in State \cup {None} /\ KindOK(a) /\ NameOK(a)
  BY DEF write, createMissing, IInv, TypeOK
<1>2. op' \in [Actors -> Command] /\ op'[a] = op[a] /\ \A b \in Actors \ {a} : op'[b] = disturb(a)[b]
  BY <1>1, DisturbedTypes
<1>3. candidate \in State /\ Damaged \in State
  BY DEF candidate, Damaged, State
<1>4. /\ file' \in State \cup {None} /\ served' \in State \cup {None} /\ writes' \in Nat
      /\ \A b \in Actors : op[b].kind # "open"
      /\ op[a].step \in {"idle", "snapshot"}
  <2>1. CASE write(a)
    <3>1. current \in State
      BY <1>1, <2>1 DEF write, current
    <3>2. [current EXCEPT !.data = writes + 1] \in State
      BY <1>1, <3>1 DEF State
    <3> QED BY <1>1, <2>1, <3>2, IdleCommand DEF write
  <2>2. CASE createMissing(a)
    <3>1. \A b \in Actors : op[b].kind # "open"
      BY <2>2, BackupAssumption DEF createMissing, IInv, OpenOK
    <3> QED BY <1>1, <1>3, <2>2, <3>1, IdleCommand DEF createMissing, at
  <2> QED BY <2>1, <2>2
<1>5. OwnOK(a)
  <2>1. KindOK(a)' /\ NameOK(a)'
    BY <1>1, <1>2, <1>4 DEF KindOK, NameOK, Naming, at
  <2>2. OwnNames(a)
    BY <1>1, <1>2, <1>4 DEF OwnNames, Naming, KindOK, at
  <2>3. Saved(a)' /\ op'[a].step # "replace"
    BY <1>2, <1>4 DEF Saved, at
  <2> QED BY <1>2, <1>4, <2>1, <2>2, <2>3 DEF OwnOK
<1> QED BY <1>1, <1>2, <1>4, <1>5, StoreStep

\* A step of one command that changes the directory, of which it disturbs the others.
LEMMA DirectoryStep ==
  ASSUME IInv, NEW a \in Actors, UNCHANGED <<store, writes>>, taken' \in {taken, taken + 1},
         backups' \in Seq(Entry), DirectoryOK',
         \A b \in Actors \ {a} : op'[b] = disturb(a)[b] /\ NamesFrom(b),
         OwnOK(a)
  PROVE  IInv'
<1>1. StoreOK
  BY DEF StoreOK, store, IInv, TypeOK
<1>2. \A b \in Actors \ {a} : Aside(b)
  BY Disturbed DEF store
<1> QED BY <1>1, <1>2, StepOfOne

\* The entries, their names and the numbers taken.
LEMMA Entries ==
  ASSUME IInv
  PROVE  /\ backups \in Seq(Entry) /\ taken \in Nat /\ Len(backups) \in Nat
         /\ DOMAIN backups = 1..Len(backups)
         /\ \A i \in DOMAIN backups : /\ backups[i] \in Entry /\ backups[i].name \in Nat
                                      /\ backups[i].name <= taken
<1>1. backups \in Seq(Entry) /\ taken \in Nat /\ DirectoryOK
  BY DEF IInv, TypeOK
<1>2. \A i \in DOMAIN backups : backups[i] \in Entry
  BY <1>1
<1> QED BY <1>1, <1>2 DEF Entry, DirectoryOK

\* A new file under a name nobody has is the newest, and the directory stays in order.
LEMMA FileAppears ==
  ASSUME IInv, NEW e \in Entry, backups' = Append(backups, e), taken' \in {taken, taken + 1},
         e.name <= taken', ~exists(e.name), ~e.verified
  PROVE  /\ backups' \in Seq(Entry) /\ DirectoryOK'
         /\ backups' # <<>> /\ newest' = e
         /\ \A i \in DOMAIN backups' : backups'[i] = e \/ (i \in DOMAIN backups /\ backups'[i] = backups[i])
<1>1. /\ backups \in Seq(Entry) /\ taken \in Nat /\ Len(backups) \in Nat
      /\ DOMAIN backups = 1..Len(backups)
      /\ \A i \in DOMAIN backups : backups[i].name \in Nat /\ backups[i].name <= taken
  BY Entries
<1>2. /\ backups' \in Seq(Entry) /\ Len(backups') = Len(backups) + 1
      /\ backups'[Len(backups) + 1] = e /\ \A i \in DOMAIN backups : backups'[i] = backups[i]
  BY <1>1
<1>3. DOMAIN backups' = DOMAIN backups \cup {Len(backups) + 1} /\ Len(backups) + 1 \notin DOMAIN backups
  BY <1>1, <1>2
<1>4. \A i \in DOMAIN backups : backups[i].name # e.name
  BY DEF exists
<1>5. DirectoryOK'
  <2>1. \A i \in DOMAIN backups' : /\ backups'[i].name <= taken'
                                   /\ backups'[i].verified => restorable(backups'[i].file)
    BY <1>1, <1>2, <1>3 DEF IInv, DirectoryOK
  <2>2. \A i, j \in DOMAIN backups' : backups'[i].name = backups'[j].name => i = j
    BY <1>2, <1>3, <1>4 DEF IInv, DirectoryOK
  <2> QED BY <2>1, <2>2 DEF DirectoryOK
<1>6. newest' = e /\ backups' # <<>>
  BY <1>1, <1>2 DEF newest
<1> QED BY <1>2, <1>3, <1>5, <1>6

\* A file that is written again keeps its place and its name.
LEMMA FileRewritten ==
  ASSUME IInv, NEW n, NEW e \in Entry, e.name = n, e.verified => restorable(e.file),
         backups' = update(n, e), taken' = taken
  PROVE  /\ backups' \in Seq(Entry) /\ DirectoryOK' /\ Len(backups') = Len(backups)
         /\ DOMAIN backups' = DOMAIN backups
         /\ \A i \in DOMAIN backups : /\ backups'[i] = IF backups[i].name = n THEN e ELSE backups[i]
                                      /\ backups'[i].name = backups[i].name
<1>1. /\ backups \in Seq(Entry) /\ Len(backups) \in Nat /\ DOMAIN backups = 1..Len(backups)
      /\ \A i \in DOMAIN backups : backups[i] \in Entry
  BY Entries
<1>2. /\ DOMAIN backups' = 1..Len(backups)
      /\ \A i \in DOMAIN backups : /\ backups'[i] = IF backups[i].name = n THEN e ELSE backups[i]
                                   /\ backups'[i].name = backups[i].name
  BY <1>1 DEF update
<1>3. backups' \in Seq(Entry) /\ Len(backups') = Len(backups)
  <2>1. backups' = [i \in 1..Len(backups) |-> backups'[i]]
    BY <1>1 DEF update
  <2>2. \A i \in 1..Len(backups) : backups'[i] \in Entry
    BY <1>1, <1>2
  <2>3. backups' \in [1..Len(backups) -> Entry]
    BY <2>1, <2>2
  <2> QED BY <1>1, <2>3
<1>4. DirectoryOK'
  BY <1>1, <1>2 DEF IInv, DirectoryOK
<1> QED BY <1>1, <1>2, <1>3, <1>4

\* A step of a command that disturbs the others.
LEMMA AloneStep ==
  ASSUME IInv, NEW a \in Actors, NEW s \in Steps, stepAlone(a, s)
  PROVE  /\ op' \in [Actors -> Command] /\ \A b \in Actors \ {a} : op'[b] = disturb(a)[b]
         /\ op'[a].kind = op[a].kind /\ op'[a].step = s /\ op'[a].raw = op[a].raw
         /\ op'[a].name = op[a].name /\ op'[a].target = op[a].target
         /\ op'[a].alone = op[a].alone
<1> DEFINE next == [[op[a] EXCEPT !.step = s] EXCEPT !.copy = None]
<1>1. disturb(a) \in [Actors -> Command] /\ disturb(a)[a] = op[a] /\ op[a] \in Command
  BY DisturbedTypes DEF IInv, TypeOK
<1>2. op' = [disturb(a) EXCEPT ![a] = next]
  BY <1>1 DEF stepAlone
<1>3. /\ next \in Command /\ next.kind = op[a].kind /\ next.step = s /\ next.raw = op[a].raw
      /\ next.name = op[a].name /\ next.target = op[a].target /\ next.alone = op[a].alone
  BY <1>1 DEF Command
<1> HIDE DEF next
<1> QED BY <1>1, <1>2, <1>3

\* The command that moves still opens no store that another opens.
LEMMA OpensAlone ==
  ASSUME IInv, NEW a \in Actors, UNCHANGED store, \A b \in Actors \ {a} : op'[b] = disturb(a)[b],
         op'[a].kind = op[a].kind
  PROVE  op'[a].kind = "open" =>
           /\ served' = None /\ file' \in State /\ file'.schema = "migratable"
           /\ \A b \in Actors \ {a} : op'[b].kind # "open"
<1> SUFFICES ASSUME op[a].kind = "open"
             PROVE  /\ served' = None /\ file' \in State /\ file'.schema = "migratable"
                    /\ \A b \in Actors \ {a} : op'[b].kind # "open"
  OBVIOUS
<1>1. served = None /\ file \in State /\ file.schema = "migratable"
      /\ \A b \in Actors \ {a} : op[b].kind # "open"
  BY DEF IInv, OpenOK
<1>2. \A b \in Actors \ {a} : op'[b].kind = op[b].kind
  BY DisturbedTypes
<1> QED BY <1>1, <1>2 DEF store

\* The file a command reads when it makes a backup alone is the store.
LEMMA OwnSaved ==
  ASSUME IInv, NEW a \in Actors, UNCHANGED store, op'[a].kind = op[a].kind, op'[a].alone = op[a].alone,
         op'[a].alone, served' = None, op'[a].kind \in {"restore", "open"}
  PROVE  Saved(a) /\ file' = file
  BY DEF IInv, SavedOK, store

\* The snapshot appears under its name.
LEMMA BackupRenamed ==
  ASSUME IInv, NEW a \in Actors, renameBackup(a)
  PROVE  IInv'
<1> DEFINE n == op[a].name
           e == [name |-> n, file |-> op[a].copy, verified |-> FALSE]
<1>1. /\ at(a, "rename") /\ ~op[a].raw /\ UNCHANGED <<store, taken, writes>> /\ taken' = taken
      /\ backups' = Append(backups, e) /\ stepAlone(a, "metadata")
  BY DEF renameBackup
<1>2. op[a] \in Command /\ KindOK(a) /\ NameOK(a) /\ "metadata" \in Steps
  BY DEF IInv, TypeOK, Steps, creating
<1>3. n \in Nat /\ n <= taken /\ op[a].copy \in State /\ ~exists(n)
  BY <1>1, <1>2 DEF Command, NameOK, Naming, at, exists
<1>4. e \in Entry /\ e.name = n /\ ~e.verified /\ e.file = op[a].copy
  BY <1>3 DEF Entry
<1> HIDE DEF e
<1>5. /\ backups' \in Seq(Entry) /\ DirectoryOK' /\ backups' # <<>> /\ newest' = e
      /\ \A i \in DOMAIN backups' : backups'[i] = e \/ (i \in DOMAIN backups /\ backups'[i] = backups[i])
  BY <1>1, <1>3, <1>4, FileAppears
<1>6. ASSUME NEW b \in Actors \ {a} PROVE NamesFrom(b)
  <2>1. at(b, "rename") => op[b].name # n
    BY <1>1 DEF IInv, NamesApart, Naming, at
  <2> QED BY <1>4, <1>5, <2>1 DEF IInv, NameOK, NamesFrom, at
<1>7. /\ op' \in [Actors -> Command] /\ \A b \in Actors \ {a} : op'[b] = disturb(a)[b]
      /\ op'[a].kind = op[a].kind /\ op'[a].step = "metadata" /\ op'[a].name = n
      /\ op'[a].target = op[a].target /\ op'[a].alone = op[a].alone
  BY <1>1, <1>2, AloneStep
<1>8. KindOK(a)' /\ NameOK(a)' /\ OwnNames(a)
  BY <1>1, <1>2, <1>3, <1>7 DEF KindOK, NameOK, OwnNames, Naming, at
<1>9. op'[a].alone /\ served' = None /\ op'[a].kind \in {"restore", "open"} => Saved(a)'
  <2> SUFFICES ASSUME op'[a].alone, served' = None, op'[a].kind \in {"restore", "open"}
               PROVE  Saved(a)'
    OBVIOUS
  <2>1. Saved(a) /\ file' = file
    BY <1>1, <1>7, OwnSaved
  <2> QED BY <1>1, <1>4, <1>5, <1>7, <2>1 DEF Saved, at
<1>10. op'[a].kind = "open" =>
         /\ served' = None /\ file' \in State /\ file'.schema = "migratable"
         /\ \A b \in Actors \ {a} : op'[b].kind # "open"
  BY <1>1, <1>7, OpensAlone
<1>11. OwnOK(a)
  BY <1>7, <1>8, <1>9, <1>10 DEF OwnOK
<1>12. taken' \in {taken, taken + 1}
  BY <1>1
<1> QED BY <1>1, <1>5, <1>6, <1>7, <1>11, <1>12, DirectoryStep

\* A raw copy appears before it is whole, and is not verified.
LEMMA RawBegins ==
  ASSUME IInv, NEW a \in Actors, rawSnapshot(a)
  PROVE  IInv'
<1> DEFINE n == taken + 1
           e == [name |-> n, file |-> Damaged, verified |-> FALSE]
<1>1. /\ at(a, "snapshot") /\ op[a].raw /\ UNCHANGED <<store, writes>> /\ taken' = n
      /\ backups' = Append(backups, e)
  BY DEF rawSnapshot
<1>2. PICK c \in readLive :
        op' = [disturb(a) EXCEPT ![a].copy = c, ![a].name = n, ![a].step = "rename"]
  BY DEF rawSnapshot
<1>3. c \in State /\ (served = None => c = file)
  BY ReadState
<1>4. op[a] \in Command /\ KindOK(a) /\ NameOK(a) /\ taken \in Nat /\ "rename" \in Steps
  BY DEF IInv, TypeOK, Steps, creating
<1>5. ~exists(n) /\ n \in Nat /\ n <= taken'
  BY <1>1, <1>4, Entries DEF exists
<1>6. e \in Entry /\ e.name = n /\ ~e.verified
  BY <1>5 DEF Entry, Damaged, State
<1> HIDE DEF e
<1>7. /\ backups' \in Seq(Entry) /\ DirectoryOK' /\ backups' # <<>> /\ newest' = e
      /\ \A i \in DOMAIN backups' : backups'[i] = e \/ (i \in DOMAIN backups /\ backups'[i] = backups[i])
  BY <1>1, <1>5, <1>6, FileAppears
<1>8. ASSUME NEW b \in Actors \ {a} PROVE NamesFrom(b)
  <2>1. at(b, "rename") => op[b].name # n
    BY <1>4 DEF IInv, TypeOK, Command, NameOK, Naming, at
  <2> QED BY <1>6, <1>7, <2>1 DEF IInv, NameOK, NamesFrom, at
<1>9. /\ op' \in [Actors -> Command] /\ \A b \in Actors \ {a} : op'[b] = disturb(a)[b]
      /\ op'[a].kind = op[a].kind /\ op'[a].step = "rename" /\ op'[a].name = n
      /\ op'[a].target = op[a].target /\ op'[a].alone = op[a].alone /\ op'[a].copy = c /\ op'[a].raw
  <2> DEFINE next == [[[op[a] EXCEPT !.copy = c] EXCEPT !.name = n] EXCEPT !.step = "rename"]
  <2>1. disturb(a) \in [Actors -> Command] /\ disturb(a)[a] = op[a]
    BY DisturbedTypes
  <2>2. op' = [disturb(a) EXCEPT ![a] = next]
    BY <1>2, <2>1
  <2>3. next \in Command /\ next.kind = op[a].kind /\ next.step = "rename" /\ next.name = n
        /\ next.target = op[a].target /\ next.alone = op[a].alone /\ next.copy = c /\ next.raw
    BY <1>1, <1>3, <1>4, <1>5 DEF Command
  <2> HIDE DEF next
  <2> QED BY <2>1, <2>2, <2>3
<1>10. KindOK(a)' /\ OwnNames(a)
  BY <1>1, <1>4, <1>9 DEF KindOK, OwnNames, Naming, at
<1>11. NameOK(a)'
  <2>1. op'[a].target <= taken'
    BY <1>1, <1>4, <1>9 DEF NameOK, Command
  <2>2. ASSUME NEW i \in DOMAIN backups', backups'[i].name = n PROVE ~backups'[i].verified
    BY <1>5, <1>6, <1>7, <2>2 DEF exists
  <2> QED BY <1>3, <1>5, <1>9, <2>1, <2>2 DEF NameOK, at
<1>12. served' = None => Saved(a)'
  BY <1>1, <1>3, <1>6, <1>7, <1>9 DEF Saved, at, store
<1>13. op'[a].kind = "open" =>
         /\ served' = None /\ file' \in State /\ file'.schema = "migratable"
         /\ \A b \in Actors \ {a} : op'[b].kind # "open"
  BY <1>1, <1>9, OpensAlone
<1>14. OwnOK(a)
  BY <1>9, <1>10, <1>11, <1>12, <1>13 DEF OwnOK
<1> QED BY <1>1, <1>7, <1>8, <1>9, <1>14, DirectoryStep

\* A raw copy that is whole is the newest file if nobody else was there.
LEMMA RawEnds ==
  ASSUME IInv, NEW a \in Actors, rawSnapshotEnds(a)
  PROVE  IInv'
<1> DEFINE n == op[a].name
           e == [name |-> n, file |-> op[a].copy, verified |-> FALSE]
<1>1. /\ at(a, "rename") /\ op[a].raw /\ UNCHANGED <<store, taken, writes>>
      /\ taken' = taken /\ taken' \in {taken, taken + 1}
      /\ backups' = update(n, e) /\ stepAlone(a, "metadata")
  BY DEF rawSnapshotEnds
<1>2. op[a] \in Command /\ KindOK(a) /\ NameOK(a) /\ "metadata" \in Steps
  BY DEF IInv, TypeOK, Steps, creating
<1>3. n \in Nat /\ n <= taken /\ op[a].copy \in State
  BY <1>1, <1>2 DEF Command, NameOK, Naming, at
<1>4. e \in Entry /\ e.name = n /\ ~e.verified /\ e.file = op[a].copy
  BY <1>3 DEF Entry
<1> HIDE DEF e
<1>5. /\ backups' \in Seq(Entry) /\ DirectoryOK' /\ Len(backups') = Len(backups)
      /\ DOMAIN backups' = DOMAIN backups
      /\ \A i \in DOMAIN backups : /\ backups'[i] = IF backups[i].name = n THEN e ELSE backups[i]
                                   /\ backups'[i].name = backups[i].name
  BY <1>1, <1>4, FileRewritten
<1>6. ASSUME NEW b \in Actors \ {a} PROVE NamesFrom(b)
  <2>1. at(b, "rename") => op[b].name # n
    BY <1>1 DEF IInv, NamesApart, Naming, at
  <2> QED BY <1>4, <1>5, <2>1 DEF IInv, NameOK, NamesFrom, at
<1>7. /\ op' \in [Actors -> Command] /\ \A b \in Actors \ {a} : op'[b] = disturb(a)[b]
      /\ op'[a].kind = op[a].kind /\ op'[a].step = "metadata" /\ op'[a].name = n
      /\ op'[a].target = op[a].target /\ op'[a].alone = op[a].alone
  BY <1>1, <1>2, AloneStep
<1>8. KindOK(a)' /\ NameOK(a)' /\ OwnNames(a)
  BY <1>1, <1>2, <1>3, <1>7 DEF KindOK, NameOK, OwnNames, Naming, at
<1>9. op'[a].alone /\ served' = None /\ op'[a].kind \in {"restore", "open"} => Saved(a)'
  <2> SUFFICES ASSUME op'[a].alone, served' = None, op'[a].kind \in {"restore", "open"}
               PROVE  Saved(a)'
    OBVIOUS
  <2>1. Saved(a) /\ file' = file
    BY <1>1, <1>7, OwnSaved
  <2>2. backups # <<>> /\ newest.name = n /\ op[a].copy = file
    BY <1>1, <2>1 DEF Saved
  <2>3. Len(backups) \in DOMAIN backups /\ backups' # <<>>
    BY <1>5, <2>2, Entries
  <2>4. newest' = e
    BY <1>5, <2>2, <2>3 DEF newest
  <2> QED BY <1>4, <1>7, <2>1, <2>2, <2>3, <2>4 DEF Saved, at
<1>10. op'[a].kind = "open" =>
         /\ served' = None /\ file' \in State /\ file'.schema = "migratable"
         /\ \A b \in Actors \ {a} : op'[b].kind # "open"
  BY <1>1, <1>7, OpensAlone
<1>11. OwnOK(a)
  BY <1>7, <1>8, <1>9, <1>10 DEF OwnOK
<1> QED BY <1>1, <1>5, <1>6, <1>7, <1>11, DirectoryStep

\* Opening a file makes one when it is gone, and that one is not verified.
LEMMA OpenedForValidation ==
  ASSUME IInv, NEW n \in Nat, n <= taken, backups' = openForValidation(n), taken' = taken
  PROVE  /\ backups' \in Seq(Entry) /\ DirectoryOK'
         /\ exists(n) => backups' = backups
         /\ \A i \in DOMAIN backups' : \/ i \in DOMAIN backups /\ backups'[i] = backups[i]
                                       \/ backups'[i].name = n /\ ~backups'[i].verified
<1>1. CASE exists(n)
  <2>1. backups' = backups
    BY <1>1 DEF openForValidation
  <2>2. backups' \in Seq(Entry) /\ DirectoryOK'
    BY <2>1 DEF IInv, TypeOK, DirectoryOK
  <2> QED BY <2>1, <2>2
<1>2. CASE ~exists(n)
  <2> DEFINE e == [name |-> n, file |-> Damaged, verified |-> FALSE]
  <2>1. backups' = Append(backups, e)
    BY <1>2 DEF openForValidation
  <2>2. e \in Entry /\ e.name = n /\ ~e.verified
    BY DEF Entry, Damaged, State
  <2> HIDE DEF e
  <2>3. taken' \in {taken, taken + 1}
    OBVIOUS
  <2> QED BY <1>2, <2>1, <2>2, <2>3, FileAppears
<1> QED BY <1>1, <1>2

\* A backup is marked as verified only when its file can be restored.
LEMMA BackupVerified ==
  ASSUME IInv, NEW a \in Actors, verifyAndTrack(a)
  PROVE  IInv'
<1> DEFINE n == op[a].name
<1>1. /\ at(a, "verify") /\ UNCHANGED <<store, taken, writes>>
      /\ taken' = taken /\ taken' \in {taken, taken + 1} /\ stepAlone(a, "trim")
      /\ backups' = IF validateBackup(n) THEN markBackupVerified(n) ELSE openForValidation(n)
  BY DEF verifyAndTrack
<1>2. op[a] \in Command /\ KindOK(a) /\ NameOK(a) /\ "trim" \in Steps
  BY DEF IInv, TypeOK, Steps, creating
<1>3. n \in Nat /\ n <= taken
  BY <1>1, <1>2 DEF Command, NameOK, Naming, at
<1>4. /\ backups' \in Seq(Entry) /\ DirectoryOK'
      /\ \A i \in DOMAIN backups' : \/ i \in DOMAIN backups /\ backups'[i] = backups[i]
                                    \/ backups'[i].name = n
      /\ exists(n) => /\ Len(backups') = Len(backups)
                      /\ \A i \in DOMAIN backups : backups'[i].file = backups[i].file
  <2>1. CASE validateBackup(n)
    <3> DEFINE e == [entry(n) EXCEPT !.verified = TRUE]
    <3>1. entry(n) \in Entry /\ entry(n).name = n /\ restorable(entry(n).file) /\ exists(n)
      BY <2>1, EntryOfName DEF validateBackup
    <3>2. e \in Entry /\ e.name = n /\ e.file = entry(n).file
      BY <3>1 DEF Entry
    <3>3. backups' = update(n, e)
      BY <1>1, <2>1 DEF markBackupVerified
    <3>4. \A i \in DOMAIN backups : backups[i].name = n => backups[i].file = e.file
      BY <3>1, <3>2, EntryOfName DEF IInv, DirectoryOK
    <3> HIDE DEF e
    <3>5. e.verified => restorable(e.file)
      BY <3>1, <3>2
    <3>6. /\ backups' \in Seq(Entry) /\ DirectoryOK' /\ Len(backups') = Len(backups)
          /\ DOMAIN backups' = DOMAIN backups
          /\ \A i \in DOMAIN backups : /\ backups'[i] = IF backups[i].name = n THEN e ELSE backups[i]
                                       /\ backups'[i].name = backups[i].name
      BY <1>1, <3>2, <3>3, <3>5, FileRewritten
    <3> QED BY <3>4, <3>6
  <2>2. CASE ~validateBackup(n)
    BY <1>1, <1>3, <2>2, OpenedForValidation
  <2> QED BY <2>1, <2>2
<1>5. ASSUME NEW b \in Actors \ {a} PROVE NamesFrom(b)
  <2>1. at(b, "rename") => op[b].name # n
    BY <1>1 DEF IInv, NamesApart, Naming, at
  <2> QED BY <1>4, <2>1 DEF IInv, NameOK, NamesFrom, at
<1>6. /\ op' \in [Actors -> Command] /\ \A b \in Actors \ {a} : op'[b] = disturb(a)[b]
      /\ op'[a].kind = op[a].kind /\ op'[a].step = "trim" /\ op'[a].name = n
      /\ op'[a].target = op[a].target /\ op'[a].alone = op[a].alone
  BY <1>1, <1>2, AloneStep
<1>7. KindOK(a)' /\ NameOK(a)' /\ OwnNames(a)
  BY <1>1, <1>2, <1>3, <1>6 DEF KindOK, NameOK, OwnNames, Naming, at
<1>8. op'[a].alone /\ served' = None /\ op'[a].kind \in {"restore", "open"} => Saved(a)'
  <2> SUFFICES ASSUME op'[a].alone, served' = None, op'[a].kind \in {"restore", "open"}
               PROVE  Saved(a)'
    OBVIOUS
  <2>1. Saved(a) /\ file' = file
    BY <1>1, <1>6, OwnSaved
  <2>2. backups # <<>> /\ newest.name = n /\ newest.file = file
    BY <1>1, <2>1 DEF Saved, at
  <2>3. Len(backups) \in DOMAIN backups
    BY <2>2, Entries
  <2>4. exists(n)
    BY <2>2, <2>3 DEF exists, newest
  <2>5. backups' # <<>> /\ newest'.file = file
    BY <1>4, <2>2, <2>3, <2>4 DEF newest
  <2> QED BY <1>6, <2>1, <2>5 DEF Saved, at
<1>9. op'[a].kind = "open" =>
        /\ served' = None /\ file' \in State /\ file'.schema = "migratable"
        /\ \A b \in Actors \ {a} : op'[b].kind # "open"
  BY <1>1, <1>6, OpensAlone
<1>10. OwnOK(a)
  BY <1>6, <1>7, <1>8, <1>9 DEF OwnOK
<1> QED BY <1>1, <1>4, <1>5, <1>6, <1>10, DirectoryStep

\* What a trim leaves was there, in its order, the newest with it.
LEMMA DirectoryTrimmed ==
  ASSUME IInv, NEW retention \in Nat \ {0}, backups' = trimBackups(backups, retention), taken' = taken
  PROVE  /\ backups' \in Seq(Entry) /\ DirectoryOK'
         /\ \A k \in DOMAIN backups' : \E i \in DOMAIN backups : backups'[k] = backups[i]
         /\ backups # <<>> => \E k \in DOMAIN backups' : backups'[k] = newest
<1> DEFINE S == kept(backups, retention)
<1>1. backups \in Seq(Entry)
  BY Entries
<1>2. /\ backups' \in Seq(Entry) /\ S \in SUBSET Nat /\ S \subseteq DOMAIN backups
      /\ \A k \in DOMAIN backups' : \E i \in S : rank(S, i) = k /\ backups'[k] = backups[i]
      /\ backups # <<>> => \E k \in DOMAIN backups' : backups'[k] = newest
  BY <1>1, TrimKeeps DEF newest
<1> HIDE DEF S
<1>3. \A k \in DOMAIN backups' : \E i \in DOMAIN backups : backups'[k] = backups[i]
  BY <1>2
<1>4. DirectoryOK'
  <2>1. \A k \in DOMAIN backups' : /\ backups'[k].name <= taken'
                                   /\ backups'[k].verified => restorable(backups'[k].file)
    BY <1>3 DEF IInv, DirectoryOK
  <2>2. ASSUME NEW k \in DOMAIN backups', NEW m \in DOMAIN backups', backups'[k].name = backups'[m].name
        PROVE  k = m
    <3>1. PICK i \in S : rank(S, i) = k /\ backups'[k] = backups[i]
      BY <1>2
    <3>2. PICK j \in S : rank(S, j) = m /\ backups'[m] = backups[j]
      BY <1>2
    <3>3. i = j
      BY <1>2, <2>2, <3>1, <3>2 DEF IInv, DirectoryOK
    <3> QED BY <3>1, <3>2, <3>3
  <2> QED BY <2>1, <2>2 DEF DirectoryOK
<1> QED BY <1>2, <1>3, <1>4

\* After the trim a command goes on, with the state it saved still in the directory.
LEMMA Trimmed ==
  ASSUME IInv, NEW a \in Actors, trim(a)
  PROVE  IInv'
<1>1. /\ at(a, "trim") /\ UNCHANGED <<store, taken, writes>> /\ continue(a, disturb(a))
      /\ taken' = taken /\ taken' \in {taken, taken + 1}
      /\ backups' = trimBackups(backups, retentionOf(a))
  BY DEF trim
<1>2. op[a] \in Command /\ KindOK(a) /\ NameOK(a) /\ taken \in Nat
  BY DEF IInv, TypeOK
<1>3. retentionOf(a) \in Nat \ {0}
  BY BackupAssumption DEF retentionOf
<1>4. /\ backups' \in Seq(Entry) /\ DirectoryOK'
      /\ \A k \in DOMAIN backups' : \E i \in DOMAIN backups : backups'[k] = backups[i]
      /\ backups # <<>> => \E k \in DOMAIN backups' : backups'[k] = newest
  BY <1>1, <1>3, DirectoryTrimmed
<1>5. ASSUME NEW b \in Actors \ {a} PROVE NamesFrom(b)
  BY <1>4 DEF IInv, NameOK, NamesFrom, at
<1>6. disturb(a) \in [Actors -> Command] /\ disturb(a)[a] = op[a]
  BY DisturbedTypes
<1>7. CASE op[a].kind = "backup"
  <2>1. op' = [disturb(a) EXCEPT ![a] = Idle]
    BY <1>1, <1>7 DEF continue
  <2>2. op' \in [Actors -> Command] /\ op'[a] = Idle /\ \A b \in Actors \ {a} : op'[b] = disturb(a)[b]
    BY <1>6, <2>1, IdleCommand
  <2>3. taken' \in Nat
    BY <1>1, <1>2
  <2>4. OwnOK(a)
    BY <2>2, <2>3, EndsOK
  <2> QED BY <1>1, <1>4, <1>5, <2>2, <2>4, DirectoryStep
<1>8. CASE op[a].kind # "backup"
  <2> DEFINE s == afterBackup[op[a].kind]
             m == IF op[a].kind = "open" THEN op[a].name ELSE 0
             next == [op[a] EXCEPT !.raw = FALSE, !.step = s, !.name = m]
  <2>1. op[a].kind \in {"restore", "rebuild", "open"}
    BY <1>1, <1>2, <1>8 DEF KindOK, at, Command, Kinds
  <2>2. /\ s \in {"validate", "candidate", "migrate"} /\ s \in Steps
        /\ op[a].kind = "restore" <=> s = "validate"
        /\ op[a].kind = "rebuild" <=> s = "candidate"
        /\ op[a].kind = "open" <=> s = "migrate"
    <3>1. s \in {"validate", "candidate", "migrate"}
          /\ (op[a].kind = "restore" <=> s = "validate")
          /\ (op[a].kind = "rebuild" <=> s = "candidate")
          /\ (op[a].kind = "open" <=> s = "migrate")
      BY <2>1 DEF afterBackup
    <3> HIDE DEF s
    <3> QED BY <3>1 DEF Steps
  <2>3. m \in Nat
    BY <1>2 DEF Command
  <2>4. op' = [disturb(a) EXCEPT ![a] = next]
    BY <1>1, <1>8 DEF continue
  <2> HIDE DEF s, m
  <2>5. /\ next \in Command /\ next.kind = op[a].kind /\ next.step = s /\ next.target = op[a].target
        /\ next.alone = op[a].alone
    BY <1>2, <2>2, <2>3 DEF Command
  <2> HIDE DEF next
  <2>6. /\ op' \in [Actors -> Command] /\ \A b \in Actors \ {a} : op'[b] = disturb(a)[b]
        /\ op'[a].kind = op[a].kind /\ op'[a].step = s /\ op'[a].target = op[a].target
        /\ op'[a].alone = op[a].alone
    BY <1>6, <2>4, <2>5
  <2>7. KindOK(a)'
    BY <2>1, <2>2, <2>6 DEF KindOK
  <2>8. NameOK(a)' /\ OwnNames(a) /\ op'[a].step # "replace"
    BY <1>1, <1>2, <2>2, <2>6 DEF NameOK, OwnNames, Naming, at
  <2>9. op'[a].alone /\ served' = None /\ op'[a].kind \in {"restore", "open"} => Saved(a)'
    <3> SUFFICES ASSUME op'[a].alone, served' = None, op'[a].kind \in {"restore", "open"}
                 PROVE  Saved(a)'
      OBVIOUS
    <3>1. Saved(a) /\ file' = file
      BY <1>1, <2>6, OwnSaved
    <3>2. backups # <<>> /\ newest.file = file
      BY <1>1, <3>1 DEF Saved, at
    <3>3. \E i \in DOMAIN backups' : backups'[i].file = file'
      BY <1>4, <3>1, <3>2
    <3> QED BY <2>2, <2>6, <3>3 DEF Saved, at
  <2>10. op'[a].kind = "open" =>
           /\ served' = None /\ file' \in State /\ file'.schema = "migratable"
           /\ \A b \in Actors \ {a} : op'[b].kind # "open"
    BY <1>1, <2>6, OpensAlone
  <2>11. OwnOK(a)
    BY <2>6, <2>7, <2>8, <2>9, <2>10 DEF OwnOK
  <2> QED BY <1>1, <1>4, <1>5, <2>6, <2>11, DirectoryStep
<1> QED BY <1>7, <1>8

\* A snapshot is restored after it passed its validation.
LEMMA TargetValidated ==
  ASSUME IInv, NEW a \in Actors, validateTarget(a)
  PROVE  IInv'
<1> DEFINE n == op[a].target
<1>1. /\ at(a, "validate") /\ UNCHANGED <<store, taken, writes>>
      /\ taken' = taken /\ taken' \in {taken, taken + 1} /\ backups' = openForValidation(n)
  BY DEF validateTarget
<1>2. /\ op \in [Actors -> Command] /\ op[a] \in Command /\ KindOK(a) /\ NameOK(a) /\ taken \in Nat
      /\ op[a].kind = "restore"
  BY <1>1 DEF IInv, TypeOK, KindOK, at
<1>3. n \in Nat /\ n <= taken
  BY <1>2 DEF Command, NameOK
<1>4. /\ backups' \in Seq(Entry) /\ DirectoryOK'
      /\ exists(n) => backups' = backups
      /\ \A i \in DOMAIN backups' : \/ i \in DOMAIN backups /\ backups'[i] = backups[i]
                                    \/ backups'[i].name = n /\ ~backups'[i].verified
  BY <1>1, <1>3, OpenedForValidation
<1>5. CASE validateBackup(n)
  <2>1. backups' = backups /\ exists(n) /\ restorable(entry(n).file)
        /\ op' = [op EXCEPT ![a] = [op[a] EXCEPT !.step = "replace"]]
    BY <1>4, <1>5 DEF validateBackup, validateTarget, step
  <2>2. [op[a] EXCEPT !.step = "replace"] \in Command
    BY <1>2 DEF Command, Steps
  <2>3. /\ op' \in [Actors -> Command] /\ \A b \in Actors \ {a} : op'[b] = op[b]
        /\ op'[a].kind = "restore" /\ op'[a].step = "replace" /\ op'[a].target = n
        /\ op'[a].alone = op[a].alone
    BY <1>2, <2>1, <2>2 DEF Command
  <2>4. KindOK(a)' /\ NameOK(a)' /\ OwnNames(a)
    BY <1>1, <1>2, <1>3, <2>3 DEF KindOK, NameOK, OwnNames, Naming, at
  <2>5. op'[a].alone /\ served' = None /\ op'[a].kind \in {"restore", "open"} => Saved(a)'
    <3> SUFFICES ASSUME op'[a].alone, served' = None
                 PROVE  Saved(a)'
      OBVIOUS
    <3>1. Saved(a) /\ file' = file
      BY <1>1, <1>2, <2>3 DEF IInv, SavedOK, store
    <3> QED BY <1>1, <2>1, <2>3, <3>1 DEF Saved, at
  <2>6. (exists(op[a].target) /\ restorable(entry(op[a].target).file))'
    BY <2>1, <2>3 DEF exists, entry
  <2>7. OwnOK(a)
    BY <2>3, <2>4, <2>5, <2>6 DEF OwnOK
  <2> QED BY <1>1, <2>1, <2>3, <2>7, CalmStep
<1>6. CASE ~validateBackup(n)
  <2>1. op' = [disturb(a) EXCEPT ![a] = Idle]
    BY <1>6 DEF validateTarget
  <2>2. op' \in [Actors -> Command] /\ op'[a] = Idle /\ \A b \in Actors \ {a} : op'[b] = disturb(a)[b]
    BY <2>1, DisturbedTypes, IdleCommand
  <2>3. OwnOK(a)
    BY <1>1, <1>2, <2>2, EndsOK
  <2>4. ASSUME NEW b \in Actors \ {a} PROVE NamesFrom(b)
    <3>1. at(b, "rename") /\ ~op[b].raw => op[b].name # n
      BY <1>2 DEF IInv, NamesApart
    <3> QED BY <1>4, <3>1 DEF IInv, NameOK, NamesFrom, at
  <2> QED BY <1>1, <1>4, <2>2, <2>3, <2>4, DirectoryStep
<1> QED BY <1>5, <1>6

-----------------------------------------------------------------------------
(***************************************************************************)
(* The invariant holds.                                                    *)
(***************************************************************************)
\* At first there are two backups, one of which is verified and can be restored.
LEMMA InitOK == Init => IInv
<1> SUFFICES ASSUME Init PROVE IInv
  OBVIOUS
<1> DEFINE first == [name |-> 1, file |-> [file EXCEPT !.schema = "migratable"], verified |-> TRUE]
           second == [name |-> 2, file |-> Damaged, verified |-> FALSE]
<1>1. /\ file \in State /\ served = None /\ attached = FALSE /\ taken = 2 /\ writes = 0
      /\ backups = <<first, second>> /\ op = [a \in Actors |-> Idle]
  BY DEF Init, State
<1>2. [file EXCEPT !.schema = "migratable"] \in State /\ Damaged \in State
      /\ [file EXCEPT !.schema = "migratable"].schema = "migratable" /\ Damaged.schema = "unusable"
  BY <1>1 DEF State, Damaged
<1>3. /\ first \in Entry /\ first.name = 1 /\ restorable(first.file)
      /\ second \in Entry /\ second.name = 2 /\ ~second.verified
  BY <1>2, BackupAssumption DEF Entry, restorable
<1> HIDE DEF first, second
<1>4. DOMAIN backups = {1, 2} /\ backups[1] = first /\ backups[2] = second /\ backups \in Seq(Entry)
  BY <1>1, <1>3
<1>5. DirectoryOK
  BY <1>1, <1>3, <1>4 DEF DirectoryOK
<1>6. op \in [Actors -> Command] /\ \A a \in Actors : op[a] = Idle
  BY <1>1, IdleCommand
<1>7. \A a \in Actors : KindOK(a) /\ NameOK(a)
  BY <1>1, <1>6, IdleCommand DEF KindOK, NameOK, Naming, at
<1>8. NamesApart /\ OpenOK /\ SavedOK /\ TargetOK
  BY <1>6, IdleCommand DEF NamesApart, OpenOK, SavedOK, TargetOK, Naming, at
<1>9. TypeOK
  BY <1>1, <1>4, <1>6 DEF TypeOK
<1> QED BY <1>5, <1>7, <1>8, <1>9 DEF IInv

\* Each step of the module, by its actor or by the daemon.
LEMMA StepOK == IInv /\ [Next]_vars => IInv'
<1> SUFFICES ASSUME IInv, [Next]_vars PROVE IInv'
  OBVIOUS
<1>1. CASE UNCHANGED vars
  BY <1>1 DEF vars, store, IInv, TypeOK, DirectoryOK, KindOK, NameOK, NamesApart, OpenOK, SavedOK, Saved,
     TargetOK, at, exists, entry, newest
<1>2. ASSUME NEW a \in Actors,
             \/ createStateBackup(a) \/ restoreStateBackup(a) \/ openStore(a) \/ rebuild(a)
             \/ vacuumInto(a) \/ renameBackup(a) \/ rawSnapshot(a) \/ rawSnapshotEnds(a)
             \/ writeMetadata(a) \/ verifyAndTrack(a) \/ trim(a) \/ createFails(a)
             \/ validateTarget(a) \/ atomicReplace(a)
             \/ migrationRefused(a) \/ performMigration(a)
             \/ rebuildRefused(a) \/ removeLiveDbFiles(a) \/ replaceLiveDb(a)
             \/ write(a) \/ createMissing(a) \/ Crash(a)
      PROVE  IInv'
  BY <1>2, CommandsBegin, SnapshotTaken, BackupRenamed, RawBegins, RawEnds, MetadataWritten, BackupVerified,
     Trimmed, CreationFails, TargetValidated, SnapshotInstalled, CommandStops, StoreMigrated, RebuildSwaps,
     StoreWritten
<1>3. CASE startDaemon \/ stopDaemon \/ crashDaemon
  BY <1>3, DaemonStarts, DaemonEnds
<1> QED BY <1>1, <1>2, <1>3 DEF Next

\* The directory, the names and what each command has saved or validated are in order
\* in every state (backup.ts, store.migrations.ts, rebuild.ts).
THEOREM BackupInvariant == Spec => []IInv
BY InitOK, StepOK, PTL DEF Spec

-----------------------------------------------------------------------------
(***************************************************************************)
(* The floor of restorable backups.                                        *)
(***************************************************************************)
\* Outside a trim a position stays, and a verified backup stays verified.
LEMMA VerifiedStays ==
  ASSUME IInv, NEW a \in Actors,
         \/ renameBackup(a) \/ rawSnapshot(a) \/ rawSnapshotEnds(a)
         \/ verifyAndTrack(a) \/ validateTarget(a)
  PROVE  \A i \in DOMAIN backups :
           i \in DOMAIN backups' /\ (backups[i].verified => backups'[i].verified)
<1>1. /\ backups \in Seq(Entry) /\ \A i \in DOMAIN backups : backups[i] \in Entry
      /\ DirectoryOK /\ NameOK(a)
  BY Entries DEF IInv
<1>2. ASSUME NEW e, backups' = Append(backups, e)
      PROVE  \A i \in DOMAIN backups : i \in DOMAIN backups' /\ backups'[i] = backups[i]
  BY <1>1, <1>2
<1>3. ASSUME NEW n, backups' = openForValidation(n)
      PROVE  \A i \in DOMAIN backups : i \in DOMAIN backups' /\ backups'[i] = backups[i]
  BY <1>1, <1>2, <1>3 DEF openForValidation
<1>4. CASE renameBackup(a) \/ rawSnapshot(a)
  BY <1>2, <1>4 DEF renameBackup, rawSnapshot
<1>5. CASE rawSnapshotEnds(a)
  BY <1>1, <1>5 DEF rawSnapshotEnds, update, NameOK, at
<1>6. CASE verifyAndTrack(a)
  <2>1. CASE validateBackup(op[a].name)
    <3>1. entry(op[a].name) \in Entry
      BY <2>1, EntryOfName DEF validateBackup
    <3>2. [entry(op[a].name) EXCEPT !.verified = TRUE].verified
      BY <3>1 DEF Entry
    <3>3. backups' = update(op[a].name, [entry(op[a].name) EXCEPT !.verified = TRUE])
      BY <1>6, <2>1 DEF verifyAndTrack, markBackupVerified
    <3> QED BY <3>2, <3>3 DEF update
  <2>2. CASE ~validateBackup(op[a].name)
    BY <1>3, <1>6, <2>2 DEF verifyAndTrack
  <2> QED BY <2>1, <2>2
<1>7. CASE validateTarget(a)
  BY <1>3, <1>7 DEF validateTarget
<1> QED BY <1>4, <1>5, <1>6, <1>7

\* What is verified can be restored, and is a finite number of positions.
LEMMA GoodIsVerified ==
  /\ IInv => goodBackups = verified(backups) /\ IsFiniteSet(verified(backups))
  /\ IInv' => goodBackups' = verified(backups') /\ IsFiniteSet(verified(backups'))
<1>1. ASSUME NEW dir, NEW S, dir \in Seq(S) PROVE IsFiniteSet(verified(dir))
  <2>1. Len(dir) \in Nat /\ DOMAIN dir = 1..Len(dir)
    BY <1>1
  <2>2. IsFiniteSet(1..Len(dir))
    BY <2>1, FS_Interval
  <2>3. verified(dir) \in SUBSET (1..Len(dir))
    BY <2>1 DEF verified
  <2> QED BY <2>2, <2>3, FS_Subset
<1>2. IInv => backups \in Seq(Entry) /\ DirectoryOK
  BY DEF IInv, TypeOK
<1>3. IInv' => backups' \in Seq(Entry) /\ DirectoryOK'
  BY DEF IInv, TypeOK
<1>4. IInv => goodBackups = verified(backups)
  BY <1>2 DEF DirectoryOK, goodBackups, verified
<1>5. IInv' => goodBackups' = verified(backups')
  BY <1>3 DEF DirectoryOK, goodBackups, verified
<1> QED BY <1>1, <1>2, <1>3, <1>4, <1>5

\* The directory is as it was, was trimmed, or keeps every verified backup in its place.
LEMMA DirectoryChanges ==
  ASSUME IInv, [Next]_vars
  PROVE  \/ backups' = backups
         \/ \E a \in Actors : trim(a)
         \/ \A i \in DOMAIN backups : i \in DOMAIN backups' /\ (backups[i].verified => backups'[i].verified)
<1>1. CASE UNCHANGED vars
  BY <1>1 DEF vars
<1>2. CASE startDaemon \/ stopDaemon \/ crashDaemon
  BY <1>2 DEF startDaemon, stopDaemon, crashDaemon
<1>3. ASSUME NEW a \in Actors,
             \/ createStateBackup(a) \/ restoreStateBackup(a) \/ openStore(a) \/ rebuild(a)
             \/ vacuumInto(a) \/ writeMetadata(a) \/ createFails(a) \/ atomicReplace(a)
             \/ migrationRefused(a) \/ performMigration(a)
             \/ rebuildRefused(a) \/ removeLiveDbFiles(a) \/ replaceLiveDb(a)
             \/ write(a) \/ createMissing(a) \/ Crash(a)
      PROVE  backups' = backups
  BY <1>3 DEF createStateBackup, restoreStateBackup, openStore, rebuild, begin, vacuumInto, writeMetadata,
     createFails, atomicReplace, migrationRefused, performMigration, rebuildRefused, removeLiveDbFiles,
     replaceLiveDb, write, createMissing, Crash
<1> QED BY <1>1, <1>2, <1>3, VerifiedStays DEF Next

\* No step takes the verified backups below the floor once they reached it.
LEMMA FloorKept ==
  ASSUME IInv, IInv', [Next]_vars, Cardinality(goodBackups) >= Floor
  PROVE  Cardinality(goodBackups)' >= Floor
<1> DEFINE V == verified(backups)
           W == verified(backups')
<1>1. /\ goodBackups = V /\ IsFiniteSet(V) /\ goodBackups' = W /\ IsFiniteSet(W)
      /\ Cardinality(goodBackups)' = Cardinality(W)
  BY GoodIsVerified
<1>2. Cardinality(V) \in Nat /\ Cardinality(W) \in Nat /\ Floor \in Nat /\ Floor <= Cardinality(V)
  BY <1>1, FS_CardinalityType, BackupAssumption
<1>3. CASE backups' = backups
  BY <1>1, <1>2, <1>3
<1>4. CASE \E a \in Actors : trim(a)
  <2>1. PICK a \in Actors : backups' = trimBackups(backups, retentionOf(a))
    BY <1>4 DEF trim
  <2>2. retentionOf(a) \in Nat \ {0} /\ backups \in Seq(Entry)
    BY BackupAssumption, Entries DEF retentionOf
  <2>3. Floor <= Cardinality(W)
    BY <1>2, <2>1, <2>2, TrimKeeps
  <2> QED BY <1>1, <1>2, <2>3
<1>5. CASE \A i \in DOMAIN backups : i \in DOMAIN backups' /\ (backups[i].verified => backups'[i].verified)
  <2>1. V \in SUBSET W
    BY <1>5 DEF verified
  <2>2. Cardinality(V) <= Cardinality(W)
    BY <1>1, <2>1, FS_Subset
  <2> HIDE DEF V, W
  <2> QED BY <1>1, <1>2, <2>2
<1> QED BY <1>3, <1>4, <1>5, DirectoryChanges

\* Once `Floor` backups can be restored there are always so many, however low the
\* retention and whoever crashes (backup.ts trimBackups, verifyAndTrack).
THEOREM RestorableFloorHolds == Spec => RestorableFloor
<1>1. IInv /\ IInv' /\ [Next]_vars =>
        [Cardinality(goodBackups) >= Floor => Cardinality(goodBackups)' >= Floor]_vars
  BY FloorKept
<1> QED BY <1>1, BackupInvariant, PTL DEF Spec, RestorableFloor

-----------------------------------------------------------------------------
(***************************************************************************)
(* What is overwritten, and what is installed.                             *)
(***************************************************************************)
\* To be disturbed moves no command on.
LEMMA DisturbedSteps ==
  ASSUME IInv, NEW b \in Actors, NEW a \in Actors
  PROVE  disturb(b)[a].step = op[a].step
<1>1. op[a] \in Command
  BY DEF IInv, TypeOK
<1>2. [op[a] EXCEPT !.alone = FALSE].step = op[a].step
  BY <1>1 DEF Command
<1> QED BY <1>2 DEF disturb

\* The step of a command that is about to change the store, and changes it.
LEMMA OverwritingSteps ==
  ASSUME IInv, [Next]_vars, NEW a \in Actors, acts(a), op[a].step \in {"replace", "migrate", "swap"}
  PROVE  file' = file \/ atomicReplace(a) \/ performMigration(a) \/ replaceLiveDb(a)
<1>1. op \in [Actors -> Command] /\ \A b \in Actors : KindOK(b)
  BY DEF IInv, TypeOK
<1>2. ~UNCHANGED vars
  BY DEF vars, acts
<1>3. ~(startDaemon \/ stopDaemon \/ crashDaemon)
  BY BackupAssumption DEF startDaemon, stopDaemon, crashDaemon, acts, IInv, TypeOK
<1>4. ASSUME NEW b \in Actors,
             \/ createStateBackup(b) \/ restoreStateBackup(b) \/ openStore(b) \/ rebuild(b)
             \/ vacuumInto(b) \/ renameBackup(b) \/ rawSnapshot(b) \/ rawSnapshotEnds(b)
             \/ writeMetadata(b) \/ verifyAndTrack(b) \/ trim(b) \/ createFails(b)
             \/ validateTarget(b) \/ migrationRefused(b) \/ rebuildRefused(b) \/ Crash(b)
      PROVE  file' = file
  BY <1>4 DEF createStateBackup, restoreStateBackup, openStore, rebuild, begin, vacuumInto, renameBackup,
     rawSnapshot, rawSnapshotEnds, writeMetadata, verifyAndTrack, trim, createFails, validateTarget,
     migrationRefused, rebuildRefused, Crash, store
<1>5. ASSUME NEW b \in Actors, write(b) \/ createMissing(b) PROVE FALSE
  <2>1. op' = disturb(b)
    BY <1>5 DEF write, createMissing
  <2> QED BY <2>1, DisturbedSteps DEF acts
<1>6. ASSUME NEW b \in Actors, performMigration(b), b # a PROVE FALSE
  <2>1. op'[a] = disturb(b)[a]
    BY <1>1, <1>6, DisturbedTypes DEF performMigration
  <2> QED BY <2>1, DisturbedSteps DEF acts
<1>7. ASSUME NEW b \in Actors, atomicReplace(b) \/ replaceLiveDb(b), b # a PROVE FALSE
  <2>1. op[b].step \in {"replace", "swap"} /\ op[b].kind # "open"
    BY <1>1, <1>7 DEF atomicReplace, replaceLiveDb, at, KindOK
  <2>2. op'[b].step = op[b].step
    BY <1>7, <2>1 DEF acts
  <2> DEFINE opening == [Idle EXCEPT !.kind = "open", !.step = "snapshot"]
  <2>3. opening.step = "snapshot"
    BY DEF Idle
  <2> HIDE DEF opening
  <2>4. op'[b] = Idle \/ op'[b] = opening
    BY <1>1, <1>7 DEF atomicReplace, replaceLiveDb, replaceFile, done, opening
  <2> QED BY <2>1, <2>2, <2>3, <2>4, IdleCommand
<1>8. ASSUME NEW b \in Actors, removeLiveDbFiles(b) PROVE FALSE
  <2>1. op[b].step = "candidate" /\ op[b].kind = "rebuild" /\ op[b] \in Command
    BY <1>1, <1>8 DEF removeLiveDbFiles, at, KindOK
  <2>2. op'[b].step = "swap"
    BY <1>8, <2>1 DEF removeLiveDbFiles, replaceFile, Command
  <2>3. b # a
    BY <2>1
  <2> QED BY <2>1, <2>2, <2>3 DEF acts
<1> QED BY <1>2, <1>3, <1>4, <1>5, <1>6, <1>7, <1>8 DEF Next

\* A command that saves before it overwrites has saved, while nobody disturbed it.
THEOREM OverwrittenIsSaved == Spec => OverwrittenStateIsSaved
<1>1. ASSUME IInv, NEW a \in Actors, op[a].step \in {"replace", "migrate"}, op[a].alone, served = None
      PROVE  \E i \in DOMAIN backups : backups[i].file = file
  BY <1>1 DEF IInv, KindOK, SavedOK, Saved
<1>2. IInv /\ [Next]_vars =>
        [\A a \in Actors :
           acts(a) /\ op[a].step \in {"replace", "migrate"} /\ op[a].alone
           /\ served = None /\ file' # file
             => \E i \in DOMAIN backups : backups[i].file = file]_vars
  BY <1>1
<1> QED BY <1>2, BackupInvariant, PTL DEF Spec, OverwrittenStateIsSaved

\* What a restore, a migration or a rebuild puts in the store's place can be used.
LEMMA Installs ==
  ASSUME IInv, [Next]_vars, NEW a \in Actors, acts(a), op[a].step \in {"replace", "migrate", "swap"},
         op[a].alone
  PROVE  file' = file \/ restorable(file')
<1>1. CASE atomicReplace(a)
  BY <1>1 DEF atomicReplace, replaceFile, IInv, TargetOK
<1>2. CASE performMigration(a)
  <2>1. file \in State /\ file.schema = "migratable"
    BY <1>2 DEF performMigration, at, IInv, KindOK, OpenOK
  <2>2. [file EXCEPT !.schema = "current"] \in State /\ [file EXCEPT !.schema = "current"].schema = "current"
    BY <2>1 DEF State
  <2>3. restorable([file EXCEPT !.schema = "current"])
    BY <2>2, BackupAssumption DEF restorable, Damaged
  <2> QED BY <1>2, <2>3 DEF performMigration
<1>3. CASE replaceLiveDb(a)
  <2>1. candidate \in State /\ candidate.schema = "current"
    BY DEF candidate, State
  <2> QED BY <1>3, <2>1, BackupAssumption DEF replaceLiveDb, replaceFile, restorable, Damaged
<1> QED BY <1>1, <1>2, <1>3, OverwritingSteps

\* Nothing that replaces the store puts an unusable one in its place, unless the snapshot was
\* removed between its validation and its copy (backup.ts validateBackup, atomicReplace).
THEOREM InstalledIsUsable == Spec => InstalledStateIsUsable
<1>1. IInv /\ [Next]_vars =>
        [\A a \in Actors :
           acts(a) /\ op[a].step \in {"replace", "migrate", "swap"} /\ op[a].alone
             => file' = file \/ restorable(file')]_vars
  BY Installs
<1> QED BY <1>1, BackupInvariant, PTL DEF Spec, InstalledStateIsUsable
=============================================================================
