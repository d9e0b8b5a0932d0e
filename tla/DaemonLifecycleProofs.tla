------------------------ MODULE DaemonLifecycleProofs ------------------------
(***************************************************************************)
(* Safety of DaemonLifecycle for any daemons, commands and worktrees: a    *)
(* command keeps its store while it runs, and the daemon that lock and     *)
(* token name has the store.                                               *)
(***************************************************************************)
EXTENDS DaemonLifecycle, TLAPS

----------------------------------------------------------------------------
(* The inductive invariant.                                                *)

\* Where a daemon and a command can be, and where a daemon has the store.
WithStore == {"verifying", "writingToken", "starting", "listening", "serving", "closing"}
DaemonAt == {"start?", "locking", "writing", "opening", "unlinkLock", "unlinkToken", "exited"} \cup WithStore
CommandAt == {"forward?", "open?", "worktree?", "forwarding", "probing", "posting", "waiting",
              "opening", "running", "exited"}
Lock == [by : Daemons \cup {None}, written : BOOLEAN]
Verdict == [phase : {"unread", "identity", "stale"}, by : Daemons \cup {None}]
Request == [at : Daemons \cup {None}, state : {"none", "reading", "executing", "answered"},
            nonce : Daemons \cup {None}, claim : Sessions \cup {None}]

TypeOK ==
  /\ lock \in Lock
  /\ token \in Daemons \cup {None}
  /\ holder \in Procs \cup {None}
  /\ port \in Daemons \cup {None}
  /\ pc \in [Procs -> DaemonAt \cup CommandAt]
  /\ \A d \in Daemons : pc[d] \in DaemonAt
  /\ \A c \in Commands : pc[c] \in CommandAt
  /\ seen \in [Procs -> Verdict]
  /\ handler \in [Commands -> Request]
  /\ stopping \subseteq Daemons

\* SQLite's lock is held by the process that is between opening and closing the
\* store, and by nobody else.
Holds(p) == pc[p] \in WithStore \cup {"running"}
HolderOK == \A p \in Procs : Holds(p) <=> holder = p

\* A lock that names a daemon was not yet unlinked by it, a token that names one
\* was written after its store was open.
LockOK == \A d \in Daemons : lock.by = d => pc[d] # "unlinkToken"
TokenOK ==
  \A d \in Daemons : token = d =>
    pc[d] \in {"starting", "listening", "serving", "closing", "unlinkLock", "unlinkToken", "exited"}

\* Who listens serves, and a daemon that drains listens no longer.
PortOK ==
  \A d \in Daemons :
    /\ port = d => at(d, "serving") /\ d \notin stopping
    /\ d \in stopping => pc[d] \in {"serving", "closing", "unlinkLock", "unlinkToken", "exited"}

\* A request that is read or executed is at a daemon that has not closed its store.
HandlersOK ==
  \A c \in Commands : handler[c].state \in {"reading", "executing"} =>
    handler[c].at \in Daemons /\ at(handler[c].at, "serving")

IInv == TypeOK /\ HolderOK /\ LockOK /\ TokenOK /\ PortOK /\ HandlersOK

\* The empty lock file is a lock file of nobody.
LEMMA NoLockType == NoLock \in Lock /\ NoLock.by = None
BY DEF NoLock, Lock

\* The invariant holds when nothing runs yet.
LEMMA InitOK == Init => IInv
BY DaemonAssumption
   DEF Init, IInv, TypeOK, HolderOK, LockOK, TokenOK, PortOK, HandlersOK, Holds, Procs, WithStore, DaemonAt,
       CommandAt, NoLock, Unread, NoRequest, Lock, Verdict, Request, at

----------------------------------------------------------------------------
(* The steps.                                                              *)

\* A process moves between two places where it holds nothing and promises nothing.
Plain == {"start?", "forward?", "open?", "worktree?", "locking", "opening", "forwarding", "exited"}
\* A process that moves between places where it holds nothing, and removes the lock file at most,
\* keeps the invariant.
LEMMA PlainMove ==
  ASSUME IInv, NEW p \in Procs, NEW l \in Plain, pc[p] \in Plain \ {"exited"},
         p \in Daemons => l \in DaemonAt, p \in Commands => l \in CommandAt,
         pc' = [pc EXCEPT ![p] = l], seen' \in [Procs -> Verdict],
         lock' = lock \/ lock' = NoLock,
         handler' \in [Commands -> Request],
         \A c \in Commands : handler'[c].state = handler[c].state /\ handler'[c].at = handler[c].at,
         UNCHANGED <<token, holder, port, stopping>>
  PROVE  IInv'
<1>1. /\ pc' \in [Procs -> DaemonAt \cup CommandAt]
      /\ pc'[p] = l /\ \A q \in Procs \ {p} : pc'[q] = pc[q]
  BY DEF IInv, TypeOK, Procs
<1>2. TypeOK'
  <2>1. lock' \in Lock
    <3>1. lock \in Lock
      BY DEF IInv, TypeOK
    <3> QED BY <3>1, NoLockType
  <2>2. (\A d \in Daemons : pc'[d] \in DaemonAt) /\ (\A c \in Commands : pc'[c] \in CommandAt)
    BY <1>1 DEF IInv, TypeOK, Procs
  <2> QED BY <1>1, <2>1, <2>2 DEF IInv, TypeOK
<1>3. HolderOK'
  BY <1>1 DEF IInv, HolderOK, Holds, Plain, WithStore
<1>4. LockOK'
  BY <1>1, DaemonAssumption DEF IInv, LockOK, Plain, NoLock, Procs
<1>5. TokenOK'
  BY <1>1 DEF IInv, TokenOK, Plain, Procs
<1>6. PortOK'
  BY <1>1 DEF IInv, PortOK, Plain, Procs, at
<1>7. HandlersOK'
  BY <1>1 DEF IInv, HandlersOK, Plain, Procs, at
<1> QED BY <1>2, <1>3, <1>4, <1>5, <1>6, <1>7 DEF IInv

\* A check of the lock ends, goes on to the identity, or removes a lock that it
\* found stale.
LEMMA CheckStep ==
  ASSUME IInv, NEW p \in Procs, isDaemonRunning(p) \/ checkDaemonIdentity(p) \/ unlinkStale(p)
  PROVE  IInv'
<1>1. /\ pc[p] \in Checks /\ UNCHANGED <<token, holder, port, handler, stopping>>
      /\ lock' = lock \/ lock' = NoLock
  BY DEF isDaemonRunning, checkDaemonIdentity, unlinkStale, checking, removeLock, files, serving
<1>2. PICK running \in BOOLEAN, v \in Verdict :
        \/ judge(p, running)
        \/ seen' = [seen EXCEPT ![p] = v] /\ pc' = pc
  <2>1. Stale \in Verdict
    BY DEF Stale, Verdict
  <2>2. CASE isDaemonRunning(p)
    <3>1. CASE lock = NoLock
      BY <2>1, <2>2, <3>1 DEF isDaemonRunning
    <3>2. CASE lock # NoLock /\ ~lock.written
      BY <2>1, <2>2, <3>2 DEF isDaemonRunning
    <3>3. CASE lock # NoLock /\ lock.written
      <4>1. [phase |-> "identity", by |-> lock.by] \in Verdict
        BY DEF Verdict, IInv, TypeOK, Lock
      <4>2. /\ seen' = [seen EXCEPT ![p] = IF alive(lock.by) THEN [phase |-> "identity", by |-> lock.by] ELSE Stale]
            /\ pc' = pc
        BY <2>2, <3>3 DEF isDaemonRunning
      <4> QED BY <2>1, <4>1, <4>2
    <3> QED BY <3>1, <3>2, <3>3
  <2>3. CASE checkDaemonIdentity(p)
    BY <2>1, <2>3 DEF checkDaemonIdentity
  <2>4. CASE unlinkStale(p)
    BY <2>1, <2>4 DEF unlinkStale
  <2> QED BY <2>2, <2>3, <2>4
<1>3. /\ p \in Daemons => pc[p] = "start?"
      /\ p \in Commands => pc[p] \in {"forward?", "open?", "worktree?"}
  BY <1>1 DEF IInv, TypeOK, Checks, DaemonAt, WithStore, CommandAt
<1>4. Unread \in Verdict
  BY DEF Unread, Verdict
<1>5. PICK l \in Plain : /\ p \in Daemons => l \in DaemonAt
                         /\ p \in Commands => l \in CommandAt
                         /\ pc' = [pc EXCEPT ![p] = l]
  <2>1. CASE judge(p, running)
    <3>1. pc' = [pc EXCEPT ![p] = after(p, running)]
      BY <2>1 DEF judge, goto
    <3>2. /\ at(p, "start?") => after(p, running) \in {"exited", "locking"}
          /\ at(p, "forward?") => after(p, running) \in {"forwarding", "exited", "open?"}
          /\ at(p, "open?") => after(p, running) \in {"exited", "worktree?", "opening"}
          /\ at(p, "worktree?") => after(p, running) \in {"opening", "exited"}
      BY DEF after, at
    <3>3. CASE p \in Daemons
      BY <1>3, <3>1, <3>2, <3>3, DaemonAssumption DEF at, Plain, DaemonAt
    <3>4. CASE p \in Commands
      BY <1>3, <3>1, <3>2, <3>4, DaemonAssumption DEF at, Plain, CommandAt
    <3> QED BY <3>3, <3>4 DEF Procs
  <2>2. CASE pc' = pc
    <3>1. pc[p] \in Plain
      BY <1>1 DEF Checks, Plain
    <3>2. pc' = [pc EXCEPT ![p] = pc[p]]
      BY <2>2 DEF IInv, TypeOK
    <3> QED BY <3>1, <3>2 DEF IInv, TypeOK
  <2> QED BY <1>2, <2>1, <2>2
<1>6. seen' \in [Procs -> Verdict]
  BY <1>2, <1>4 DEF judge, IInv, TypeOK
<1>7. pc[p] \in Plain \ {"exited"}
  BY <1>1 DEF Checks, Plain
<1>8. handler' \in [Commands -> Request]
  BY <1>1 DEF IInv, TypeOK
<1> QED BY <1>1, <1>5, <1>6, <1>7, <1>8, PlainMove

\* A daemon's step to the next place of its life.
LEMMA DaemonMoves ==
  ASSUME IInv, NEW d \in Procs, NEW l \in DaemonAt, pc' = [pc EXCEPT ![d] = l], d \in Daemons
  PROVE  /\ pc' \in [Procs -> DaemonAt \cup CommandAt]
         /\ pc'[d] = l /\ \A q \in Procs \ {d} : pc'[q] = pc[q]
         /\ \A q \in Daemons : pc'[q] \in DaemonAt
         /\ \A c \in Commands : pc'[c] \in CommandAt /\ pc'[c] = pc[c]
BY DaemonAssumption DEF IInv, TypeOK, Procs

\* Before the store is open.
LEMMA LockStep ==
  ASSUME IInv, NEW d \in Procs, acquireLock(d) \/ writeLock(d)
  PROVE  IInv'
<1>1. /\ pc[d] \in {"locking", "writing"}
      /\ UNCHANGED <<token, holder, port, seen, handler, stopping>>
      /\ lock' = lock \/ (lock' = [by |-> d, written |-> FALSE] /\ pc'[d] # "unlinkToken")
           \/ lock' = [lock EXCEPT !.written = TRUE]
  BY DEF acquireLock, writeLock, at, goto, serving, IInv, TypeOK
<1>2. d \in Daemons
  BY <1>1 DEF IInv, TypeOK, CommandAt, Procs
<1>3. PICK l \in {"writing", "exited", "opening"} : pc' = [pc EXCEPT ![d] = l]
  BY DEF acquireLock, writeLock, goto, exit
<1>4. l \in DaemonAt
  BY DEF DaemonAt
<1>5. /\ pc' \in [Procs -> DaemonAt \cup CommandAt]
      /\ pc'[d] = l /\ \A q \in Procs \ {d} : pc'[q] = pc[q]
      /\ \A q \in Daemons : pc'[q] \in DaemonAt
      /\ \A c \in Commands : pc'[c] \in CommandAt /\ pc'[c] = pc[c]
  BY <1>2, <1>3, <1>4, DaemonMoves
<1>6. lock' \in Lock /\ (lock'.by = lock.by \/ lock'.by = d)
  <2>1. PICK m \in Lock : m = lock
    BY DEF IInv, TypeOK
  <2>2. [m EXCEPT !.written = TRUE] \in Lock /\ [m EXCEPT !.written = TRUE].by = m.by
    BY DEF Lock
  <2>3. PICK n \in Lock : n = [by |-> d, written |-> FALSE] /\ n.by = d
    <3>1. [by |-> d, written |-> FALSE] \in Lock
      BY <1>2 DEF Lock
    <3> QED BY <3>1
  <2>4. PICK n2 \in Lock : n2 = [m EXCEPT !.written = TRUE] /\ n2.by = m.by
    BY <2>2
  <2>5. lock' = m \/ lock' = n \/ lock' = n2
    BY <1>1, <2>1, <2>3, <2>4
  <2> QED BY <2>1, <2>3, <2>4, <2>5
<1>7. TypeOK'
  BY <1>1, <1>5, <1>6 DEF IInv, TypeOK
<1>8. HolderOK'
  BY <1>1, <1>5 DEF IInv, HolderOK, Holds, WithStore
<1>9. LockOK'
  BY <1>1, <1>5, <1>6 DEF IInv, LockOK, Procs
<1>10. TokenOK'
  BY <1>1, <1>5 DEF IInv, TokenOK, Procs
<1>11. PortOK'
  BY <1>1, <1>5 DEF IInv, PortOK, Procs, at
<1>12. HandlersOK'
  BY <1>1, <1>5 DEF IInv, HandlersOK, Procs, at
<1> QED BY <1>7, <1>8, <1>9, <1>10, <1>11, <1>12 DEF IInv

\* The store is opened by the one that finds its lock free.
LEMMA StoreOpens ==
  ASSUME IInv, NEW p \in Procs, openDaemonStore(p) \/ (p \in Commands /\ openStore(p))
  PROVE  IInv'
<1>1. /\ pc[p] = "opening" /\ holder = None /\ holder' = p
      /\ UNCHANGED <<lock, token, port, seen, handler, stopping>>
  BY DEF openDaemonStore, openStore, at, applyExclusiveStorePragmas, files, serving
<1>2. PICK l \in {"verifying", "running"} : /\ pc' = [pc EXCEPT ![p] = l]
                                            /\ p \in Daemons => l \in DaemonAt
                                            /\ p \in Commands => l \in CommandAt
  BY DaemonAssumption DEF openDaemonStore, openStore, goto, DaemonAt, WithStore, CommandAt
<1>3. /\ pc' \in [Procs -> DaemonAt \cup CommandAt]
      /\ pc'[p] = l /\ \A q \in Procs \ {p} : pc'[q] = pc[q]
      /\ \A q \in Daemons : pc'[q] \in DaemonAt
      /\ \A c \in Commands : pc'[c] \in CommandAt
  BY <1>2 DEF IInv, TypeOK, Procs
<1>4. TypeOK'
  BY <1>1, <1>3 DEF IInv, TypeOK
<1>5. HolderOK'
  BY <1>1, <1>3, DaemonAssumption DEF IInv, HolderOK, Holds, WithStore
<1>6. LockOK' /\ TokenOK'
  BY <1>1, <1>3 DEF IInv, LockOK, TokenOK, Procs
<1>7. PortOK'
  BY <1>1, <1>3 DEF IInv, PortOK, Procs, at
<1>8. HandlersOK'
  BY <1>1, <1>3 DEF IInv, HandlersOK, Procs, at
<1> QED BY <1>4, <1>5, <1>6, <1>7, <1>8 DEF IInv

\* A daemon gives up before it listens, its store with it.
LEMMA StartFails ==
  ASSUME IInv, NEW d \in Procs,
         \/ daemonStoreFails(d) \/ createDaemonFails(d)
         \/ initializeDaemonRuntime(d) /\ token # None
  PROVE  IInv'
<1>1. /\ pc[d] \in {"opening", "verifying", "writingToken", "starting"} /\ d \in Daemons
      /\ UNCHANGED <<token, port, seen, handler, stopping>>
      /\ lock' = lock \/ lock' = NoLock
      /\ pc' = [pc EXCEPT ![d] = "exited"]
      /\ holder' = IF holder = d THEN None ELSE holder
  <2>1. CASE daemonStoreFails(d)
    BY <2>1 DEF daemonStoreFails, removeLock, exit, goto, serving
  <2>2. CASE createDaemonFails(d) \/ (initializeDaemonRuntime(d) /\ token # None)
    <3>1. /\ pc[d] \in {"writingToken", "starting"} /\ holder' = None
          /\ UNCHANGED <<lock, token, port, seen, handler, stopping>>
          /\ pc' = [pc EXCEPT ![d] = "exited"]
      BY <2>2 DEF createDaemonFails, initializeDaemonRuntime, at, exit, goto, files, serving
    <3>2. d \in Daemons /\ holder = d
      BY <3>1 DEF IInv, TypeOK, HolderOK, Holds, WithStore, CommandAt, Procs
    <3> QED BY <3>1, <3>2
  <2> QED BY <2>1, <2>2
<1>2. PICK l \in DaemonAt : l = "exited"
  BY DEF DaemonAt
<1>3. /\ pc' \in [Procs -> DaemonAt \cup CommandAt]
      /\ pc'[d] = l /\ \A q \in Procs \ {d} : pc'[q] = pc[q]
      /\ \A q \in Daemons : pc'[q] \in DaemonAt
      /\ \A c \in Commands : pc'[c] \in CommandAt /\ pc'[c] = pc[c]
  BY <1>1, <1>2, DaemonMoves
<1>4. lock' \in Lock /\ (lock'.by = lock.by \/ lock'.by = None)
  BY <1>1, NoLockType DEF IInv, TypeOK
<1>5. TypeOK'
  BY <1>1, <1>3, <1>4 DEF IInv, TypeOK
<1>6. HolderOK'
  BY <1>1, <1>2, <1>3, DaemonAssumption DEF IInv, HolderOK, Holds, WithStore
<1>7. LockOK' /\ TokenOK'
  BY <1>1, <1>2, <1>3, <1>4, DaemonAssumption DEF IInv, LockOK, TokenOK, Procs
<1>8. PortOK'
  BY <1>1, <1>2, <1>3 DEF IInv, PortOK, Procs, at
<1>9. HandlersOK'
  BY <1>1, <1>3 DEF IInv, HandlersOK, Procs, at
<1> QED BY <1>5, <1>6, <1>7, <1>8, <1>9 DEF IInv

\* The old token goes, the new one is written, the worker starts.
LEMMA StartGoesOn ==
  ASSUME IInv, NEW d \in Procs,
         \/ verifyDaemonStore(d) \/ startWorker(d)
         \/ initializeDaemonRuntime(d) /\ token = None
  PROVE  IInv'
<1>1. PICK l \in {"writingToken", "starting", "listening"} :
        /\ pc' = [pc EXCEPT ![d] = l] /\ pc[d] \in {"verifying", "writingToken", "starting"}
        /\ UNCHANGED <<lock, holder, port, seen, handler, stopping>>
        /\ \/ token' = None
           \/ l = "starting" /\ token' = d
           \/ l = "listening" /\ token' = token
        /\ l = "listening" => pc[d] = "starting"
  BY DEF verifyDaemonStore, startWorker, initializeDaemonRuntime, at, goto, files, serving
<1>2. d \in Daemons /\ l \in DaemonAt
  BY <1>1 DEF IInv, TypeOK, CommandAt, Procs, DaemonAt, WithStore
<1>3. /\ pc' \in [Procs -> DaemonAt \cup CommandAt]
      /\ pc'[d] = l /\ \A q \in Procs \ {d} : pc'[q] = pc[q]
      /\ \A q \in Daemons : pc'[q] \in DaemonAt
      /\ \A c \in Commands : pc'[c] \in CommandAt /\ pc'[c] = pc[c]
  BY <1>1, <1>2, DaemonMoves
<1>4. TypeOK'
  BY <1>1, <1>2, <1>3 DEF IInv, TypeOK
<1>5. HolderOK'
  BY <1>1, <1>3 DEF IInv, HolderOK, Holds, WithStore
<1>6. LockOK'
  BY <1>1, <1>3 DEF IInv, LockOK, Procs
<1>7. TokenOK'
  BY <1>1, <1>2, <1>3, DaemonAssumption DEF IInv, TokenOK, Procs
<1>8. PortOK'
  BY <1>1, <1>3 DEF IInv, PortOK, Procs, at
<1>9. HandlersOK'
  BY <1>1, <1>3 DEF IInv, HandlersOK, Procs, at
<1> QED BY <1>4, <1>5, <1>6, <1>7, <1>8, <1>9 DEF IInv

\* The daemon listens, or drains at once because another one does.
LEMMA DaemonListens ==
  ASSUME IInv, NEW d \in Procs, listenForRequests(d)
  PROVE  IInv'
<1>1. /\ pc' = [pc EXCEPT ![d] = "serving"] /\ pc[d] = "listening"
      /\ UNCHANGED <<lock, token, holder, seen, handler>>
      /\ \/ port = None /\ port' = d /\ stopping' = stopping
         \/ port # None /\ port' = port /\ stopping' = stopping \cup {d}
  BY DEF listenForRequests, at, goto, files
<1>2. PICK l \in DaemonAt : l = "serving"
  BY DEF DaemonAt, WithStore
<1>3. d \in Daemons
  BY <1>1 DEF IInv, TypeOK, CommandAt, Procs
<1>4. /\ pc' \in [Procs -> DaemonAt \cup CommandAt]
      /\ pc'[d] = l /\ \A q \in Procs \ {d} : pc'[q] = pc[q]
      /\ \A q \in Daemons : pc'[q] \in DaemonAt
      /\ \A c \in Commands : pc'[c] \in CommandAt /\ pc'[c] = pc[c]
  BY <1>1, <1>2, <1>3, DaemonMoves
<1>5. TypeOK'
  BY <1>1, <1>3, <1>4 DEF IInv, TypeOK
<1>6. HolderOK'
  BY <1>1, <1>2, <1>4 DEF IInv, HolderOK, Holds, WithStore
<1>7. LockOK' /\ TokenOK'
  BY <1>1, <1>2, <1>4 DEF IInv, LockOK, TokenOK, Procs
<1>8. PortOK'
  <2>1. d \notin stopping /\ port # d
    BY <1>1, <1>3 DEF IInv, PortOK, at
  <2> QED BY <1>1, <1>2, <1>3, <1>4, <2>1, DaemonAssumption DEF IInv, PortOK, Procs, at
<1>9. HandlersOK'
  BY <1>1, <1>4 DEF IInv, HandlersOK, Procs, at
<1> QED BY <1>5, <1>6, <1>7, <1>8, <1>9 DEF IInv

\* A process that served, or a command that ran on its store, ends.
LEMMA ShutdownStep ==
  ASSUME IInv, NEW d \in Procs, finalizeAfterDrain(d) \/ collectCleanupError(d)
  PROVE  IInv'
<1>1. PICK l \in {"closing", "unlinkLock", "unlinkToken", "exited"} :
        /\ pc' = [pc EXCEPT ![d] = l] /\ UNCHANGED <<port, seen, handler, stopping>>
        /\ \/ /\ l = "closing" /\ pc[d] = "serving" /\ d \in stopping /\ activeHandlers(d) = {}
              /\ UNCHANGED <<lock, token, holder>>
           \/ /\ l = "unlinkLock" /\ pc[d] = "closing" /\ holder' = None /\ UNCHANGED <<lock, token>>
           \/ /\ l = "unlinkToken" /\ pc[d] = "unlinkLock" /\ lock' = NoLock /\ UNCHANGED <<holder, token>>
           \/ /\ l = "exited" /\ pc[d] = "unlinkToken" /\ token' = None /\ UNCHANGED <<holder, lock>>
  BY DEF finalizeAfterDrain, collectCleanupError, at, goto, exit, files, serving, removeLock
<1>2. d \in Daemons /\ l \in DaemonAt
  BY <1>1 DEF IInv, TypeOK, CommandAt, Procs, DaemonAt, WithStore
<1>3. /\ pc' \in [Procs -> DaemonAt \cup CommandAt]
      /\ pc'[d] = l /\ \A q \in Procs \ {d} : pc'[q] = pc[q]
      /\ \A q \in Daemons : pc'[q] \in DaemonAt
      /\ \A c \in Commands : pc'[c] \in CommandAt /\ pc'[c] = pc[c]
  BY <1>1, <1>2, DaemonMoves
<1>4. lock' \in Lock /\ (lock' = lock \/ lock'.by = None)
  BY <1>1, NoLockType DEF IInv, TypeOK
<1>5. TypeOK'
  BY <1>1, <1>3, <1>4 DEF IInv, TypeOK
<1>6. HolderOK'
  BY <1>1, <1>3, DaemonAssumption DEF IInv, HolderOK, Holds, WithStore
<1>7. LockOK'
  BY <1>1, <1>3, NoLockType, DaemonAssumption DEF IInv, LockOK, Procs
<1>8. TokenOK'
  BY <1>1, <1>3, DaemonAssumption DEF IInv, TokenOK, Procs
<1>9. PortOK'
  BY <1>1, <1>3 DEF IInv, PortOK, Procs, at
<1>10. HandlersOK'
  <2>1. ASSUME NEW c \in Commands, handler[c].state \in {"reading", "executing"}, handler[c].at = d
        PROVE  pc[d] = "serving" /\ activeHandlers(d) # {}
    BY <2>1 DEF IInv, HandlersOK, at, activeHandlers
  <2> QED BY <1>1, <1>3, <2>1 DEF IInv, HandlersOK, Procs, at
<1> QED BY <1>5, <1>6, <1>7, <1>8, <1>9, <1>10 DEF IInv

\* The shutdown begins, and the worker stops.
LEMMA ShutdownBegins ==
  ASSUME IInv, NEW d \in Daemons, initiate(d) \/ stopWorker(d)
  PROVE  IInv'
<1>1. /\ UNCHANGED <<lock, token, holder, pc, seen, handler>>
      /\ \/ stopping' = stopping /\ port' = port
         \/ /\ pc[d] = "serving" /\ stopping' = stopping \cup {d}
            /\ port' = IF port = d THEN None ELSE port
  BY DEF initiate, stopWorker, at, files
<1>2. TypeOK'
  BY <1>1 DEF IInv, TypeOK
<1>3. HolderOK' /\ LockOK' /\ TokenOK'
  BY <1>1 DEF IInv, HolderOK, Holds, LockOK, TokenOK
<1>4. PortOK'
  BY <1>1, DaemonAssumption DEF IInv, PortOK, at, Procs
<1>5. HandlersOK'
  BY <1>1 DEF IInv, HandlersOK, at
<1> QED BY <1>2, <1>3, <1>4, <1>5 DEF IInv

\* A command moves between places where it has no store.
LEMMA CommandMoves ==
  ASSUME IInv, NEW c \in Commands, NEW l \in CommandAt \ {"running"}, pc[c] # "running",
         pc' = [pc EXCEPT ![c] = l], handler' \in [Commands -> Request],
         \A x \in Commands : /\ handler'[x].state \in {"reading", "executing"}
                             => \/ handler[x].state \in {"reading", "executing"} /\ handler'[x].at = handler[x].at
                                \/ handler'[x].at = port /\ port # None,
         UNCHANGED <<lock, token, holder, port, seen, stopping>>
  PROVE  IInv'
<1>1. /\ pc' \in [Procs -> DaemonAt \cup CommandAt]
      /\ pc'[c] = l /\ \A q \in Procs \ {c} : pc'[q] = pc[q]
      /\ \A x \in Commands : pc'[x] \in CommandAt
      /\ \A d \in Daemons : pc'[d] = pc[d]
  BY DaemonAssumption DEF IInv, TypeOK, Procs
<1>2. TypeOK'
  BY <1>1 DEF IInv, TypeOK
<1>3. HolderOK'
  <2>1. l \notin WithStore \cup {"running"} /\ pc[c] \notin WithStore \cup {"running"}
    BY DEF IInv, TypeOK, CommandAt, WithStore
  <2> QED BY <1>1, <2>1 DEF IInv, HolderOK, Holds
<1>4. LockOK' /\ TokenOK'
  BY <1>1 DEF IInv, LockOK, TokenOK
<1>5. PortOK'
  BY <1>1 DEF IInv, PortOK, at
<1>6. HandlersOK'
  <2>1. port # None => port \in Daemons /\ at(port, "serving")
    BY DEF IInv, TypeOK, PortOK
  <2>2. \A d \in Daemons : at(d, "serving")' <=> at(d, "serving")
    BY <1>1 DEF at
  <2> QED BY <2>1, <2>2 DEF IInv, HandlersOK, at
<1> QED BY <1>2, <1>3, <1>4, <1>5, <1>6 DEF IInv

\* The requests the handlers store are requests, and the fields that are not written keep their
\* value.
LEMMA RequestTypes ==
  /\ NoRequest \in Request /\ NoRequest.state = "none"
  /\ \A m \in Request, d \in Daemons : [m EXCEPT !.nonce = d] \in Request
       /\ [m EXCEPT !.nonce = d].state = m.state /\ [m EXCEPT !.nonce = d].at = m.at
  /\ \A d \in Daemons \cup {None}, st \in {"none", "answered"} :
       LET n == [NoRequest EXCEPT !.at = d, !.state = st] IN n \in Request /\ n.state = st
  /\ \A d \in Daemons \cup {None} :
       [NoRequest EXCEPT !.at = d] \in Request /\ [NoRequest EXCEPT !.at = d].state = "none"
BY DEF NoRequest, Request

\* The way of a command to its daemon and back.
LEMMA CommandForwards ==
  ASSUME IInv, NEW c \in Commands,
         \/ readDaemonToken(c) \/ fetchDaemonBuildDigest(c) \/ forwardToDaemon(c)
         \/ openStoreFails(c) \/ answered(c) \/ timedOut(c)
  PROVE  IInv'
<1>1. /\ pc[c] \in {"forwarding", "probing", "posting", "waiting", "opening"}
      /\ UNCHANGED <<lock, token, holder, port, seen, stopping>>
  BY DEF readDaemonToken, fetchDaemonBuildDigest, forwardToDaemon, openStoreFails, answered, timedOut, at,
         files, serving
<1>2. PICK l \in CommandAt \ {"running"} : pc' = [pc EXCEPT ![c] = l]
  BY DEF readDaemonToken, fetchDaemonBuildDigest, forwardToDaemon, openStoreFails, answered, timedOut,
         goto, exit, CommandAt
<1>3. handler \in [Commands -> Request] /\ token \in Daemons \cup {None} /\ port \in Daemons \cup {None}
  BY DEF IInv, TypeOK
<1>4. \/ handler' = handler
      \/ handler' = [handler EXCEPT ![c] = NoRequest]
      \/ token # None /\ handler' = [handler EXCEPT ![c].nonce = token]
      \/ port # None /\ \E claim \in Sessions \cup {None} :
           handler' = [handler EXCEPT ![c].at = port, ![c].state = "reading", ![c].claim = claim]
  BY DEF readDaemonToken, fetchDaemonBuildDigest, forwardToDaemon, openStoreFails, answered, timedOut, serving
<1>5. PICK n \in Request :
        /\ handler' = [handler EXCEPT ![c] = n]
        /\ n.state \in {"reading", "executing"}
             => \/ handler[c].state \in {"reading", "executing"} /\ n.at = handler[c].at
                \/ n.at = port /\ port # None
  <2>1. PICK m \in Request : m = handler[c]
    BY <1>3
  <2>2. CASE handler' = handler
    <3>1. handler' = [handler EXCEPT ![c] = m]
      BY <1>3, <2>1, <2>2
    <3> QED BY <2>1, <3>1
  <2>3. CASE handler' = [handler EXCEPT ![c] = NoRequest]
    BY <2>3, RequestTypes
  <2>4. CASE token # None /\ handler' = [handler EXCEPT ![c].nonce = token]
    <3>1. PICK d \in Daemons : d = token
      BY <1>3, <2>4
    <3>2. PICK n \in Request : n = [m EXCEPT !.nonce = d] /\ n.state = m.state /\ n.at = m.at
      BY RequestTypes
    <3>3. handler' = [handler EXCEPT ![c] = n]
      BY <2>1, <2>4, <3>1, <3>2
    <3> QED BY <2>1, <3>2, <3>3
  <2>5. CASE port # None /\ \E claim \in Sessions \cup {None} :
               handler' = [handler EXCEPT ![c].at = port, ![c].state = "reading", ![c].claim = claim]
    <3>1. PICK d \in Daemons, claim \in Sessions \cup {None} : d = port /\
            handler' = [handler EXCEPT ![c].at = d, ![c].state = "reading", ![c].claim = claim]
      BY <1>3, <2>5
    <3> DEFINE new == [m EXCEPT !.at = d, !.state = "reading", !.claim = claim]
    <3>2. new \in Request /\ new.at = d
      BY DEF Request
    <3>3. handler' = [handler EXCEPT ![c] = new]
      BY <2>1, <3>1
    <3> HIDE DEF new
    <3> QED BY <2>5, <3>1, <3>2, <3>3
  <2> QED BY <1>4, <2>2, <2>3, <2>4, <2>5
<1>6. /\ handler' \in [Commands -> Request] /\ handler'[c] = n
      /\ \A x \in Commands \ {c} : handler'[x] = handler[x]
  BY <1>3, <1>5
<1>7. \A x \in Commands : /\ handler'[x].state \in {"reading", "executing"}
                             => \/ handler[x].state \in {"reading", "executing"} /\ handler'[x].at = handler[x].at
                                \/ handler'[x].at = port /\ port # None
  BY <1>5, <1>6
<1>8. pc[c] # "running"
  BY <1>1
<1> QED BY <1>1, <1>2, <1>6, <1>7, <1>8, CommandMoves

\* A local command that closes its store frees it and holds nothing afterwards.
LEMMA CommandCloses ==
  ASSUME IInv, NEW c \in Commands, closeStore(c)
  PROVE  IInv'
<1>1. /\ pc[c] = "running" /\ holder' = None /\ pc' = [pc EXCEPT ![c] = "exited"]
      /\ UNCHANGED <<lock, token, port, seen, handler, stopping>>
  BY DEF closeStore, at, exit, goto, files, serving
<1>2. PICK l \in CommandAt : l = "exited"
  BY DEF CommandAt
<1>3. /\ pc' \in [Procs -> DaemonAt \cup CommandAt]
      /\ pc'[c] = l /\ \A q \in Procs \ {c} : pc'[q] = pc[q]
      /\ \A x \in Commands : pc'[x] \in CommandAt
      /\ \A d \in Daemons : pc'[d] = pc[d]
  BY <1>1, <1>2, DaemonAssumption DEF IInv, TypeOK, Procs
<1>4. TypeOK'
  BY <1>1, <1>3 DEF IInv, TypeOK
<1>5. HolderOK'
  BY <1>1, <1>2, <1>3, DaemonAssumption DEF IInv, HolderOK, Holds, WithStore, Procs
<1>6. LockOK' /\ TokenOK' /\ PortOK'
  BY <1>1, <1>3 DEF IInv, LockOK, TokenOK, PortOK, at
<1>7. HandlersOK'
  BY <1>1, <1>3 DEF IInv, HandlersOK, at
<1> QED BY <1>4, <1>5, <1>6, <1>7 DEF IInv

\* A request goes on only where it was accepted, or is answered.
LEMMA HandlerSteps ==
  ASSUME IInv, NEW c \in Commands, HandlerStep(c)
  PROVE  IInv'
<1>1. /\ UNCHANGED <<lock, token, holder, port, pc, seen, stopping>>
      /\ handler[c].state \in {"reading", "executing"}
      /\ respond(c) \/ handler' = [handler EXCEPT ![c].state = "executing"]
  BY DEF HandlerStep, handleExec, execute, files
<1>2. handler \in [Commands -> Request]
  BY DEF IInv, TypeOK
<1>3. PICK m \in Request : m = handler[c]
  BY <1>2
<1>4. PICK n \in Request :
        /\ handler' = [handler EXCEPT ![c] = n]
        /\ n.state \in {"reading", "executing"} => n.at = m.at
  <2>1. CASE respond(c)
    <3>1. PICK d \in Daemons \cup {None} : d = m.at
      BY DEF Request
    <3> DEFINE new == [NoRequest EXCEPT !.at = d, !.state = "answered"]
    <3>2. new \in Request /\ new.state = "answered"
      BY RequestTypes
    <3>3. handler' = [handler EXCEPT ![c] = new]
      BY <1>3, <2>1, <3>1 DEF respond
    <3> HIDE DEF new
    <3> QED BY <3>2, <3>3
  <2>2. CASE handler' = [handler EXCEPT ![c].state = "executing"]
    <3> DEFINE new == [m EXCEPT !.state = "executing"]
    <3>1. new \in Request /\ new.at = m.at
      BY DEF Request
    <3>2. handler' = [handler EXCEPT ![c] = new]
      BY <1>3, <2>2
    <3> HIDE DEF new
    <3> QED BY <3>1, <3>2
  <2> QED BY <1>1, <2>1, <2>2
<1>5. /\ handler' \in [Commands -> Request] /\ handler'[c] = n
      /\ \A x \in Commands \ {c} : handler'[x] = handler[x]
  BY <1>2, <1>4
<1>6. HandlersOK'
  <2>1. \A d \in Daemons : at(d, "serving")' <=> at(d, "serving")
    BY <1>1 DEF at
  <2>2. handler[c].at \in Daemons /\ at(handler[c].at, "serving")
    BY <1>1 DEF IInv, HandlersOK
  <2> QED BY <1>3, <1>4, <1>5, <2>1, <2>2 DEF IInv, HandlersOK
<1>7. TypeOK' /\ HolderOK' /\ LockOK' /\ TokenOK' /\ PortOK'
  BY <1>1, <1>5 DEF IInv, TypeOK, HolderOK, Holds, LockOK, TokenOK, PortOK, at
<1> QED BY <1>6, <1>7 DEF IInv

\* A process dies: its store, its port and its requests go with it, the files stay.
LEMMA ProcessDies ==
  ASSUME IInv, NEW p \in Procs, Crash(p)
  PROVE  IInv'
<1>1. /\ pc' = [pc EXCEPT ![p] = "exited"] /\ pc[p] # "exited"
      /\ holder' = IF holder = p THEN None ELSE holder
      /\ port' = IF port = p THEN None ELSE port
      /\ seen' = [seen EXCEPT ![p] = Unread]
      /\ stopping' = stopping \ {p}
      /\ UNCHANGED <<lock, token>>
  BY DEF Crash, alive, exit, goto, files
<1>2. handler' = [c \in Commands |-> IF handler[c].at = p THEN [NoRequest EXCEPT !.at = p] ELSE handler[c]]
  BY DEF Crash
<1>3. PICK l \in DaemonAt \cap CommandAt : l = "exited"
  BY DEF DaemonAt, CommandAt
<1>4. /\ pc' \in [Procs -> DaemonAt \cup CommandAt]
      /\ pc'[p] = l /\ \A q \in Procs \ {p} : pc'[q] = pc[q]
      /\ \A c \in Commands : pc'[c] \in CommandAt
      /\ \A d \in Daemons : pc'[d] \in DaemonAt
  BY <1>1, <1>3 DEF IInv, TypeOK, Procs
<1>5. handler' \in [Commands -> Request]
      /\ \A c \in Commands : IF handler[c].at = p THEN handler'[c].state = "none" ELSE handler'[c] = handler[c]
  <2>1. handler \in [Commands -> Request]
    BY DEF IInv, TypeOK
  <2>2. \A c \in Commands : handler[c].at = p => p \in Daemons
    BY <2>1, DaemonAssumption DEF Request
  <2>3. \A c \in Commands : handler[c].at = p =>
          [NoRequest EXCEPT !.at = p] \in Request /\ [NoRequest EXCEPT !.at = p].state = "none"
    BY <2>2, RequestTypes
  <2> QED BY <1>2, <2>1, <2>3
<1>6. Unread \in Verdict
  BY DEF Unread, Verdict
<1>7. TypeOK'
  BY <1>1, <1>4, <1>5, <1>6 DEF IInv, TypeOK
<1>8. HolderOK'
  BY <1>1, <1>3, <1>4, DaemonAssumption DEF IInv, HolderOK, Holds, WithStore
<1>9. LockOK' /\ TokenOK'
  BY <1>1, <1>3, <1>4 DEF IInv, LockOK, TokenOK, Procs
<1>10. PortOK'
  BY <1>1, <1>3, <1>4, DaemonAssumption DEF IInv, PortOK, Procs, at
<1>11. HandlersOK'
  BY <1>4, <1>5 DEF IInv, HandlersOK, Procs, at
<1> QED BY <1>7, <1>8, <1>9, <1>10, <1>11 DEF IInv

\* A stuttering step keeps the invariant.
LEMMA NothingMoves ==
  ASSUME IInv, UNCHANGED vars
  PROVE  IInv'
BY DEF vars, files, serving, IInv, TypeOK, HolderOK, Holds, LockOK, TokenOK, PortOK, HandlersOK, at

\* Every step keeps the invariant: one case for each action.
LEMMA StepOK == IInv /\ [Next]_vars => IInv'
<1> SUFFICES ASSUME IInv, [Next]_vars PROVE IInv'
  OBVIOUS
<1>1. ASSUME NEW p \in Procs, ProcessStep(p) PROVE IInv'
  <2>1. CASE isDaemonRunning(p) \/ checkDaemonIdentity(p) \/ unlinkStale(p)
    BY <2>1, CheckStep
  <2>2. CASE acquireLock(p) \/ writeLock(p)
    BY <2>2, LockStep
  <2>3. CASE openDaemonStore(p) \/ (p \in Commands /\ openStore(p))
    BY <2>3, StoreOpens
  <2>4. CASE daemonStoreFails(p) \/ createDaemonFails(p)
    BY <2>4, StartFails
  <2>5. CASE initializeDaemonRuntime(p)
    BY <2>5, StartFails, StartGoesOn
  <2>6. CASE verifyDaemonStore(p) \/ startWorker(p)
    BY <2>6, StartGoesOn
  <2>7. CASE listenForRequests(p)
    BY <2>7, DaemonListens
  <2>8. CASE finalizeAfterDrain(p) \/ collectCleanupError(p)
    BY <2>8, ShutdownStep
  <2>9. CASE p \in Commands /\ closeStore(p)
    BY <2>9, CommandCloses
  <2>10. CASE /\ p \in Commands
              /\ \/ readDaemonToken(p) \/ fetchDaemonBuildDigest(p) \/ forwardToDaemon(p)
                 \/ openStoreFails(p) \/ answered(p)
    BY <2>10, CommandForwards
  <2> QED BY <1>1, <2>1, <2>2, <2>3, <2>4, <2>5, <2>6, <2>7, <2>8, <2>9, <2>10 DEF ProcessStep
<1>2. ASSUME NEW p \in Procs, Crash(p) PROVE IInv'
  BY <1>2, ProcessDies
<1>3. ASSUME NEW c \in Commands, HandlerStep(c) \/ timedOut(c) PROVE IInv'
  BY <1>3, HandlerSteps, CommandForwards
<1>4. ASSUME NEW d \in Daemons, initiate(d) \/ stopWorker(d) PROVE IInv'
  BY <1>4, ShutdownBegins
<1> QED BY <1>1, <1>2, <1>3, <1>4, NothingMoves DEF Next

----------------------------------------------------------------------------
(* What it gives.                                                          *)

\* A command that runs is at a place where the invariant says it holds the store.
LEMMA StoreFromInvariant == IInv => CommandKeepsItsStore
<1> SUFFICES ASSUME IInv, NEW c \in Commands
             PROVE  /\ at(c, "running") => holder = c
                    /\ handler[c].state = "executing" => holder = handler[c].at
  BY DEF CommandKeepsItsStore
<1>1. at(c, "running") => holder = c
  BY DEF IInv, HolderOK, Holds, at, Procs
<1>2. handler[c].state = "executing" => holder = handler[c].at
  BY DEF IInv, HandlersOK, HolderOK, Holds, WithStore, at, Procs
<1> QED BY <1>1, <1>2

\* A live daemon named by the lock and the token has passed the step that opens its store.
LEMMA IdentityFromInvariant == IInv => IdentifiedDaemonHasStore
<1> SUFFICES ASSUME IInv, NEW d \in Daemons, lock = [by |-> d, written |-> TRUE], token = d, alive(d)
             PROVE  holder = d \/ at(d, "unlinkLock")
  BY DEF IdentifiedDaemonHasStore
<1>1. pc[d] \in {"starting", "listening", "serving", "closing", "unlinkLock"}
  BY DEF IInv, LockOK, TokenOK, alive
<1> QED BY <1>1 DEF IInv, HolderOK, Holds, WithStore, at, Procs

\* The invariant holds in every state.
THEOREM DaemonInvariant == Spec => []IInv
<1>1. Init => IInv
  BY InitOK
<1>2. IInv /\ [Next]_vars => IInv'
  BY StepOK
<1> QED BY <1>1, <1>2, PTL DEF Spec

\* A command has its store, its own or its daemon's, for as long as it runs, also
\* when its client gave up or the shutdown began (daemon.ts, daemon.lifecycle.ts).
THEOREM StoreIsKept == Spec => []CommandKeepsItsStore
BY DaemonInvariant, StoreFromInvariant, PTL

\* A living process that lock and token both name has the store, or has just given
\* it up (daemon.ts initializeDaemonRuntime, store.ts checkDaemonIdentity).
THEOREM IdentityMeansStore == Spec => []IdentifiedDaemonHasStore
BY DaemonInvariant, IdentityFromInvariant, PTL
=============================================================================
