--------------------------- MODULE DaemonLifecycle ---------------------------
(***************************************************************************)
(* Who holds the store: commands that open it themselves, the daemon that  *)
(* holds it while it serves, and the lock and token files by which they    *)
(* find each other (src/src/daemon, src/src/db/store.ts).                  *)
(*                                                                         *)
(* Every process is one invocation: its pid is alive until it exits or     *)
(* dies, and is not used again; when it was started is when it first acts. *)
(* A step is one system call on a shared file, or the code between two     *)
(* awaits of the daemon.                                                   *)
(* SQLite's exclusive lock and the TCP port are outside the repository.    *)
(***************************************************************************)
EXTENDS Naturals, FiniteSets

CONSTANTS
    Daemons,      \* invocations of `daemon` or `serve`
    Commands,     \* invocations of any other command
    Worktrees,    \* the commands run from a linked worktree
    Workspaces, workspaceOf,   \* the canonical root each command runs in
    Sessions,     \* the sessions a client may claim
    MaxCrashes,   \* bound: processes that die
    MaxTimeouts,  \* bound: clients that stop waiting
    None

Procs == Daemons \cup Commands

ASSUME DaemonAssumption ==
    /\ Daemons \cap Commands = {} /\ Worktrees \subseteq Commands
    /\ workspaceOf \in [Commands -> Workspaces]
    /\ None \notin Procs \cup Sessions
    /\ MaxCrashes \in Nat /\ MaxTimeouts \in Nat

VARIABLES
    lock,      \* .svp-daemon.lock: who wrote it, and whether the write is over
    token,     \* .svp-daemon-token: whose nonce it holds
    holder,    \* who has SQLite's exclusive lock on the store
    port,      \* who listens on the daemon's port
    pc,        \* where each process is
    seen,      \* the lock a process has read and not yet judged
    handler,   \* the request of each command at its daemon
    stopping,  \* the daemons that drain
    worker,    \* the daemons whose background worker runs
    bound,     \* workspace_bindings
    crashes, timeouts

files == <<lock, token>>
serving == <<handler, stopping, worker, bound>>
faults == <<crashes, timeouts>>
vars == <<files, holder, port, pc, seen, serving, faults>>

NoLock == [by |-> None, written |-> FALSE]
Unread == [phase |-> "unread", by |-> None]
Stale == [phase |-> "stale", by |-> None]
Checks == {"start?", "forward?", "open?", "worktree?"}
NoRequest == [at |-> None, state |-> "none", nonce |-> None, claim |-> None]

Init ==
    /\ lock = NoLock /\ token = None /\ holder = None /\ port = None
    /\ pc = [p \in Procs |-> IF p \in Daemons THEN "start?" ELSE "forward?"]
    /\ seen = [p \in Procs |-> Unread]
    /\ handler = [c \in Commands |-> NoRequest]
    /\ stopping = {} /\ worker = {}
    /\ bound = [w \in Workspaces |-> None]
    /\ crashes = 0 /\ timeouts = 0

at(p, l) == pc[p] = l
alive(p) == pc[p] # "exited"
goto(p, l) == pc' = [pc EXCEPT ![p] = l]
exit(p) == goto(p, "exited")

-----------------------------------------------------------------------------
(***************************************************************************)
(* isDaemonRunning: the lock is read, its process probed, its nonce        *)
(* compared with the token, and a lock that fails either test is unlinked, *)
(* whatever the file then holds.  `after` is what follows each verdict.    *)
(***************************************************************************)
removeLock == lock' = NoLock

\* What each of the four checks of the code leads to.
after(p, running) ==
    CASE at(p, "start?")    -> IF running THEN "exited" ELSE "locking"
      [] at(p, "forward?")  -> IF running THEN "forwarding"
                                 ELSE IF p \in Worktrees THEN "exited" ELSE "open?"
      [] at(p, "open?")     -> IF running THEN "exited"
                                 ELSE IF p \in Worktrees THEN "worktree?" ELSE "opening"
      [] at(p, "worktree?") -> IF running THEN "opening" ELSE "exited"
judge(p, running) == goto(p, after(p, running)) /\ seen' = [seen EXCEPT ![p] = Unread]
checking(p, phase) == pc[p] \in Checks /\ seen[p].phase = phase

\* A lock that is empty because its writer is between two calls passes for pid
\* 0, which any process may signal, and has no nonce to compare.
isDaemonRunning(p) ==
    /\ checking(p, "unread")
    /\ CASE lock = NoLock -> judge(p, FALSE)
         [] lock # NoLock /\ ~lock.written -> judge(p, TRUE)
         [] lock # NoLock /\ lock.written ->
              /\ seen' = [seen EXCEPT ![p] =
                    IF alive(lock.by) THEN [phase |-> "identity", by |-> lock.by] ELSE Stale]
              /\ UNCHANGED pc
    /\ UNCHANGED <<files, holder, port, serving, faults>>

checkDaemonIdentity(p) ==
    /\ checking(p, "identity")
    /\ IF token = seen[p].by THEN judge(p, TRUE)
         ELSE seen' = [seen EXCEPT ![p] = Stale] /\ UNCHANGED pc
    /\ UNCHANGED <<files, holder, port, serving, faults>>

unlinkStale(p) ==
    /\ checking(p, "stale")
    /\ removeLock /\ judge(p, FALSE)
    /\ UNCHANGED <<token, holder, port, serving, faults>>

-----------------------------------------------------------------------------
(***************************************************************************)
(* Starting a daemon: lock, store, token, worker, listener, in that order. *)
(***************************************************************************)
acquireLock(d) ==
    /\ at(d, "locking")
    /\ IF lock = NoLock
         THEN lock' = [by |-> d, written |-> FALSE] /\ goto(d, "writing")
         ELSE exit(d) /\ UNCHANGED lock
    /\ UNCHANGED <<token, holder, port, seen, serving, faults>>

\* The file may have been unlinked since it was created.
writeLock_withToken(d) ==
    /\ at(d, "writing")
    /\ lock' = IF lock.by = d THEN [lock EXCEPT !.written = TRUE] ELSE lock
    /\ token' = d /\ goto(d, "opening")
    /\ UNCHANGED <<holder, port, seen, serving, faults>>
writeLock(d) ==
    /\ at(d, "writing")
    /\ lock' = IF lock.by = d THEN [lock EXCEPT !.written = TRUE] ELSE lock
    /\ goto(d, "opening")
    /\ UNCHANGED <<token, holder, port, seen, serving, faults>>

\* openStore takes SQLite's exclusive lock, for which it waits a few seconds.
applyExclusiveStorePragmas(p) == holder = None /\ holder' = p

openDaemonStore(d) ==
    /\ d \in Daemons /\ at(d, "opening")
    /\ applyExclusiveStorePragmas(d) /\ goto(d, "verifying")
    /\ UNCHANGED <<files, port, seen, serving, faults>>

\* It cannot be opened, or the probe of its lock fails: the lock file goes,
\* whoever wrote it.
daemonStoreFails(d) ==
    /\ d \in Daemons /\ pc[d] \in {"opening", "verifying"}
    /\ holder' = IF holder = d THEN None ELSE holder
    /\ removeLock /\ exit(d)
    /\ UNCHANGED <<token, port, seen, serving, faults>>

verifyDaemonStore(d) ==
    /\ at(d, "verifying") /\ token' = None /\ goto(d, "writingToken")
    /\ UNCHANGED <<lock, holder, port, seen, serving, faults>>

\* The token is created anew: if another daemon made one since it was unlinked,
\* this one dies with its lock in place.
initializeDaemonRuntime(d) ==
    /\ at(d, "writingToken")
    /\ IF token = None
         THEN token' = d /\ goto(d, "starting") /\ UNCHANGED holder
         ELSE exit(d) /\ holder' = None /\ UNCHANGED token
    /\ UNCHANGED <<lock, port, seen, serving, faults>>

\* The bindings of the workflow runtime are invalid: so does this one.
createDaemonFails(d) ==
    /\ at(d, "starting") /\ exit(d) /\ holder' = None
    /\ UNCHANGED <<files, port, seen, serving, faults>>

startWorker(d) ==
    /\ at(d, "starting")
    /\ worker' = worker \cup {d} /\ goto(d, "listening")
    /\ UNCHANGED <<files, holder, port, seen, handler, stopping, bound, faults>>

\* A port that is taken shuts the daemon down before it ever served.
listenForRequests(d) ==
    /\ at(d, "listening") /\ goto(d, "serving")
    /\ IF port = None THEN port' = d /\ UNCHANGED stopping
                      ELSE stopping' = stopping \cup {d} /\ UNCHANGED port
    /\ UNCHANGED <<files, holder, seen, handler, worker, bound, faults>>

-----------------------------------------------------------------------------
(***************************************************************************)
(* A command: forwarded to the daemon it finds, or run on the store itself.*)
(***************************************************************************)
\* tryAutoForward, once a daemon was found: without a token the command goes on
\* as if there were none.
readDaemonToken(c) ==
    /\ at(c, "forwarding")
    /\ IF token = None THEN goto(c, "open?") /\ UNCHANGED handler
         ELSE /\ handler' = [handler EXCEPT ![c].nonce = token]
              /\ goto(c, "probing")
    /\ UNCHANGED <<files, holder, port, seen, stopping, worker, bound, faults>>

\* Nobody answers on the port, or another build does: the command ends.
fetchDaemonBuildDigest(c) ==
    /\ at(c, "probing")
    /\ IF port = None THEN exit(c) /\ handler' = [handler EXCEPT ![c] = NoRequest]
                      ELSE goto(c, "posting") /\ UNCHANGED handler
    /\ UNCHANGED <<files, holder, port, seen, stopping, worker, bound, faults>>

forwardToDaemon(c) ==
    /\ at(c, "posting")
    /\ IF port = None THEN exit(c) /\ handler' = [handler EXCEPT ![c] = NoRequest]
         ELSE \E claim \in Sessions \cup {None} :
                /\ handler' = [handler EXCEPT ![c].at = port, ![c].state = "reading",
                                              ![c].claim = claim]
                /\ goto(c, "waiting")
    /\ UNCHANGED <<files, holder, port, seen, stopping, worker, bound, faults>>

openStore(c) ==
    /\ c \in Commands /\ at(c, "opening")
    /\ applyExclusiveStorePragmas(c) /\ goto(c, "running")
    /\ UNCHANGED <<files, port, seen, serving, faults>>

openStoreFails(c) ==
    /\ c \in Commands /\ at(c, "opening") /\ exit(c)
    /\ UNCHANGED <<files, holder, port, seen, serving, faults>>

closeStore(c) ==
    /\ at(c, "running") /\ holder' = None /\ exit(c)
    /\ UNCHANGED <<files, port, seen, serving, faults>>

-----------------------------------------------------------------------------
(***************************************************************************)
(* The daemon at work: a handler is tracked from the first byte of its     *)
(* request to the end of the command, whether or not its client waits.     *)
(***************************************************************************)
bindWorkspace(w, s) == bound' = [bound EXCEPT ![w] = s]

assertMatchingBinding(w, claim) == claim = bound[w]

enforceWorkspaceBinding(c) ==
    LET w == workspaceOf[c]  claim == handler[c].claim
    IN  CASE bound[w] # None -> assertMatchingBinding(w, claim) /\ UNCHANGED bound
          [] bound[w] = None /\ claim = None -> UNCHANGED bound
          [] bound[w] = None /\ claim # None -> bindWorkspace(w, claim)

respond(c) == handler' = [handler EXCEPT ![c] =
                [NoRequest EXCEPT !.at = handler[c].at, !.state = "answered"]]

\* The body was read: refused while draining, with a token that is not the
\* daemon's own, in an invalid context or for another session.
handleExec(c) ==
    /\ handler[c].state = "reading"
    /\ LET d == handler[c].at IN
       \/ /\ d \notin stopping /\ handler[c].nonce = d
          /\ enforceWorkspaceBinding(c)
          /\ handler' = [handler EXCEPT ![c].state = "executing"]
       \/ respond(c) /\ UNCHANGED bound
    /\ UNCHANGED <<files, holder, port, pc, seen, stopping, worker, faults>>

execute(c) ==
    /\ handler[c].state = "executing" /\ respond(c)
    /\ UNCHANGED <<files, holder, port, pc, seen, stopping, worker, bound, faults>>

answered(c) ==
    /\ at(c, "waiting") /\ handler[c].state \in {"answered", "none"}
    /\ exit(c) /\ handler' = [handler EXCEPT ![c] = NoRequest]
    /\ UNCHANGED <<files, holder, port, seen, stopping, worker, bound, faults>>

timedOut(c) ==
    /\ at(c, "waiting") /\ timeouts < MaxTimeouts
    /\ timeouts' = timeouts + 1 /\ exit(c)
    /\ UNCHANGED <<files, holder, port, seen, serving, crashes>>

-----------------------------------------------------------------------------
(***************************************************************************)
(* Shutdown: no new work, the worker stopped, the connections closed, the  *)
(* handlers at their end, and then the store, the lock and the token.      *)
(***************************************************************************)
activeHandlers_neverReleased(d) ==
    {c \in Commands : handler[c].at = d /\ handler[c].state # "none"}
activeHandlers_connected(d) ==
    {c \in Commands : handler[c].at = d /\ at(c, "waiting")}
activeHandlers(d) ==
    {c \in Commands : handler[c].at = d /\ handler[c].state \in {"reading", "executing"}}
connections(d) == {c \in Commands : handler[c].at = d /\ at(c, "waiting")}

initiate(d) ==
    /\ at(d, "serving") /\ d \notin stopping
    /\ stopping' = stopping \cup {d}
    /\ port' = IF port = d THEN None ELSE port
    /\ UNCHANGED <<files, holder, pc, seen, handler, worker, bound, faults>>

stopWorker(d) ==
    /\ d \in stopping \cap worker
    /\ worker' = worker \ {d}
    /\ UNCHANGED <<files, holder, port, pc, seen, handler, stopping, bound, faults>>

finalizeAfterDrain(d) ==
    /\ at(d, "serving") /\ d \in stopping \ worker
    /\ connections(d) = {} /\ activeHandlers(d) = {}
    /\ goto(d, "closing")
    /\ UNCHANGED <<files, holder, port, seen, serving, faults>>

collectCleanupError(d) ==
    /\ \/ at(d, "closing") /\ holder' = None /\ goto(d, "unlinkLock") /\ UNCHANGED files
       \/ at(d, "unlinkLock") /\ removeLock /\ goto(d, "unlinkToken") /\ UNCHANGED <<holder, token>>
       \/ at(d, "unlinkToken") /\ token' = None /\ exit(d) /\ UNCHANGED <<holder, lock>>
    /\ UNCHANGED <<port, seen, serving, faults>>

\* Whatever a process held is freed; the files stay.
Crash(p) ==
    /\ crashes < MaxCrashes /\ alive(p)
    /\ crashes' = crashes + 1 /\ exit(p)
    /\ holder' = IF holder = p THEN None ELSE holder
    /\ port' = IF port = p THEN None ELSE port
    /\ worker' = worker \ {p}
    /\ handler' = [c \in Commands |->
                    IF handler[c].at = p THEN [NoRequest EXCEPT !.at = p] ELSE handler[c]]
    /\ seen' = [seen EXCEPT ![p] = Unread]
    /\ stopping' = stopping \ {p}
    /\ UNCHANGED <<files, bound, timeouts>>

-----------------------------------------------------------------------------
ProcessStep(p) ==
    \/ isDaemonRunning(p) \/ checkDaemonIdentity(p) \/ unlinkStale(p)
    \/ acquireLock(p) \/ writeLock(p) \/ openDaemonStore(p) \/ daemonStoreFails(p)
    \/ verifyDaemonStore(p) \/ initializeDaemonRuntime(p) \/ createDaemonFails(p)
    \/ startWorker(p) \/ listenForRequests(p)
    \/ finalizeAfterDrain(p) \/ collectCleanupError(p)
    \/ p \in Commands /\ ( \/ readDaemonToken(p) \/ fetchDaemonBuildDigest(p)
                           \/ forwardToDaemon(p) \/ openStore(p) \/ openStoreFails(p)
                           \/ closeStore(p) \/ answered(p) )
HandlerStep(c) == handleExec(c) \/ execute(c)

Next ==
    \/ \E p \in Procs : ProcessStep(p) \/ Crash(p)
    \/ \E c \in Commands : HandlerStep(c) \/ timedOut(c)
    \/ \E d \in Daemons : initiate(d) \/ stopWorker(d)

\* A process runs, a system call returns, a command ends and so does what the
\* worker has in hand; nobody need start or stop anything.
Fairness ==
    /\ \A p \in Procs : WF_vars(ProcessStep(p))
    /\ \A c \in Commands : WF_vars(HandlerStep(c))
    /\ \A d \in Daemons : WF_vars(stopWorker(d))

Spec == Init /\ [][Next]_vars /\ Fairness

-----------------------------------------------------------------------------
(***************************************************************************)
(* Properties.                                                             *)
(***************************************************************************)

\* A command has its store for as long as it runs: the one it opened, or the
\* one of its daemon, which does not close it under a command whose client gave
\* up or that came in as the shutdown began (daemon.ts, daemon.lifecycle.ts).
CommandKeepsItsStore ==
    \A c \in Commands :
      /\ at(c, "running") => holder = c
      /\ handler[c].state = "executing" => holder = handler[c].at

\* Lock and token name one living process only when it has the store, or has
\* just given it up: whoever sees them agree may forward to it
\* (daemon.ts initializeDaemonRuntime, store.ts checkDaemonIdentity).
IdentifiedDaemonHasStore ==
    \A d \in Daemons :
      lock = [by |-> d, written |-> TRUE] /\ token = d /\ alive(d) =>
        holder = d \/ at(d, "unlinkLock")

\* Again and again nothing is under way but daemons that serve: every command
\* ends, every start succeeds or gives up, every shutdown gets to its end
\* (daemon.lifecycle.ts trackHandler, finalizeOnce).
EverythingEnds ==
    []<>(\A p \in Procs : ~alive(p) \/ (at(p, "serving") /\ p \notin stopping))
=============================================================================
