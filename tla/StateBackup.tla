----------------------------- MODULE StateBackup -----------------------------
(***************************************************************************)
(* The snapshots of the store and what replaces it: backups with their     *)
(* verification and retention, restores, migrations and rebuilds           *)
(* (src/src/db/backup.ts, store.migrations.ts, cli/commands/rebuild.ts).   *)
(*                                                                         *)
(* A snapshot is identified by the state of the store it was taken of.  A  *)
(* step is one call that changes files; the removals of one trim are one   *)
(* step.  Leases are abstracted: a guard on them may refuse.  The daemon   *)
(* runs a command without interruption; without one, two may interleave.   *)
(***************************************************************************)
EXTENDS Integers, Sequences, FiniteSets

CONSTANTS
    Actors,        \* processes that run commands
    Retention,     \* config.backup.retention
    DefaultRetention, \* BACKUP_RETENTION_DEFAULT, where the configured one is not passed
    Floor,         \* BACKUP_RETENTION_FLOOR_DEFAULT
    MaxBackups,    \* bound: snapshots taken
    MaxWrites,     \* bound: commands that change the store
    None

\* A state of the store is how many changes it holds (data) and its schema.
State == [data : Nat, schema : {"migratable", "current", "unusable"}]

ASSUME BackupAssumption ==
    /\ {Retention, DefaultRetention, Floor, MaxBackups, MaxWrites} \subseteq Nat
    /\ Retention > 0 /\ DefaultRetention > 0 /\ None \notin State

VARIABLES
    file,      \* what the store's path holds, or None
    served,    \* what the daemon serves, or None when there is no daemon
    attached,  \* the daemon's open file is the one at the path
    backups,   \* the backup directory by mtime, which is taken to be the order of
               \* appearance, oldest first
    op,        \* the command each actor runs: "backup", "restore", "rebuild" or "open"
    taken, writes

store == <<file, served, attached>>
vars == <<store, backups, op, taken, writes>>

Damaged == [data |-> 0, schema |-> "unusable"]
restorable(c) == c \notin {None, Damaged} /\ c.schema # "unusable"

Idle == [kind |-> "none", step |-> "idle", raw |-> FALSE, name |-> 0,
         target |-> 0, copy |-> None, alone |-> TRUE]
creating == {"snapshot", "rename", "metadata", "verify", "trim"}

Init ==
    /\ file = [data |-> 0, schema |-> "current"] /\ served = None /\ attached = FALSE
    \* A snapshot of an earlier schema, and one that cannot be restored.
    /\ backups = << [name |-> 1, file |-> [file EXCEPT !.schema = "migratable"], verified |-> TRUE],
                    [name |-> 2, file |-> Damaged, verified |-> FALSE] >>
    /\ taken = 2 /\ writes = 0
    /\ op = [a \in Actors |-> Idle]

exists(n) == \E i \in DOMAIN backups : backups[i].name = n
entry(n) == backups[CHOOSE i \in DOMAIN backups : backups[i].name = n]
update(n, e) == [i \in DOMAIN backups |-> IF backups[i].name = n THEN e ELSE backups[i]]
at(a, s) == op[a].step = s
step(a, s) == op' = [op EXCEPT ![a].step = s]
done(a) == op' = [op EXCEPT ![a] = Idle]

\* Commands are forwarded to a daemon, which runs one at a time.
mayBegin == served # None => \A a \in Actors : op[a] = Idle
current == IF served # None THEN served ELSE file

-----------------------------------------------------------------------------
(***************************************************************************)
(* Creating a backup.                                                      *)
(***************************************************************************)
\* Without --force a live lease refuses the command before anything is done.
begin(a, kind, first, target) ==
    /\ op[a] = Idle /\ mayBegin
    /\ op' = [op EXCEPT ![a] = [Idle EXCEPT !.kind = kind, !.step = first, !.target = target]]
    /\ UNCHANGED <<store, backups, taken, writes>>

createStateBackup(a) == begin(a, "backup", "snapshot", 0)

\* The commands of the others are not alone with the store and the directory.
disturb(a) == [b \in Actors |-> IF b = a \/ op[b].kind \in {"none", "backup"} THEN op[b]
                                ELSE [op[b] EXCEPT !.alone = FALSE]]
stepAlone(a, s) == op' = [disturb(a) EXCEPT ![a].step = s, ![a].copy = None]

\* VACUUM INTO reads the store with its log; when it fails the main file is
\* copied without it.
readLive == {current, file} \ {None}

vacuumInto(a) ==
    /\ at(a, "snapshot") /\ ~op[a].raw /\ taken < MaxBackups
    /\ \E c \in readLive :
         op' = [op EXCEPT ![a].copy = c, ![a].name = taken + 1,
                          ![a].step = "rename"]
    /\ taken' = taken + 1
    /\ UNCHANGED <<store, backups, writes>>

renameBackup(a) ==
    /\ at(a, "rename") /\ ~op[a].raw
    /\ backups' = Append(backups, [name |-> op[a].name, file |-> op[a].copy, verified |-> FALSE])
    /\ stepAlone(a, "metadata")
    /\ UNCHANGED <<store, taken, writes>>

\* rawPreRestoreBackup writes in place: its file is there before it is whole.
rawSnapshot(a) ==
    /\ at(a, "snapshot") /\ op[a].raw /\ taken < MaxBackups
    /\ \E c \in readLive : op' = [disturb(a) EXCEPT ![a].copy = c, ![a].name = taken + 1,
                                                  ![a].step = "rename"]
    /\ taken' = taken + 1
    /\ backups' = Append(backups, [name |-> taken + 1, file |-> Damaged, verified |-> FALSE])
    /\ UNCHANGED <<store, writes>>

rawSnapshotEnds(a) ==
    /\ at(a, "rename") /\ op[a].raw
    /\ backups' = update(op[a].name,
                         [name |-> op[a].name, file |-> op[a].copy, verified |-> FALSE])
    /\ stepAlone(a, "metadata")
    /\ UNCHANGED <<store, taken, writes>>

\* The digest is of the file: when another process trimmed it there is none.
writeMetadata(a) ==
    /\ at(a, "metadata") /\ exists(op[a].name) /\ step(a, "verify")
    /\ UNCHANGED <<store, backups, taken, writes>>

\* Opening a file that is gone makes an empty one, the newest of all.
openForValidation(n) ==
    IF exists(n) THEN backups ELSE Append(backups, [name |-> n, file |-> Damaged, verified |-> FALSE])
validateBackup_presence(n) == exists(n)
validateBackup(n) == exists(n) /\ restorable(entry(n).file)

markBackupVerified(n) == update(n, [entry(n) EXCEPT !.verified = TRUE])

\* The count of failed cycles is only reported.
verifyAndTrack(a) ==
    LET n == op[a].name IN
    /\ at(a, "verify") /\ stepAlone(a, "trim")
    /\ backups' = IF validateBackup(n) THEN markBackupVerified(n) ELSE openForValidation(n)
    /\ UNCHANGED <<store, taken, writes>>

\* From the newest beyond the retention on, a backup is removed unless it is
\* verified and not more than `floor` verified ones are left.
verified(dir) == {i \in DOMAIN dir : dir[i].verified}
rank(S, i) == Cardinality({j \in S : j <= i})
\* What is at the positions in S, in its order.
pick(dir, S) == [k \in 1..Cardinality(S) |-> dir[CHOOSE i \in S : rank(S, i) = k]]

trimBackups_countOnce(dir, retention) ==
    pick(dir, {i \in DOMAIN dir : \/ i > Len(dir) - retention
                                 \/ (i \in verified(dir) /\ Cardinality(verified(dir)) <= Floor)})
kept(dir, retention) ==
    LET recent == (Len(dir) - retention + 1)..Len(dir)
        good == verified(dir)
    IN  {i \in DOMAIN dir : \/ i \in recent
                           \/ (i \in good /\ rank(good, i) + Cardinality(good \cap recent) <= Floor)}
trimBackups(dir, retention) == pick(dir, kept(dir, retention))

retentionOf(a) == IF op[a].kind \in {"backup", "restore"} THEN Retention ELSE DefaultRetention

\* What each command goes on to with its backup made.
afterBackup == [backup |-> "idle", restore |-> "validate", rebuild |-> "candidate", open |-> "migrate"]
continue(a, others) ==
    op' = [others EXCEPT ![a] =
             IF op[a].kind = "backup" THEN Idle
             ELSE [op[a] EXCEPT !.raw = FALSE, !.step = afterBackup[op[a].kind],
                                !.name = IF op[a].kind = "open" THEN op[a].name ELSE 0]]

trim(a) ==
    /\ at(a, "trim")
    /\ backups' = trimBackups(backups, retentionOf(a))
    /\ continue(a, disturb(a))
    /\ UNCHANGED <<store, taken, writes>>

\* A file cannot be written, or is gone: a restore tries once more, in place; a
\* rebuild goes on without; the others end.
createFails_restoreGoesOn(a) ==
    /\ op[a].step \in creating
    /\ op' = [op EXCEPT ![a] =
          IF op[a].kind \in {"restore", "rebuild"}
            THEN [op[a] EXCEPT !.copy = None, !.step = afterBackup[op[a].kind]] ELSE Idle]
    /\ UNCHANGED <<store, backups, taken, writes>>
createFails(a) ==
    /\ op[a].step \in creating
    /\ op' = [op EXCEPT ![a] =
          IF op[a].kind = "restore" /\ ~op[a].raw
            THEN [op[a] EXCEPT !.raw = TRUE, !.copy = None, !.step = "snapshot"]
          ELSE IF op[a].kind = "rebuild" THEN [op[a] EXCEPT !.copy = None, !.step = "candidate"]
          ELSE Idle]
    /\ UNCHANGED <<store, backups, taken, writes>>

-----------------------------------------------------------------------------
(***************************************************************************)
(* Restoring: the state of the store is saved, the snapshot validated, and *)
(* the file replaced by a rename; then the store is opened.                *)
(***************************************************************************)
restoreStateBackup(a) ==
    \E n \in 1..MaxBackups : exists(n) /\ begin(a, "restore", "snapshot", n)

validateTarget(a) ==
    /\ at(a, "validate")
    /\ backups' = openForValidation(op[a].target)
    /\ IF validateBackup(op[a].target) THEN step(a, "replace")
         ELSE op' = [disturb(a) EXCEPT ![a] = Idle]
    /\ UNCHANGED <<store, taken, writes>>

\* Whoever has the former file open writes to a file nobody else reaches.
replaceFile(a, c, next) ==
    /\ file' = c /\ attached' = FALSE
    /\ op' = [b \in Actors |-> IF b = a THEN next
                               ELSE IF op[b].kind = "open" THEN Idle ELSE disturb(a)[b]]

\* The daemon lends its own store for the opening that follows.
atomicReplace(a) ==
    LET n == op[a].target IN
    /\ at(a, "replace")
    /\ IF exists(n)
         THEN replaceFile(a, entry(n).file,
                IF served = None /\ entry(n).file.schema = "migratable"
                  THEN [Idle EXCEPT !.kind = "open", !.step = "snapshot"] ELSE Idle)
         ELSE done(a) /\ UNCHANGED <<file, attached>>
    /\ UNCHANGED <<served, backups, taken, writes>>

-----------------------------------------------------------------------------
(***************************************************************************)
(* Migrating, when a store of an earlier schema is opened.                 *)
(***************************************************************************)
openStore(a) ==
    /\ served = None /\ file # None /\ file.schema = "migratable"
    /\ \A b \in Actors : op[b].kind # "open"
    /\ begin(a, "open", "snapshot", 0)

\* The branch may not migrate: assertMigrationBranch.
migrationRefused(a) ==
    /\ op[a].kind = "open" /\ at(a, "snapshot") /\ done(a)
    /\ UNCHANGED <<store, backups, taken, writes>>

\* createVerifiedBackup reads the snapshot once more; the migration is one
\* transaction.
performMigration(a) ==
    /\ at(a, "migrate") /\ op' = [disturb(a) EXCEPT ![a] = Idle]
    /\ file' = IF exists(op[a].name) /\ entry(op[a].name).file # Damaged
                 THEN [file EXCEPT !.schema = "current"] ELSE file
    /\ UNCHANGED <<served, attached, backups, taken, writes>>

-----------------------------------------------------------------------------
(***************************************************************************)
(* Rebuilding from the packet documents.  The live files are removed and   *)
(* the candidate renamed to their place.                                   *)
(***************************************************************************)
rebuild(a) == begin(a, "rebuild", "snapshot", 0)

candidate == [data |-> 0, schema |-> "current"]

\* It has fewer closed packets than the store, or fails its integrity check.
rebuildRefused(a) ==
    /\ at(a, "candidate") /\ done(a)
    /\ UNCHANGED <<store, backups, taken, writes>>

removeLiveDbFiles(a) ==
    /\ at(a, "candidate")
    /\ replaceFile(a, None, [op[a] EXCEPT !.step = "swap"])
    /\ UNCHANGED <<served, backups, taken, writes>>

replaceLiveDb(a) ==
    /\ at(a, "swap")
    /\ replaceFile(a, candidate, Idle)
    /\ UNCHANGED <<served, backups, taken, writes>>

-----------------------------------------------------------------------------
(***************************************************************************)
(* The store in use.                                                       *)
(***************************************************************************)
\* A command changes the store; the daemon's log may or may not be in its file.
write(a) ==
    LET next == [current EXCEPT !.data = writes + 1] IN
    /\ mayBegin /\ op[a] = Idle /\ writes < MaxWrites
    /\ current # None /\ current.schema = "current"
    /\ \A b \in Actors : op[b].kind # "open"
    /\ writes' = writes + 1
    /\ IF served = None THEN file' = next /\ UNCHANGED served
         ELSE served' = next /\ file' \in (IF attached THEN {file, next} ELSE {file})
    /\ op' = disturb(a)
    /\ UNCHANGED <<attached, backups, taken>>

\* A path without a file becomes a new store, and for whoever only reads it an
\* empty database.
createMissing(a) ==
    /\ file = None /\ \/ op[a] = Idle /\ mayBegin /\ file' \in {candidate, Damaged}
                      \/ at(a, "snapshot") /\ file' = Damaged
    /\ op' = disturb(a)
    /\ UNCHANGED <<served, attached, backups, taken, writes>>

startDaemon ==
    /\ served = None /\ file # None /\ file.schema = "current"
    /\ \A a \in Actors : op[a].kind # "open"
    /\ served' = file /\ attached' = TRUE
    /\ UNCHANGED <<file, backups, op, taken, writes>>

stopDaemon ==
    /\ served # None /\ \A a \in Actors : op[a] = Idle
    /\ served' = None /\ attached' = FALSE
    /\ file' = IF attached THEN served ELSE file
    /\ UNCHANGED <<backups, op, taken, writes>>

\* With the daemon dies what it runs; its log, if the file at the path is
\* another one, may be replayed into that one.
crashDaemon ==
    /\ served # None
    /\ served' = None /\ attached' = FALSE
    /\ file' \in (IF attached THEN {served} ELSE IF file = None THEN {None} ELSE {file, Damaged})
    /\ op' = [a \in Actors |-> Idle]
    /\ UNCHANGED <<backups, taken, writes>>

Crash(a) ==
    /\ served = None /\ op[a] # Idle /\ done(a)
    /\ UNCHANGED <<store, backups, taken, writes>>

Next ==
    \/ \E a \in Actors :
         \/ createStateBackup(a) \/ restoreStateBackup(a) \/ openStore(a) \/ rebuild(a)
         \/ vacuumInto(a) \/ renameBackup(a) \/ rawSnapshot(a) \/ rawSnapshotEnds(a)
         \/ writeMetadata(a) \/ verifyAndTrack(a) \/ trim(a) \/ createFails(a)
         \/ validateTarget(a) \/ atomicReplace(a)
         \/ migrationRefused(a) \/ performMigration(a)
         \/ rebuildRefused(a) \/ removeLiveDbFiles(a) \/ replaceLiveDb(a)
         \/ write(a) \/ createMissing(a) \/ Crash(a)
    \/ startDaemon \/ stopDaemon \/ crashDaemon

Spec == Init /\ [][Next]_vars

-----------------------------------------------------------------------------
(***************************************************************************)
(* Properties.                                                             *)
(***************************************************************************)

\* Once `Floor` backups that say they are verified can be restored, there are
\* always so many: no trim, no crash and no failed restore takes them, however
\* low the retention (backup.ts trimBackups, verifyAndTrack).
goodBackups == {i \in DOMAIN backups : backups[i].verified /\ restorable(backups[i].file)}
RestorableFloor ==
    [][Cardinality(goodBackups) >= Floor => Cardinality(goodBackups)' >= Floor]_vars

\* Each state a restore or a migration overwrites is in a backup, the one made
\* by the first way or by the one in place, when no other process changed the
\* store or trimmed the directory meanwhile and none serves the store
\* (backup.ts restoreStateBackup, store.migrations.ts performMigration).
acts(a) ==        \* a step of this actor's and no crash of the daemon
    /\ op'[a].step # op[a].step /\ served' = served
    /\ \A b \in Actors \ {a} : op'[b].step = op[b].step \/ op[b].kind = "open"
OverwrittenStateIsSaved ==
    [][\A a \in Actors :
         acts(a) /\ op[a].step \in {"replace", "migrate"} /\ op[a].alone
         /\ served = None /\ file' # file
           => \E i \in DOMAIN backups : backups[i].file = file]_vars

\* Nothing that replaces the store puts an unusable one in its place, whatever
\* the directory holds, unless a second process trims the snapshot between its
\* validation and its copy (backup.ts validateBackup, atomicReplace).
InstalledStateIsUsable ==
    [][\A a \in Actors :
         acts(a) /\ op[a].step \in {"replace", "migrate", "swap"} /\ op[a].alone
           => file' = file \/ restorable(file')]_vars
=============================================================================
