---------------------------------- MODULE Backups ----------------------------------
(***************************************************************************)
(* BackupsService: dumps of the database into files, their retention, and  *)
(* the restoration of one, which first dumps what it is about to replace.  *)
(*                                                                         *)
(* The service runs pg_dump and psql as processes and awaits them; other   *)
(* handlers go on.  Nothing stops the business while a restoration runs.   *)
(* What the database holds is a value of Contents; a file that is not a    *)
(* whole dump is Partial.  A file is named for its kind and the second.    *)
(* The configuration (which jobs are enabled, at which time, how many days *)
(* files are kept) is left out: a job may run or not, a file may get old.  *)
(***************************************************************************)
EXTENDS Naturals, FiniteSets

CONSTANTS
  Contents,       \* what the database may hold
  Partial,        \* what is left of an incomplete dump
  Clicks,         \* requests and jobs that dump at the same time
  MaxSecond,      \* bound of the exploration: the clock
  MaxFiles,       \* bound of the exploration: files on the disk
  Quiet,          \* TRUE: while a restoration runs nobody works and no file is deleted
  SecondsApart    \* TRUE: no two dumps of a kind begin in the same second

ASSUME BackupsAssumption ==
  /\ Partial \notin Contents /\ "restorer" \notin Clicks
  /\ MaxSecond \in Nat \ {0} /\ MaxFiles \in Nat
  /\ Quiet \in BOOLEAN /\ SecondsApart \in BOOLEAN

VARIABLES
  data,       \* what the database holds
  files,      \* the .sql files of the storage directory
  dump,       \* the dumps that run: pg_dump by handler
  restore,    \* the restoration that runs, isRestoreInProgress
  clean,      \* a clean-up was started and has not read the directory
  second,     \* the clock
  lastRun     \* lastCronExecutionKey, 0 at the start

backupVars == <<data, files, dump, restore, clean, second, lastRun>>

-----------------------------------------------------------------------------
Requested == {"manual", "auto", "shift-close"}
Seconds == 1..MaxSecond
Names == [kind: Requested \cup {"snapshot", "imported"}, second: Seconds]
Held == Contents \cup {Partial}
File == [holds: Held, old: BOOLEAN]

\* The restoration has a dump of its own.
Dumpers == Clicks \cup {"restorer"}
NoDump == [on |-> FALSE]
NoRestore == [stage |-> "none"]

\* What is restored: a file of the directory, or an upload.
Source == [stored: {TRUE}, name: Names] \cup [stored: {FALSE}, holds: Held]

BackupsTypeOK ==
  /\ data \in Held
  /\ DOMAIN files \subseteq Names /\ \A n \in DOMAIN files : files[n] \in File
  /\ dump \in [Dumpers -> {NoDump} \cup [on: {TRUE}, name: Names, holds: Held]]
  /\ restore \in {NoRestore} \cup [stage: {"snapshot", "saved", "applied"}, from: Source]
  /\ clean \in BOOLEAN
  /\ second \in Seconds /\ lastRun \in {0} \cup Seconds

\* isRestoreInProgress
Restoring == restore # NoRestore

\* A file is written, over one of that name, or removed.
With(n, held) ==
  [m \in DOMAIN files \cup {n} |-> IF m = n THEN [holds |-> held, old |-> FALSE] ELSE files[m]]
Without(n) == [m \in DOMAIN files \ {n} |-> files[m]]

\* Fault: the kind is not in the name.
NamedByTime(kind) == [kind |-> "manual", second |-> second]

FileName(kind) == [kind |-> kind, second |-> second]

\* pg_dump writes what the database holds now; the file of that name is replaced.
StartDump(d, kind) ==
  LET n == FileName(kind) IN
  /\ dump[d] = NoDump
  /\ Cardinality(DOMAIN files \cup {n}) <= MaxFiles
  /\ SecondsApart => [kind |-> kind, second |-> second] \notin
       DOMAIN files \cup {dump[e].name : e \in {e \in Dumpers : dump[e].on}}
  /\ dump' = [dump EXCEPT ![d] = [on |-> TRUE, name |-> n, holds |-> data]]
  /\ files' = With(n, Partial)

-----------------------------------------------------------------------------
(* Dumps *)

\* generateBackup, by a request, handleScheduledCron or handleShiftClosedEvent.
Generate(d, kind) ==
  /\ ~Restoring
  /\ kind = "auto" => lastRun # second
  /\ lastRun' = IF kind = "auto" THEN second ELSE lastRun
  /\ StartDump(d, kind)
  /\ UNCHANGED <<data, restore, clean, second>>

\* pg_dump ends well; the clean-up of expired files is started and not awaited.
EndDump(d) ==
  LET n == dump[d].name IN
  /\ dump[d].on /\ n \in DOMAIN files
  /\ files' = With(n, dump[d].holds)
  /\ dump' = [dump EXCEPT ![d] = NoDump]
  /\ restore' = IF d = "restorer" THEN [restore EXCEPT !.stage = "saved"] ELSE restore
  /\ clean' = TRUE
  /\ UNCHANGED <<data, second, lastRun>>

\* Fault: a restoration goes on although its snapshot failed.
GoesOn(d) == IF d = "restorer" THEN [restore EXCEPT !.stage = "saved"] ELSE restore

\* A restoration without a snapshot is given up.
AfterFailure(d) == IF d = "restorer" THEN NoRestore ELSE restore

\* pg_dump fails: what it wrote is removed.
FailDump(d) ==
  /\ dump[d].on
  /\ files' = Without(dump[d].name)
  /\ dump' = [dump EXCEPT ![d] = NoDump]
  /\ restore' = AfterFailure(d)
  /\ UNCHANGED <<data, clean, second, lastRun>>

Expired == {n \in DOMAIN files : files[n].old}

\* cleanExpiredBackups, which reads its configuration before the directory.
Clean ==
  /\ clean
  /\ files' = [n \in DOMAIN files \ Expired |-> files[n]]
  /\ clean' = FALSE
  /\ UNCHANGED <<data, dump, restore, second, lastRun>>

\* deleteBackup: no look at the restoration or dump that uses the file.
DeleteBackup(n) ==
  /\ n \in DOMAIN files
  /\ Quiet => ~Restoring
  /\ files' = Without(n)
  /\ UNCHANGED <<data, dump, restore, clean, second, lastRun>>

-----------------------------------------------------------------------------
(* Restoration *)

\* restoreBackup: its flag, the checks of the source, and the dump of the database.
BeginRestore ==
  /\ ~Restoring
  /\ \E from \in Source :
       /\ from.stored => from.name \in DOMAIN files
       /\ restore' = [stage |-> "snapshot", from |-> from]
  /\ StartDump("restorer", "snapshot")
  /\ UNCHANGED <<data, clean, second, lastRun>>

\* One transaction of psql, which waits for the locks of the dumps that run.
Psql ==
  LET from == restore.from IN
  /\ restore.stage = "saved"
  /\ from.stored => from.name \in DOMAIN files
  /\ \A d \in Dumpers : ~dump[d].on
  /\ data' = IF from.stored THEN files[from.name].holds ELSE from.holds

Restore ==
  /\ Psql
  /\ restore' = [restore EXCEPT !.stage = "applied"]
  /\ UNCHANGED <<files, dump, clean, second, lastRun>>

\* psql fails: the file is gone or wrong, or a lock is not granted.
RestoreFails ==
  /\ restore.stage = "saved"
  /\ restore' = NoRestore
  /\ UNCHANGED <<data, files, dump, clean, second, lastRun>>

\* verifyRestoredDatabaseIntegrity comes after the commit: it only reports.
EndRestore(verified) ==
  LET from == restore.from
      kept == verified /\ ~from.stored
      n == FileName("imported")
  IN
  /\ restore.stage = "applied"
  /\ kept => Cardinality(DOMAIN files \cup {n}) <= MaxFiles
  /\ kept /\ SecondsApart => n \notin DOMAIN files
  /\ files' = IF kept THEN With(n, from.holds) ELSE files
  /\ restore' = NoRestore
  /\ UNCHANGED <<data, dump, clean, second, lastRun>>

-----------------------------------------------------------------------------
(* The world *)

Work(d) ==
  /\ d # data /\ (Quiet => ~Restoring)
  /\ data' = d
  /\ UNCHANGED <<files, dump, restore, clean, second, lastRun>>

Second ==
  /\ second < MaxSecond
  /\ second' = second + 1
  /\ UNCHANGED <<data, files, dump, restore, clean, lastRun>>

\* The days of retention pass; a restoration does not take so long.
Age(n) ==
  /\ ~Restoring /\ n \in DOMAIN files /\ ~files[n].old
  /\ \A d \in Dumpers : dump[d].on => dump[d].name # n
  /\ files' = [files EXCEPT ![n].old = TRUE]
  /\ UNCHANGED <<data, dump, restore, clean, second, lastRun>>

\* The process stops, with pg_dump and psql; psql's transaction is committed or not.
Stop ==
  /\ Restoring \/ \E d \in Dumpers : dump[d].on
  /\ Psql \/ UNCHANGED data
  /\ dump' = [d \in Dumpers |-> NoDump]
  /\ restore' = NoRestore /\ clean' = FALSE /\ lastRun' = 0
  /\ UNCHANGED <<files, second>>

BackupsInit ==
  /\ data \in Contents
  /\ files = [n \in {} |-> [holds |-> Partial, old |-> FALSE]]
  /\ dump = [d \in Dumpers |-> NoDump]
  /\ restore = NoRestore /\ clean = FALSE /\ second = 1 /\ lastRun = 0

BackupsNext ==
  \/ \E d \in Clicks, kind \in Requested : Generate(d, kind)
  \/ \E d \in Dumpers : EndDump(d) \/ FailDump(d)
  \/ \E n \in Names : DeleteBackup(n) \/ Age(n)
  \/ BeginRestore \/ Restore \/ RestoreFails \/ \E verified \in BOOLEAN : EndRestore(verified)
  \/ \E d \in Contents : Work(d)
  \/ Clean \/ Second \/ Stop

BackupsSpec == BackupsInit /\ [][BackupsNext]_backupVars

-----------------------------------------------------------------------------
(* Properties *)

\* When a restoration replaces what the database holds, a file has it (the safety
\* snapshot of restoreBackup), whatever dumps, failures and clean-ups ran meanwhile.
SnapshotBefore ==
  [][Restoring /\ data' # data => \E n \in DOMAIN files : files[n].holds = data]_backupVars

Whole(n) == n \in DOMAIN files /\ files[n].holds # Partial

\* A backup that was reported as done stays as it is until it is deleted on request or
\* expires: no other dump, failed dump, import or restoration takes its file
\* (generateBackup, restoreBackup, cleanExpiredBackups).
BackupsKept ==
  [][\A n \in Names : Whole(n) /\ ~files[n].old =>
       \/ n \in DOMAIN files' /\ files'[n].holds = files[n].holds
       \/ DeleteBackup(n)]_backupVars
=============================================================================
