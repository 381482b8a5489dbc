----------------------------- MODULE AuditQueue -----------------------------
(***************************************************************************)
(* AuditWriteQueueService: audit entries are queued in memory and written  *)
(* to the SystemLog table in batches by one drain loop; a batch that fails *)
(* too often, an entry the queue has no room for, and one that arrives     *)
(* during the shutdown, are appended to a spool file, which is replayed    *)
(* after a batch succeeds and at the shutdown.                             *)
(*                                                                         *)
(* One step is what the event loop runs between two awaits.  The awaits    *)
(* are the setImmediate before a drain, each insertion, and the pause      *)
(* before a retry; HTTP handlers may enqueue at any of them.  The calls on *)
(* the spool file are synchronous.                                         *)
(***************************************************************************)
EXTENDS Naturals, Sequences, Functions

CONSTANTS
  Entries,      \* audit entries, one per audited request
  MaxQueue,     \* maxQueueSize
  BatchSize,    \* BATCH_SIZE
  MaxAttempts,  \* MAX_ATTEMPTS
  MaxCrashes,   \* bound of the exploration: crashes of the process
  MaxUnclear,   \* bound: insertions that fail although they were committed
  QuietReplay   \* TRUE: nothing is appended to the spool during a replay of it

ASSUME QueueAssumption ==
  /\ MaxQueue \in Nat \ {0} /\ BatchSize \in Nat \ {0}
  /\ MaxAttempts \in Nat \ {0}
  /\ MaxCrashes \in Nat /\ MaxUnclear \in Nat
  /\ QuietReplay \in BOOLEAN

VARIABLES
  entries,    \* the queue in memory
  drain,      \* the drain loop: where it waits, its batch and attempt
  spool,      \* the entries in the spool file
  flag,       \* hasSpooledEntries
  replay,     \* the replay of the spool: who runs it, and what is left of it
  flush,      \* the shutdown: no, waiting for the drain, replaying, done
  up,         \* the process runs
  stored,     \* per entry, its rows in SystemLog
  offered,    \* the entries that were enqueued so far
  faults      \* [crashes, unclear]: how many there were

vars == <<entries, drain, spool, flag, replay, flush, up, stored, offered, faults>>

-----------------------------------------------------------------------------
(* Values *)

NoDrain == [pc |-> "idle", batch |-> <<>>, attempt |-> 0]
NoReplay == [by |-> "nobody", left |-> <<>>]

TypeOK ==
  /\ entries \in Seq(Entries) /\ Len(entries) <= MaxQueue
  /\ drain \in [pc: {"idle", "scheduled", "inserting", "backoff", "replaying"},
                batch: Seq(Entries), attempt: 0..MaxAttempts]
  /\ spool \in Seq(Entries)
  /\ flag \in BOOLEAN
  /\ replay \in [by: {"nobody", "drain", "flush"}, left: Seq(Entries)]
  /\ flush \in {"no", "waiting", "replaying", "done"}
  /\ up \in BOOLEAN
  /\ stored \in [Entries -> Nat]
  /\ offered \in SUBSET Entries
  /\ faults \in [crashes: 0..MaxCrashes, unclear: 0..MaxUnclear]

\* accepting
Accepting == flush = "no"

Smaller(a, b) == IF a < b THEN a ELSE b
First(s) == SubSeq(s, 1, Smaller(BatchSize, Len(s)))
Rest(s) == SubSeq(s, Smaller(BatchSize, Len(s)) + 1, Len(s))

\* createAutomaticBatch committed: each entry of the batch has one more row.
Inserted(batch) ==
  [e \in Entries |-> IF e \in Range(batch) THEN stored[e] + 1 ELSE stored[e]]

-----------------------------------------------------------------------------
(* The spool file *)

\* appendToSpool: the entries are added to the file.
Spool(batch) ==
  /\ spool' = spool \o batch
  /\ flag' = TRUE

-----------------------------------------------------------------------------
(* Enqueueing *)

\* Fault: no drain is started for an entry.
NotScheduled == drain

\* scheduleDrain
Scheduled == IF drain.pc = "idle" THEN [NoDrain EXCEPT !.pc = "scheduled"]
             ELSE drain

\* Fault: the capacity is not looked at.
NeverFull == FALSE

Full == Len(entries) >= MaxQueue

\* The replay in progress would not see what is appended now.
MayAppend == QuietReplay => replay.by = "nobody"

Enqueue(e) ==
  /\ up
  /\ e \notin offered
  /\ offered' = offered \cup {e}
  /\ \/ /\ ~Accepting
        /\ MayAppend
        /\ Spool(<<e>>)
        /\ UNCHANGED <<entries, drain>>
     \/ /\ Accepting
        /\ Full
        /\ MayAppend
        /\ Spool(<<e>>)
        /\ drain' = Scheduled
        /\ UNCHANGED entries
     \/ /\ Accepting
        /\ ~Full
        /\ entries' = Append(entries, e)
        /\ drain' = Scheduled
        /\ UNCHANGED <<spool, flag>>
  /\ UNCHANGED <<replay, flush, up, stored, faults>>

-----------------------------------------------------------------------------
(* The drain loop *)

\* The loop goes on with the next batch, or ends.
NextBatch ==
  /\ entries' = Rest(entries)
  /\ drain' = IF entries = <<>> THEN NoDrain
              ELSE [pc |-> "inserting", batch |-> First(entries), attempt |-> 1]

StartDrain ==
  /\ drain.pc = "scheduled"
  /\ NextBatch
  /\ UNCHANGED <<spool, flag, replay, flush, up, stored, offered, faults>>

\* replaySpool: it reads the file, and forgets it if there is nothing in it.
StartReplay(who) ==
  /\ replay.by = "nobody" /\ flag
  /\ replay' = IF spool = <<>> THEN NoReplay ELSE [by |-> who, left |-> spool]
  /\ flag' = (spool # <<>>)

\* A batch is written.  With nothing else to write the spool is replayed.
InsertBatch ==
  /\ drain.pc = "inserting"
  /\ stored' = Inserted(drain.batch)
  /\ \/ /\ flag /\ entries = <<>>
        /\ StartReplay("drain")
        /\ drain' = IF spool = <<>> THEN NoDrain
                    ELSE [NoDrain EXCEPT !.pc = "replaying"]
        /\ UNCHANGED entries
     \/ /\ ~(flag /\ entries = <<>>)
        /\ NextBatch
        /\ UNCHANGED <<flag, replay>>
  /\ UNCHANGED <<spool, flush, up, offered, faults>>

\* An insertion fails; it may have been committed all the same.
Failed(batch) ==
  \/ stored' = stored /\ faults' = faults
  \/ /\ faults.unclear < MaxUnclear
     /\ stored' = Inserted(batch)
     /\ faults' = [faults EXCEPT !.unclear = @ + 1]

\* Fault: the batch is given up without a backup.
BatchDropped(batch) == UNCHANGED <<spool, flag>>

\* A batch that failed too often goes to the spool.
GiveUp(batch) == Spool(batch)

\* Fault: the attempts are not counted.
AlwaysAgain == TRUE

AttemptsLeft == drain.attempt < MaxAttempts

FailBatch ==
  /\ drain.pc = "inserting"
  /\ Failed(drain.batch)
  /\ \/ /\ AttemptsLeft
        /\ drain' = [drain EXCEPT !.pc = "backoff"]
        /\ UNCHANGED <<entries, spool, flag>>
     \/ /\ ~AttemptsLeft
        /\ GiveUp(drain.batch)
        /\ NextBatch
  /\ UNCHANGED <<replay, flush, up, offered>>

Retry ==
  /\ drain.pc = "backoff"
  /\ drain' = [drain EXCEPT !.pc = "inserting",
                            !.attempt = Smaller(@ + 1, MaxAttempts)]
  /\ UNCHANGED <<entries, spool, flag, replay, flush, up, stored, offered, faults>>

-----------------------------------------------------------------------------
(* The replay of the spool *)

\* Whoever replays goes on: the drain with its queue, the shutdown to its end.
Resume ==
  \/ /\ replay.by = "drain"
     /\ NextBatch
     /\ UNCHANGED flush
  \/ /\ replay.by = "flush"
     /\ flush' = "done"
     /\ UNCHANGED <<entries, drain>>

\* The batch being replayed is written; after the last one the file is removed.
ReplayBatch ==
  /\ replay.by # "nobody"
  /\ stored' = Inserted(First(replay.left))
  /\ IF Rest(replay.left) # <<>>
       THEN /\ replay' = [replay EXCEPT !.left = Rest(@)]
            /\ UNCHANGED <<entries, drain, spool, flag, flush>>
       ELSE /\ replay' = NoReplay
            /\ spool' = <<>> /\ flag' = FALSE
            /\ Resume
  /\ UNCHANGED <<up, offered, faults>>

\* Fault: the batches that were replayed stay in the file.
AllOf(left) == spool

\* What rewriteSpoolFile keeps.
Remaining(left) == left

\* It fails: the file is rewritten with what is left.
FailReplay ==
  /\ replay.by # "nobody"
  /\ Failed(First(replay.left))
  /\ spool' = Remaining(replay.left) /\ flag' = TRUE
  /\ replay' = NoReplay
  /\ Resume
  /\ UNCHANGED <<up, offered>>

-----------------------------------------------------------------------------
(* Shutdown, crash, restart *)

\* onModuleDestroy: nothing more is accepted in memory.
OnModuleDestroy ==
  /\ up /\ flush = "no"
  /\ flush' = "waiting"
  /\ UNCHANGED <<entries, drain, spool, flag, replay, up, stored, offered, faults>>

\* flush, once the drain has ended.
Flush ==
  /\ flush = "waiting" /\ drain.pc = "idle"
  /\ IF flag THEN /\ StartReplay("flush")
                  /\ flush' = IF spool = <<>> THEN "done" ELSE "replaying"
             ELSE flush' = "done" /\ UNCHANGED <<replay, flag>>
  /\ UNCHANGED <<entries, drain, spool, up, stored, offered, faults>>

\* The memory of the process is gone.
Stop ==
  /\ up' = FALSE
  /\ entries' = <<>> /\ drain' = NoDrain /\ replay' = NoReplay
  /\ flush' = "no" /\ flag' = FALSE
  /\ UNCHANGED <<spool, offered>>

Exit ==
  /\ up /\ flush = "done"
  /\ Stop
  /\ UNCHANGED <<stored, faults>>

\* The insertion in flight may still be committed.
Crash ==
  /\ up /\ faults.crashes < MaxCrashes
  /\ faults' = [faults EXCEPT !.crashes = @ + 1]
  /\ \/ stored' = stored
     \/ drain.pc = "inserting" /\ stored' = Inserted(drain.batch)
     \/ replay.by # "nobody" /\ stored' = Inserted(First(replay.left))
  /\ Stop

\* Fault: a restart does not look for the file.
FlagForgotten == FALSE

\* checkSpoolFileHasData
FlagAtStart == spool # <<>>

Restart ==
  /\ ~up
  /\ up' = TRUE /\ flag' = FlagAtStart
  /\ UNCHANGED <<entries, drain, spool, replay, flush, stored, offered, faults>>

-----------------------------------------------------------------------------
Init ==
  /\ entries = <<>> /\ drain = NoDrain
  /\ spool = <<>> /\ flag = FALSE /\ replay = NoReplay
  /\ flush = "no" /\ up = TRUE
  /\ stored = [e \in Entries |-> 0]
  /\ offered = {}
  /\ faults = [crashes |-> 0, unclear |-> 0]

DrainStep == StartDrain \/ InsertBatch \/ FailBatch \/ Retry
ReplayStep == ReplayBatch \/ FailReplay

Next ==
  \/ \E e \in Entries : Enqueue(e)
  \/ DrainStep
  \/ ReplayStep
  \/ OnModuleDestroy
  \/ Flush
  \/ Exit
  \/ Crash
  \/ Restart

\* The event loop runs what is ready; every insertion is answered, by the
\* database or by an error.
Spec ==
  /\ Init /\ [][Next]_vars
  /\ WF_vars(DrainStep) /\ WF_vars(ReplayStep)
  /\ WF_vars(Flush) /\ WF_vars(Exit)

-----------------------------------------------------------------------------
(* Properties *)

\* The entries in memory: queued, in the batch of the drain loop.
Held == Range(entries) \cup Range(drain.batch)

\* As long as nothing is appended to the spool during a replay of it, the
\* service keeps the promise of AuditLog: no retry, shutdown, failure of the
\* database or replay loses an entry, and a crash only those in memory.
Log == INSTANCE AuditLog WITH
         held <- Held, kept <- Range(spool),
         written <- {e \in Entries : stored[e] > 0}

ImplementsAuditLog == Log!Spec

\* Without a crash or an unclear answer of the database, no entry is written
\* twice, whichever way it took: the batch, its retries, the spool, a replay that
\* failed half-way, the replay of the shutdown.
NoDuplicates ==
  (faults.crashes = 0 /\ faults.unclear = 0) => \A e \in Entries : stored[e] <= 1

\* An entry in the file is never out of sight: while the process runs, the flag
\* that makes a replay look at the file is set.
SpoolInSight == (up /\ spool # <<>>) => flag

\* An entry that waits in memory is taken from there in the end, although the
\* database may fail for ever.
BacklogDrains ==
  \A e \in Entries : (e \in Held) ~> (e \notin Held)

\* A shutdown comes to its end.
ShutdownEnds == (flush = "waiting") ~> ~up

\* What was put on disk is on disk until it is written: "respaldando en disco".
SpoolSurvives ==
  [][\A e \in Range(spool) : e \in Range(spool') \/ stored'[e] > 0]_vars
=============================================================================
