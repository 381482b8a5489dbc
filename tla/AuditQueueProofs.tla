---------------------------- MODULE AuditQueueProofs ----------------------------
(***************************************************************************)
(* Theorems about AuditQueue that hold for every set of entries, every     *)
(* size of the queue and of a batch, and every number of attempts, crashes *)
(* and unclear answers; and the refinement of AuditLog.                    *)
(***************************************************************************)
EXTENDS AuditQueue, SequenceTheorems, TLAPS

-----------------------------------------------------------------------------
(* The inductive invariant *)

Distinct(s) == \A i, j \in DOMAIN s : s[i] = s[j] => i = j

InQueue == Range(entries)
InBatch == Range(drain.batch)
InSpool == Range(spool)
InReplay == Range(replay.left)

\* Where the drain loop, the replay and the shutdown are, relative to one another.
Phases ==
  /\ drain.pc \notin {"inserting", "backoff"} => drain.batch = <<>>
  /\ drain.pc = "idle" => entries = <<>>
  /\ drain.pc = "replaying" <=> replay.by = "drain"
  /\ flush = "replaying" <=> replay.by = "flush"
  /\ flush \in {"replaying", "done"} => drain.pc = "idle"

\* An entry is in one place, and once.
Apart ==
  /\ Distinct(entries) /\ Distinct(drain.batch) /\ Distinct(spool) /\ Distinct(replay.left)
  /\ InQueue \cap InBatch = {} /\ InQueue \cap InSpool = {} /\ InBatch \cap InSpool = {}
  /\ InReplay \subseteq InSpool
  /\ InQueue \subseteq offered /\ InBatch \subseteq offered /\ InSpool \subseteq offered
  /\ \A e \in Entries : stored[e] > 0 => e \in offered

\* What is still to be written from the disk.
ToReplay == IF replay.by = "nobody" THEN InSpool ELSE InReplay
Clean == faults.crashes = 0 /\ faults.unclear = 0

\* Without faults nothing that waits was written.
Unwritten ==
  Clean => \A e \in Entries : /\ stored[e] <= 1
                              /\ e \in InQueue \cup InBatch \cup ToReplay => stored[e] = 0

\* What a replay has behind it is written.
Replayed ==
  QuietReplay /\ replay.by # "nobody" =>
    \A e \in InSpool : e \in InReplay \/ stored[e] > 0

QueueInv == TypeOK /\ Phases /\ Apart /\ Unwritten /\ Replayed /\ SpoolInSight

-----------------------------------------------------------------------------
(* Sequences of entries *)

LEMMA RangeIs ==
  ASSUME NEW s \in Seq(Entries)
  PROVE  /\ \A e : e \in Range(s) <=> \E i \in 1..Len(s) : s[i] = e
         /\ Range(s) \subseteq Entries /\ DOMAIN s = 1..Len(s) /\ Len(s) \in Nat
  BY LenProperties, RangeEquality, RangeOfSeq

LEMMA NoneOfEmpty ==
  /\ Range(<<>>) = {} /\ Distinct(<<>>) /\ <<>> \in Seq(Entries) /\ Len(<<>>) = 0
<1>1. <<>> \in Seq(Entries) /\ Len(<<>>) = 0
  BY EmptySeq
<1>2. DOMAIN <<>> = 1..0 /\ \A e : e \in Range(<<>>) <=> \E i \in 1..0 : <<>>[i] = e
  BY <1>1, RangeIs
<1>3. 1..0 = {}
  OBVIOUS
<1> QED
  BY <1>1, <1>2, <1>3 DEF Distinct

LEMMA Single ==
  ASSUME NEW e \in Entries
  PROVE  <<e>> \in Seq(Entries) /\ Range(<<e>>) = {e} /\ Distinct(<<e>>)
<1>1. <<e>> \in Seq(Entries) /\ Len(<<e>>) = 1 /\ <<e>>[1] = e
  OBVIOUS
<1>2. 1..1 = {1}
  OBVIOUS
<1> QED
  <2>1. DOMAIN <<e>> = {1} /\ \A x : x \in Range(<<e>>) <=> \E i \in {1} : <<e>>[i] = x
    BY <1>1, <1>2, RangeIs
  <2>2. Range(<<e>>) = {e}
    BY <1>1, <2>1
  <2>3. Distinct(<<e>>)
    BY <2>1 DEF Distinct
  <2> QED
    BY <1>1, <2>2, <2>3

LEMMA Joined ==
  ASSUME NEW s \in Seq(Entries), NEW t \in Seq(Entries)
  PROVE  /\ s \o t \in Seq(Entries) /\ Range(s \o t) = Range(s) \cup Range(t)
         /\ Distinct(s) /\ Distinct(t) /\ Range(s) \cap Range(t) = {} => Distinct(s \o t)
<1>1. /\ s \o t \in Seq(Entries) /\ Len(s \o t) = Len(s) + Len(t)
      /\ \A i \in 1..(Len(s) + Len(t)) : (s \o t)[i] = IF i <= Len(s) THEN s[i] ELSE t[i - Len(s)]
  BY ConcatProperties
<1>2. Range(s \o t) = Range(s) \cup Range(t)
  BY RangeConcatenation
<1>3. ASSUME Distinct(s), Distinct(t), Range(s) \cap Range(t) = {}
      PROVE  Distinct(s \o t)
  <2> SUFFICES ASSUME NEW i \in 1..(Len(s) + Len(t)), NEW j \in 1..(Len(s) + Len(t)),
                      (s \o t)[i] = (s \o t)[j]
               PROVE  i = j
    BY <1>1, RangeIs DEF Distinct
  <2>0. Len(s) \in Nat /\ Len(t) \in Nat /\ DOMAIN s = 1..Len(s) /\ DOMAIN t = 1..Len(t)
    BY RangeIs
  <2>1. CASE i <= Len(s) /\ j <= Len(s)
    BY <1>1, <1>3, <2>0, <2>1 DEF Distinct
  <2>2. CASE i > Len(s) /\ j > Len(s)
    <3>1. t[i - Len(s)] = t[j - Len(s)] /\ i - Len(s) \in 1..Len(t) /\ j - Len(s) \in 1..Len(t)
      BY <1>1, <2>0, <2>2
    <3>2. i - Len(s) = j - Len(s)
      BY <1>3, <2>0, <3>1 DEF Distinct
    <3> QED
      BY <2>0, <3>2
  <2>3. ASSUME NEW m \in 1..(Len(s) + Len(t)), NEW n \in 1..(Len(s) + Len(t)),
               m <= Len(s), n > Len(s), (s \o t)[m] = (s \o t)[n]
        PROVE  FALSE
    <3>1. s[m] = t[n - Len(s)] /\ m \in 1..Len(s) /\ n - Len(s) \in 1..Len(t)
      BY <1>1, <2>0, <2>3
    <3>2. s[m] \in Range(s) /\ s[m] \in Range(t)
      BY <3>1, RangeIs
    <3> QED
      BY <1>3, <3>2
  <2> QED
    BY <2>0, <2>1, <2>2, <2>3
<1> QED
  BY <1>1, <1>2, <1>3

LEMMA Added ==
  ASSUME NEW s \in Seq(Entries), NEW e \in Entries
  PROVE  /\ Append(s, e) \in Seq(Entries) /\ Range(Append(s, e)) = Range(s) \cup {e}
         /\ Len(Append(s, e)) = Len(s) + 1 /\ Append(s, e) # <<>>
         /\ Distinct(s) /\ e \notin Range(s) => Distinct(Append(s, e))
<1>1. Append(s, e) = s \o <<e>>
  BY AppendIsConcat
<1> QED
  <2>1. Append(s, e) \in Seq(Entries) /\ Append(s, e) # <<>> /\ Len(Append(s, e)) = Len(s) + 1
    BY AppendProperties
  <2>2. <<e>> \in Seq(Entries) /\ Range(<<e>>) = {e} /\ Distinct(<<e>>)
    BY Single
  <2>3. /\ Range(s \o <<e>>) = Range(s) \cup {e}
        /\ Distinct(s) /\ e \notin Range(s) => Distinct(s \o <<e>>)
    BY <2>2, Joined
  <2> QED
    BY <1>1, <2>1, <2>3

\* A batch and what is left of the queue are the queue.
LEMMA Cut ==
  ASSUME NEW s \in Seq(Entries)
  PROVE  /\ First(s) \in Seq(Entries) /\ Rest(s) \in Seq(Entries)
         /\ Len(Rest(s)) <= Len(s)
         /\ Range(First(s)) \cup Range(Rest(s)) = Range(s)
         /\ Distinct(s) => /\ Distinct(First(s)) /\ Distinct(Rest(s))
                           /\ Range(First(s)) \cap Range(Rest(s)) = {}
<1> DEFINE k == Smaller(BatchSize, Len(s))
<1>1. k \in Nat /\ k <= Len(s) /\ Len(s) \in Nat /\ DOMAIN s = 1..Len(s)
  BY QueueAssumption, RangeIs DEF Smaller
<1>2. First(s) = SubSeq(s, 1, k) /\ Rest(s) = SubSeq(s, k + 1, Len(s))
  BY DEF First, Rest
<1> HIDE DEF k
<1>3. \A i \in 1..Len(s) : s[i] \in Entries
  BY ElementOfSeq
<1>4. /\ First(s) \in Seq(Entries) /\ Len(First(s)) = k
      /\ \A i \in 1..k : First(s)[i] = s[i]
  <2>1. \A i \in 1..k : s[i] \in Entries
    BY <1>1, <1>3
  <2>2. /\ SubSeq(s, 1, k) \in Seq(Entries)
        /\ Len(SubSeq(s, 1, k)) = IF 1 <= k THEN k - 1 + 1 ELSE 0
        /\ \A i \in 1..(k - 1 + 1) : SubSeq(s, 1, k)[i] = s[1 + i - 1]
    BY <1>1, <2>1, SubSeqProperties
  <2> QED
    <3>1. k - 1 + 1 = k /\ (\A i \in 1..k : 1 + i - 1 = i) /\ (~(1 <= k) => k = 0)
      BY <1>1
    <3>2. Len(First(s)) = k
      BY <1>2, <2>2, <3>1
    <3>3. \A i \in 1..k : First(s)[i] = s[i]
      BY <1>2, <2>2, <3>1
    <3> QED
      BY <1>2, <2>2, <3>2, <3>3
<1>5. /\ Rest(s) \in Seq(Entries) /\ Len(Rest(s)) = Len(s) - k
      /\ \A i \in 1..(Len(s) - k) : Rest(s)[i] = s[k + i]
  <2>1. \A i \in (k + 1)..Len(s) : s[i] \in Entries
    BY <1>1, <1>3
  <2>2. /\ SubSeq(s, k + 1, Len(s)) \in Seq(Entries)
        /\ Len(SubSeq(s, k + 1, Len(s))) = IF k + 1 <= Len(s) THEN Len(s) - (k + 1) + 1 ELSE 0
        /\ \A i \in 1..(Len(s) - (k + 1) + 1) : SubSeq(s, k + 1, Len(s))[i] = s[(k + 1) + i - 1]
    BY <1>1, <2>1, SubSeqProperties
  <2> QED
    <3>1. /\ Len(s) - (k + 1) + 1 = Len(s) - k
          /\ \A i \in 1..(Len(s) - k) : (k + 1) + i - 1 = k + i
          /\ ~(k + 1 <= Len(s)) => Len(s) - k = 0
      <4> DEFINE n == Len(s)
      <4>1. n \in Nat /\ k \in Nat /\ k <= n
        BY <1>1
      <4> HIDE DEF n
      <4>2. n - (k + 1) + 1 = n - k
        BY <4>1
      <4>3. \A i \in 1..(n - k) : (k + 1) + i - 1 = k + i
        BY <4>1
      <4>4. ~(k + 1 <= n) => n - k = 0
        BY <4>1
      <4> QED
        BY <4>2, <4>3, <4>4 DEF n
    <3>2. Len(Rest(s)) = Len(s) - k
      BY <1>2, <2>2, <3>1
    <3>3. \A i \in 1..(Len(s) - k) : Rest(s)[i] = s[k + i]
      BY <1>2, <2>2, <3>1
    <3> QED
      BY <1>2, <2>2, <3>2, <3>3
<1>6. DOMAIN First(s) = 1..k /\ DOMAIN Rest(s) = 1..(Len(s) - k)
  BY <1>4, <1>5, RangeIs
<1>7. Range(First(s)) \cup Range(Rest(s)) = Range(s)
  <2>1. \A e : e \in Range(First(s)) <=> \E i \in 1..k : s[i] = e
    BY <1>4, RangeIs
  <2>2. \A e : e \in Range(Rest(s)) <=> \E i \in 1..(Len(s) - k) : s[k + i] = e
    BY <1>5, RangeIs
  <2>3. \A e : (\E i \in 1..(Len(s) - k) : s[k + i] = e) <=> \E j \in (k + 1)..Len(s) : s[j] = e
    <3>1. \A i \in 1..(Len(s) - k) : k + i \in (k + 1)..Len(s)
      BY <1>1
    <3>2. \A j \in (k + 1)..Len(s) : j - k \in 1..(Len(s) - k) /\ k + (j - k) = j
      BY <1>1
    <3> QED
      BY <3>1, <3>2
  <2>4. 1..Len(s) = (1..k) \cup ((k + 1)..Len(s))
    BY <1>1
  <2>5. \A e : e \in Range(s) <=> \E i \in 1..Len(s) : s[i] = e
    BY RangeIs
  <2> QED
    BY <2>1, <2>2, <2>3, <2>4, <2>5
<1>8. ASSUME Distinct(s)
      PROVE  /\ Distinct(First(s)) /\ Distinct(Rest(s))
             /\ Range(First(s)) \cap Range(Rest(s)) = {}
  <2>1. Distinct(First(s))
    BY <1>1, <1>4, <1>6, <1>8 DEF Distinct
  <2>2. Distinct(Rest(s))
    <3> SUFFICES ASSUME NEW i \in 1..(Len(s) - k), NEW j \in 1..(Len(s) - k), s[k + i] = s[k + j]
                 PROVE  i = j
      BY <1>5, <1>6 DEF Distinct
    <3>1. k + i \in DOMAIN s /\ k + j \in DOMAIN s
      BY <1>1
    <3>2. k + i = k + j
      BY <1>8, <3>1 DEF Distinct
    <3> QED
      BY <1>1, <3>2
  <2>3. ASSUME NEW i \in 1..k, NEW j \in 1..(Len(s) - k), s[i] = s[k + j]
        PROVE  FALSE
    <3>1. i \in DOMAIN s /\ k + j \in DOMAIN s
      BY <1>1
    <3>2. i = k + j
      BY <1>8, <2>3, <3>1 DEF Distinct
    <3> QED
      BY <1>1, <3>2
  <2>4. Range(First(s)) \cap Range(Rest(s)) = {}
    <3>1. \A e : e \in Range(First(s)) <=> \E i \in 1..k : s[i] = e
      BY <1>4, RangeIs
    <3>2. \A e : e \in Range(Rest(s)) <=> \E i \in 1..(Len(s) - k) : s[k + i] = e
      BY <1>5, RangeIs
    <3> QED
      BY <2>3, <3>1, <3>2
  <2> QED
    BY <2>1, <2>2, <2>4
<1> QED
  BY <1>1, <1>4, <1>5, <1>7, <1>8

-----------------------------------------------------------------------------
(* Parts of steps *)

LEMMA Shapes ==
  ASSUME TypeOK
  PROVE  /\ entries \in Seq(Entries) /\ spool \in Seq(Entries)
         /\ drain.batch \in Seq(Entries) /\ replay.left \in Seq(Entries)
         /\ drain.pc \in {"idle", "scheduled", "inserting", "backoff", "replaying"}
         /\ drain.attempt \in 0..MaxAttempts
         /\ replay.by \in {"nobody", "drain", "flush"}
         /\ InQueue \subseteq Entries /\ InBatch \subseteq Entries /\ InSpool \subseteq Entries
         /\ InReplay \subseteq Entries
<1>1. /\ entries \in Seq(Entries) /\ spool \in Seq(Entries)
      /\ drain.batch \in Seq(Entries) /\ replay.left \in Seq(Entries)
      /\ drain.pc \in {"idle", "scheduled", "inserting", "backoff", "replaying"}
      /\ drain.attempt \in 0..MaxAttempts
      /\ replay.by \in {"nobody", "drain", "flush"}
  BY DEF TypeOK
<1> QED
  BY <1>1, RangeIs DEF InQueue, InBatch, InSpool, InReplay

LEMMA Nothing ==
  /\ NoDrain \in [pc: {"idle", "scheduled", "inserting", "backoff", "replaying"},
                  batch: Seq(Entries), attempt: 0..MaxAttempts]
  /\ NoDrain.pc = "idle" /\ NoDrain.batch = <<>>
  /\ NoReplay \in [by: {"nobody", "drain", "flush"}, left: Seq(Entries)]
  /\ NoReplay.by = "nobody" /\ NoReplay.left = <<>>
  BY QueueAssumption, NoneOfEmpty DEF NoDrain, NoReplay

Drains == [pc: {"idle", "scheduled", "inserting", "backoff", "replaying"},
           batch: Seq(Entries), attempt: 0..MaxAttempts]

\* A drain without a batch, at another place.
LEMMA DrainAt ==
  ASSUME NEW pc \in {"scheduled", "replaying"}
  PROVE  /\ [NoDrain EXCEPT !.pc = pc] \in Drains
         /\ [NoDrain EXCEPT !.pc = pc].pc = pc /\ [NoDrain EXCEPT !.pc = pc].batch = <<>>
<1>1. <<>> \in Seq(Entries) /\ 0 \in 0..MaxAttempts
  BY QueueAssumption, EmptySeq
<1> DEFINE d == [pc |-> pc, batch |-> <<>>, attempt |-> 0]
<1>2. [NoDrain EXCEPT !.pc = pc] = d
  BY DEF NoDrain
<1>3. d \in Drains /\ d.pc = pc /\ d.batch = <<>>
  BY <1>1 DEF Drains
<1> QED
  BY <1>2, <1>3

\* The queue goes into the next batch and what is left.
LEMMA NextBatchTaken ==
  ASSUME TypeOK, NextBatch
  PROVE  /\ entries' \in Seq(Entries) /\ Len(entries') <= MaxQueue /\ drain' \in Drains
         /\ drain'.pc \in {"idle", "inserting"}
         /\ drain'.pc = "idle" => entries' = <<>> /\ drain'.batch = <<>>
         /\ InQueue' \cup InBatch' = InQueue
         /\ Distinct(entries) => /\ Distinct(entries') /\ Distinct(drain'.batch)
                                 /\ InQueue' \cap InBatch' = {}
<1>1. entries \in Seq(Entries) /\ Len(entries) <= MaxQueue /\ MaxQueue \in Nat
  BY QueueAssumption DEF TypeOK
<1>2. /\ First(entries) \in Seq(Entries) /\ Rest(entries) \in Seq(Entries)
      /\ Len(Rest(entries)) <= Len(entries)
      /\ Range(First(entries)) \cup Range(Rest(entries)) = Range(entries)
      /\ Distinct(entries) => /\ Distinct(First(entries)) /\ Distinct(Rest(entries))
                              /\ Range(First(entries)) \cap Range(Rest(entries)) = {}
  BY <1>1, Cut
<1>3. Len(entries) \in Nat /\ Len(Rest(entries)) \in Nat
  BY <1>1, <1>2, RangeIs
<1>4. entries' = Rest(entries) /\ Len(entries') <= MaxQueue
  BY <1>1, <1>2, <1>3 DEF NextBatch
<1>5. CASE entries = <<>>
  <2>1. drain' = NoDrain
    BY <1>5 DEF NextBatch
  <2>2. Range(Rest(entries)) = {}
    BY <1>2, <1>5, NoneOfEmpty
  <2>3. Rest(entries) = <<>>
    <3>1. Len(Rest(entries)) = 0
      BY <1>2, <1>3, <1>5, NoneOfEmpty
    <3> QED
      BY <1>2, <3>1, EmptySeq
  <2> QED
    BY <1>2, <1>4, <1>5, <2>1, <2>3, Nothing, NoneOfEmpty DEF InQueue, InBatch, Drains
<1>6. CASE entries # <<>>
  <2> DEFINE d == [pc |-> "inserting", batch |-> First(entries), attempt |-> 1]
  <2>1. drain' = d
    BY <1>6 DEF NextBatch
  <2>2. d \in Drains /\ d.pc = "inserting" /\ d.batch = First(entries)
    BY <1>2, QueueAssumption DEF Drains
  <2> HIDE DEF d
  <2> QED
    BY <1>2, <1>4, <2>1, <2>2 DEF InQueue, InBatch
<1> QED
  BY <1>5, <1>6

\* An insertion adds a row for each entry of its batch, and nothing else.
LEMMA RowsAdded ==
  ASSUME stored \in [Entries -> Nat], NEW batch, stored' = Inserted(batch)
  PROVE  /\ stored' \in [Entries -> Nat]
         /\ \A e \in Entries : stored'[e] = IF e \in Range(batch) THEN stored[e] + 1 ELSE stored[e]
  BY DEF Inserted

\* A failed one does so only with an unclear answer.
LEMMA FailedRows ==
  ASSUME TypeOK, NEW batch, Failed(batch)
  PROVE  /\ stored' \in [Entries -> Nat]
         /\ faults' \in [crashes: 0..MaxCrashes, unclear: 0..MaxUnclear]
         /\ Clean' => Clean /\ stored' = stored
         /\ \/ stored' = stored
            \/ \A e \in Entries : stored'[e] = IF e \in Range(batch) THEN stored[e] + 1 ELSE stored[e]
<1>0. stored \in [Entries -> Nat] /\ faults \in [crashes: 0..MaxCrashes, unclear: 0..MaxUnclear]
      /\ MaxCrashes \in Nat /\ MaxUnclear \in Nat
  BY QueueAssumption DEF TypeOK
<1>1. CASE stored' = stored /\ faults' = faults
  BY <1>0, <1>1 DEF Clean
<1>2. CASE /\ faults.unclear < MaxUnclear
           /\ stored' = Inserted(batch)
           /\ faults' = [faults EXCEPT !.unclear = @ + 1]
  <2>1. faults.unclear \in Nat /\ faults'.unclear = faults.unclear + 1
        /\ faults' \in [crashes: 0..MaxCrashes, unclear: 0..MaxUnclear]
    BY <1>0, <1>2
  <2>2. ~Clean'
    BY <2>1 DEF Clean
  <2> QED
    BY <1>0, <1>2, <2>1, <2>2, RowsAdded
<1> QED
  BY <1>1, <1>2 DEF Failed

-----------------------------------------------------------------------------
(* The steps *)

\* A drain that was idle is called, with the same batch.
LEMMA Called ==
  ASSUME TypeOK, Phases
  PROVE  /\ Scheduled \in Drains /\ Scheduled.batch = drain.batch
         /\ Scheduled.pc = IF drain.pc = "idle" THEN "scheduled" ELSE drain.pc
<1>1. drain \in Drains
  BY DEF TypeOK, Drains
<1> QED
  BY <1>1, DrainAt DEF Scheduled, Phases

LEMMA EnqueueKeeps ==
  ASSUME QueueInv, NEW e \in Entries, Enqueue(e)
  PROVE  QueueInv'
<1> USE DEF QueueInv
<1>0. /\ entries \in Seq(Entries) /\ spool \in Seq(Entries) /\ Len(entries) <= MaxQueue
      /\ MaxQueue \in Nat /\ stored[e] \in Nat
  BY QueueAssumption DEF TypeOK
<1>1. /\ e \notin offered /\ up /\ offered' = offered \cup {e}
      /\ UNCHANGED <<replay, flush, up, stored, faults>>
  BY DEF Enqueue
<1>2. e \notin InQueue /\ e \notin InBatch /\ e \notin InSpool /\ stored[e] = 0
  BY <1>0, <1>1 DEF Apart
<1>3. /\ Scheduled \in Drains /\ Scheduled.batch = drain.batch
      /\ Scheduled.pc = IF drain.pc = "idle" THEN "scheduled" ELSE drain.pc
  BY Called
<1>4. drain \in Drains
  BY DEF TypeOK, Drains
<1>5. InReplay' = InReplay /\ Clean' = Clean
  BY <1>1 DEF InReplay, Clean
<1>6. CASE /\ MayAppend /\ Spool(<<e>>) /\ entries' = entries
           /\ drain' = drain \/ (Accepting /\ drain' = Scheduled)
  <2>1. /\ spool' \in Seq(Entries) /\ InSpool' = InSpool \cup {e}
        /\ Distinct(spool) => Distinct(spool')
    <3>1. <<e>> \in Seq(Entries) /\ Range(<<e>>) = {e} /\ Distinct(<<e>>)
      BY Single
    <3> QED
      BY <1>0, <1>2, <1>6, <3>1, Joined DEF Spool, InSpool
  <2>2. drain' \in Drains /\ drain'.batch = drain.batch /\ InBatch' = InBatch /\ InQueue' = InQueue
    BY <1>3, <1>4, <1>6 DEF InBatch, InQueue
  <2>3. TypeOK'
    <3>1. offered' \in SUBSET Entries
      BY <1>1 DEF TypeOK
    <3>2. /\ replay' \in [by: {"nobody", "drain", "flush"}, left: Seq(Entries)]
          /\ flush' \in {"no", "waiting", "replaying", "done"} /\ up' \in BOOLEAN
          /\ stored' \in [Entries -> Nat]
          /\ faults' \in [crashes: 0..MaxCrashes, unclear: 0..MaxUnclear]
      BY <1>1 DEF TypeOK
    <3>3. flag' \in BOOLEAN /\ entries' \in Seq(Entries) /\ Len(entries') <= MaxQueue
      BY <1>0, <1>6 DEF Spool
    <3> QED
      BY <2>1, <2>2, <3>1, <3>2, <3>3 DEF TypeOK, Drains
  <2>4. Phases'
    BY <1>1, <1>3, <1>6 DEF Phases, Accepting
  <2>5. Apart'
    BY <1>1, <1>2, <1>5, <1>6, <2>1, <2>2 DEF Apart
  <2>6. Unwritten'
    BY <1>1, <1>2, <1>5, <2>1, <2>2 DEF Unwritten, ToReplay
  <2>7. Replayed' /\ SpoolInSight'
    <3>1. Replayed'
      BY <1>1, <1>6 DEF Replayed, MayAppend
    <3>2. flag' = TRUE
      BY <1>6 DEF Spool
    <3> QED
      BY <3>1, <3>2, Zenon DEF SpoolInSight
  <2> QED
    BY <2>3, <2>4, <2>5, <2>6, <2>7
<1>7. CASE /\ Accepting /\ ~Full /\ entries' = Append(entries, e) /\ drain' = Scheduled
           /\ UNCHANGED <<spool, flag>>
  <2>1. /\ entries' \in Seq(Entries) /\ InQueue' = InQueue \cup {e}
        /\ Distinct(entries) => Distinct(entries')
        /\ Len(entries') <= MaxQueue
    <3>1. Len(entries) \in Nat /\ Len(entries') = Len(entries) + 1
      BY <1>0, <1>7, Added, RangeIs
    <3>2. Len(entries) < MaxQueue
      BY <1>0, <1>7, <3>1 DEF Full
    <3> QED
      BY <1>0, <1>2, <1>7, <3>1, <3>2, Added DEF InQueue
  <2>2. drain'.batch = drain.batch /\ InBatch' = InBatch /\ InSpool' = InSpool
    BY <1>3, <1>7 DEF InBatch, InSpool
  <2>3. TypeOK'
    <3>1. offered' \in SUBSET Entries
      BY <1>1 DEF TypeOK
    <3>2. /\ replay' \in [by: {"nobody", "drain", "flush"}, left: Seq(Entries)]
          /\ flush' \in {"no", "waiting", "replaying", "done"} /\ up' \in BOOLEAN
          /\ stored' \in [Entries -> Nat]
          /\ faults' \in [crashes: 0..MaxCrashes, unclear: 0..MaxUnclear]
      BY <1>1 DEF TypeOK
    <3>3. flag' \in BOOLEAN /\ spool' \in Seq(Entries) /\ drain' \in Drains
      BY <1>0, <1>3, <1>7 DEF TypeOK
    <3> QED
      BY <2>1, <3>1, <3>2, <3>3 DEF TypeOK, Drains
  <2>4. Phases'
    BY <1>1, <1>3, <1>7 DEF Phases, Accepting
  <2>5. Apart'
    BY <1>1, <1>2, <1>5, <1>7, <2>1, <2>2 DEF Apart
  <2>6. Unwritten'
    BY <1>1, <1>2, <1>5, <2>1, <2>2 DEF Unwritten, ToReplay
  <2>7. Replayed' /\ SpoolInSight'
    BY <1>1, <1>5, <1>7, <2>2 DEF Replayed, SpoolInSight
  <2> QED
    BY <2>3, <2>4, <2>5, <2>6, <2>7
<1> QED
  BY <1>6, <1>7 DEF Enqueue

\* The first batch of a drain.
LEMMA StartDrainKeeps ==
  ASSUME QueueInv, StartDrain
  PROVE  QueueInv'
<1> USE DEF QueueInv
<1>1. /\ drain.pc = "scheduled" /\ NextBatch
      /\ UNCHANGED <<spool, flag, replay, flush, up, stored, offered, faults>>
  BY DEF StartDrain
<1>2. /\ entries' \in Seq(Entries) /\ Len(entries') <= MaxQueue /\ drain' \in Drains
      /\ drain'.pc \in {"idle", "inserting"}
      /\ drain'.pc = "idle" => entries' = <<>> /\ drain'.batch = <<>>
      /\ InQueue' \cup InBatch' = InQueue
      /\ Distinct(entries') /\ Distinct(drain'.batch) /\ InQueue' \cap InBatch' = {}
  BY <1>1, NextBatchTaken DEF Apart
<1>3. InSpool' = InSpool /\ InReplay' = InReplay /\ Clean' = Clean /\ ToReplay' = ToReplay
  BY <1>1 DEF InSpool, InReplay, Clean, ToReplay
<1>4. TypeOK'
  BY <1>1, <1>2 DEF TypeOK, Drains
<1>5. Phases'
  BY <1>1, <1>2 DEF Phases
<1>6. Apart'
  BY <1>1, <1>2, <1>3 DEF Apart
<1>7. Unwritten'
  BY <1>1, <1>2, <1>3 DEF Unwritten
<1>8. Replayed' /\ SpoolInSight'
  BY <1>1, <1>3 DEF Replayed, SpoolInSight
<1> QED
  BY <1>4, <1>5, <1>6, <1>7, <1>8

\* While a batch is with the database nothing is replayed.
LEMMA InsertingAlone ==
  ASSUME TypeOK, Phases, drain.pc \in {"inserting", "backoff"}
  PROVE  replay.by = "nobody" /\ flush \in {"no", "waiting"}
  BY DEF TypeOK, Phases

\* Who reads the spool takes all of it.
LEMMA ReplayStarts ==
  ASSUME TypeOK, Apart, NEW who \in {"drain", "flush"}, StartReplay(who)
  PROVE  /\ replay' \in [by: {"nobody", "drain", "flush"}, left: Seq(Entries)]
         /\ replay'.by = IF spool = <<>> THEN "nobody" ELSE who
         /\ Distinct(replay'.left) /\ InReplay' \subseteq InSpool
         /\ replay'.by # "nobody" => InReplay' = InSpool
         /\ flag' = (spool # <<>>) /\ replay.by = "nobody"
<1>1. spool \in Seq(Entries)
  BY DEF TypeOK
<1>2. CASE spool = <<>>
  <2>1. replay' = NoReplay
    BY <1>2 DEF StartReplay
  <2>2. InReplay' = {}
    BY <2>1, Nothing, NoneOfEmpty DEF InReplay
  <2> QED
    BY <1>2, <2>1, <2>2, Nothing, NoneOfEmpty DEF StartReplay
<1>3. CASE spool # <<>>
  <2> DEFINE r == [by |-> who, left |-> spool]
  <2>1. replay' = r
    BY <1>3 DEF StartReplay
  <2>2. r \in [by: {"nobody", "drain", "flush"}, left: Seq(Entries)] /\ r.by = who /\ r.left = spool
    BY <1>1
  <2> HIDE DEF r
  <2> QED
    BY <1>3, <2>1, <2>2 DEF StartReplay, Apart, InReplay, InSpool
<1> QED
  BY <1>2, <1>3

\* A batch is written: its entries get their row, which they did not have.
LEMMA InsertKeeps ==
  ASSUME QueueInv, InsertBatch
  PROVE  QueueInv'
<1> USE DEF QueueInv
<1>1. /\ drain.pc = "inserting" /\ stored' = Inserted(drain.batch)
      /\ UNCHANGED <<spool, flush, up, offered, faults>>
      /\ replay.by = "nobody" /\ flush \in {"no", "waiting"}
  BY InsertingAlone DEF InsertBatch
<1>2. /\ stored' \in [Entries -> Nat]
      /\ \A e \in Entries : stored'[e] = IF e \in InBatch THEN stored[e] + 1 ELSE stored[e]
  BY <1>1, RowsAdded DEF TypeOK, InBatch
<1>3. InSpool' = InSpool /\ Clean' = Clean
  BY <1>1 DEF InSpool, Clean
<1>4. \A e \in Entries : stored[e] \in Nat /\ (stored'[e] > 0 => stored[e] > 0 \/ e \in InBatch)
  BY <1>2 DEF TypeOK
<1>5. ASSUME entries' \in Seq(Entries), Len(entries') <= MaxQueue, drain' \in Drains, flag' \in BOOLEAN,
             replay' \in [by: {"nobody", "drain", "flush"}, left: Seq(Entries)]
      PROVE  TypeOK'
  BY <1>1, <1>2, <1>5 DEF TypeOK, Drains
\* what was in the batch is written once, and nothing else that waits
<1>6. ASSUME InQueue' \cup InBatch' \subseteq InQueue, ToReplay' \subseteq InSpool
      PROVE  Unwritten'
  <2> SUFFICES ASSUME Clean, NEW e \in Entries
               PROVE  /\ stored'[e] <= 1
                      /\ e \in InQueue' \cup InBatch' \cup ToReplay' => stored'[e] = 0
    BY <1>3 DEF Unwritten
  <2>1. /\ stored[e] <= 1
        /\ e \in InQueue \cup InBatch \cup InSpool => stored[e] = 0
    BY <1>1 DEF Unwritten, ToReplay
  <2>2. e \in InQueue \cup InSpool => e \notin InBatch
    BY DEF Apart
  <2> QED
    BY <1>2, <1>4, <1>6, <2>1, <2>2
<1>7. CASE /\ flag /\ entries = <<>> /\ StartReplay("drain")
           /\ drain' = IF spool = <<>> THEN NoDrain ELSE [NoDrain EXCEPT !.pc = "replaying"]
           /\ UNCHANGED entries
  <2>1. /\ replay' \in [by: {"nobody", "drain", "flush"}, left: Seq(Entries)]
        /\ replay'.by = IF spool = <<>> THEN "nobody" ELSE "drain"
        /\ Distinct(replay'.left) /\ InReplay' \subseteq InSpool
        /\ replay'.by # "nobody" => InReplay' = InSpool
        /\ flag' = (spool # <<>>)
    BY <1>7, ReplayStarts
  <2>2. /\ drain' \in Drains /\ drain'.batch = <<>>
        /\ drain'.pc = IF spool = <<>> THEN "idle" ELSE "replaying"
    BY <1>7, Nothing, DrainAt DEF Drains
  <2>3. InQueue' = InQueue /\ InBatch' = {} /\ Distinct(drain'.batch)
    BY <1>7, <2>2, NoneOfEmpty DEF InQueue, InBatch
  <2>4. TypeOK'
    BY <1>5, <1>7, <2>1, <2>2 DEF TypeOK
  <2>5. Phases'
    BY <1>1, <1>7, <2>1, <2>2 DEF Phases
  <2>6. Apart'
    BY <1>1, <1>3, <1>4, <1>7, <2>1, <2>3 DEF Apart
  <2>7. Unwritten'
    BY <1>3, <1>6, <2>1, <2>3 DEF ToReplay
  <2>8. Replayed' /\ SpoolInSight'
    <3>1. Replayed'
      BY <1>3, <2>1 DEF Replayed
    <3>2. flag' = (spool # <<>>) /\ spool' = spool
      BY <1>1, <2>1
    <3> QED
      BY <3>1, <3>2 DEF SpoolInSight
  <2> QED
    BY <2>4, <2>5, <2>6, <2>7, <2>8
<1>8. CASE NextBatch /\ UNCHANGED <<flag, replay>>
  <2>1. /\ entries' \in Seq(Entries) /\ Len(entries') <= MaxQueue /\ drain' \in Drains
        /\ drain'.pc \in {"idle", "inserting"}
        /\ drain'.pc = "idle" => entries' = <<>> /\ drain'.batch = <<>>
        /\ InQueue' \cup InBatch' = InQueue
        /\ Distinct(entries') /\ Distinct(drain'.batch) /\ InQueue' \cap InBatch' = {}
    BY <1>8, NextBatchTaken DEF Apart
  <2>2. InReplay' = InReplay /\ ToReplay' = InSpool
    BY <1>1, <1>3, <1>8 DEF InReplay, ToReplay
  <2>3. TypeOK'
    BY <1>5, <1>8, <2>1 DEF TypeOK
  <2>4. Phases'
    BY <1>1, <1>8, <2>1 DEF Phases
  <2>5. Apart'
    BY <1>1, <1>3, <1>4, <1>8, <2>1, <2>2 DEF Apart
  <2>6. Unwritten'
    BY <1>6, <2>1, <2>2
  <2>7. Replayed' /\ SpoolInSight'
    BY <1>1, <1>8 DEF Replayed, SpoolInSight
  <2> QED
    BY <2>3, <2>4, <2>5, <2>6, <2>7
<1> QED
  BY <1>7, <1>8 DEF InsertBatch

\* A batch fails: it stays, or it goes to the spool.
LEMMA FailKeeps ==
  ASSUME QueueInv, FailBatch
  PROVE  QueueInv'
<1> USE DEF QueueInv
<1>1. /\ drain.pc = "inserting" /\ Failed(drain.batch)
      /\ UNCHANGED <<replay, flush, up, offered>>
      /\ replay.by = "nobody" /\ flush \in {"no", "waiting"}
  BY InsertingAlone DEF FailBatch
<1>2. /\ stored' \in [Entries -> Nat]
      /\ faults' \in [crashes: 0..MaxCrashes, unclear: 0..MaxUnclear]
      /\ Clean' => Clean /\ stored' = stored
      /\ \/ stored' = stored
         \/ \A e \in Entries : stored'[e] = IF e \in InBatch THEN stored[e] + 1 ELSE stored[e]
  BY <1>1, FailedRows DEF InBatch
<1>3. InReplay' = InReplay
  BY <1>1 DEF InReplay
<1>4. \A e \in Entries : stored[e] \in Nat /\ (stored'[e] > 0 => stored[e] > 0 \/ e \in InBatch)
  BY <1>2 DEF TypeOK
<1>5. ASSUME entries' \in Seq(Entries), Len(entries') <= MaxQueue, drain' \in Drains, flag' \in BOOLEAN,
             spool' \in Seq(Entries)
      PROVE  TypeOK'
  BY <1>1, <1>2, <1>5 DEF TypeOK, Drains
<1>6. ASSUME InQueue' \cup InBatch' \cup InSpool' \subseteq InQueue \cup InBatch \cup InSpool
      PROVE  Unwritten'
  BY <1>1, <1>2, <1>6 DEF Unwritten, ToReplay
<1>7. CASE /\ drain' = [drain EXCEPT !.pc = "backoff"]
           /\ UNCHANGED <<entries, spool, flag>>
  <2>1. drain \in Drains
    BY DEF TypeOK, Drains
  <2>2. drain' \in Drains /\ drain'.pc = "backoff" /\ drain'.batch = drain.batch
    BY <1>7, <2>1 DEF Drains
  <2>3. InQueue' = InQueue /\ InBatch' = InBatch /\ InSpool' = InSpool
    BY <1>7, <2>2 DEF InQueue, InBatch, InSpool
  <2>4. TypeOK'
    BY <1>5, <1>7, <2>2 DEF TypeOK
  <2>5. Phases'
    BY <1>1, <1>7, <2>2 DEF Phases
  <2>6. Apart'
    BY <1>1, <1>3, <1>4, <1>7, <2>2, <2>3 DEF Apart
  <2>7. Unwritten'
    BY <1>6, <2>3
  <2>8. Replayed' /\ SpoolInSight'
    BY <1>1, <1>7 DEF Replayed, SpoolInSight
  <2> QED
    BY <2>4, <2>5, <2>6, <2>7, <2>8
<1>8. CASE GiveUp(drain.batch) /\ NextBatch
  <2>1. /\ entries' \in Seq(Entries) /\ Len(entries') <= MaxQueue /\ drain' \in Drains
        /\ drain'.pc \in {"idle", "inserting"}
        /\ drain'.pc = "idle" => entries' = <<>> /\ drain'.batch = <<>>
        /\ InQueue' \cup InBatch' = InQueue
        /\ Distinct(entries') /\ Distinct(drain'.batch) /\ InQueue' \cap InBatch' = {}
    BY <1>8, NextBatchTaken DEF Apart
  <2>2. spool' \in Seq(Entries) /\ InSpool' = InSpool \cup InBatch /\ Distinct(spool')
    BY <1>8, Joined, Shapes DEF GiveUp, Spool, InSpool, InBatch, Apart
  <2>3. flag' = TRUE
    BY <1>8 DEF GiveUp, Spool
  <2>4. TypeOK'
    BY <1>5, <2>1, <2>2, <2>3
  <2>5. Phases'
    BY <1>1, <2>1 DEF Phases
  <2>6. Apart'
    BY <1>1, <1>3, <1>4, <2>1, <2>2 DEF Apart
  <2>7. Unwritten'
    BY <1>6, <2>1, <2>2
  <2>8. Replayed' /\ SpoolInSight'
    <3>1. Replayed'
      BY <1>1 DEF Replayed
    <3> QED
      BY <2>3, <3>1, Zenon DEF SpoolInSight
  <2> QED
    BY <2>4, <2>5, <2>6, <2>7, <2>8
<1> QED
  BY <1>7, <1>8 DEF FailBatch

LEMMA RetryKeeps ==
  ASSUME QueueInv, Retry
  PROVE  QueueInv'
<1> USE DEF QueueInv
<1>1. /\ drain.pc = "backoff" /\ drain \in Drains
      /\ UNCHANGED <<entries, spool, flag, replay, flush, up, stored, offered, faults>>
  BY DEF Retry, TypeOK, Drains
<1>2. Smaller(drain.attempt + 1, MaxAttempts) \in 0..MaxAttempts
  BY <1>1, QueueAssumption DEF Smaller, Drains
<1>3. drain' \in Drains /\ drain'.pc = "inserting" /\ drain'.batch = drain.batch
  BY <1>1, <1>2 DEF Retry, Drains
<1>4. /\ InQueue' = InQueue /\ InBatch' = InBatch /\ InSpool' = InSpool /\ InReplay' = InReplay
      /\ Clean' = Clean /\ ToReplay' = ToReplay
  BY <1>1, <1>3 DEF InQueue, InBatch, InSpool, InReplay, Clean, ToReplay
<1>5. TypeOK'
  BY <1>1, <1>3 DEF TypeOK, Drains
<1>6. Phases'
  BY <1>1, <1>3 DEF Phases
<1>7. Apart' /\ Unwritten' /\ Replayed' /\ SpoolInSight'
  BY <1>1, <1>3, <1>4 DEF Apart, Unwritten, Replayed, SpoolInSight
<1> QED
  BY <1>5, <1>6, <1>7

\* After a replay the drain goes on with its queue, or the shutdown ends; nothing is with
\* the database meanwhile.
LEMMA Resumed ==
  ASSUME TypeOK, Phases, Apart, replay.by # "nobody", Resume, replay' = NoReplay
  PROVE  /\ entries' \in Seq(Entries) /\ Len(entries') <= MaxQueue /\ drain' \in Drains
         /\ flush' \in {"no", "waiting", "replaying", "done"} /\ Phases'
         /\ InQueue' \cup InBatch' = InQueue /\ InBatch = {}
         /\ Distinct(entries') /\ Distinct(drain'.batch) /\ InQueue' \cap InBatch' = {}
<1>1. CASE replay.by = "drain" /\ NextBatch /\ UNCHANGED flush
  <2>1. drain.pc = "replaying" /\ drain.batch = <<>>
    BY <1>1 DEF Phases
  <2>2. /\ entries' \in Seq(Entries) /\ Len(entries') <= MaxQueue /\ drain' \in Drains
        /\ drain'.pc \in {"idle", "inserting"}
        /\ drain'.pc = "idle" => entries' = <<>> /\ drain'.batch = <<>>
        /\ InQueue' \cup InBatch' = InQueue
        /\ Distinct(entries') /\ Distinct(drain'.batch) /\ InQueue' \cap InBatch' = {}
    BY <1>1, NextBatchTaken DEF Apart
  <2>3. InBatch = {}
    BY <2>1, NoneOfEmpty DEF InBatch
  <2>4. flush' = flush /\ flush \in {"no", "waiting", "replaying", "done"}
    BY <1>1 DEF TypeOK
  <2>5. Phases'
    BY <1>1, <2>1, <2>2, <2>4, Nothing DEF Phases
  <2> QED
    BY <2>2, <2>3, <2>4, <2>5
<1>2. CASE replay.by = "flush" /\ flush' = "done" /\ UNCHANGED <<entries, drain>>
  <2>1. drain.pc = "idle" /\ drain.batch = <<>> /\ drain \in Drains
    BY <1>2 DEF Phases, TypeOK, Drains
  <2>2. InBatch = {}
    BY <2>1, NoneOfEmpty DEF InBatch
  <2>3. Phases'
    BY <1>2, <2>1, Nothing DEF Phases
  <2>4. InQueue' = InQueue /\ InBatch' = {}
    BY <1>2, <2>2 DEF InQueue, InBatch
  <2>5. /\ entries' \in Seq(Entries) /\ Len(entries') <= MaxQueue
        /\ Distinct(entries') /\ Distinct(drain'.batch)
    BY <1>2 DEF TypeOK, Apart
  <2> QED
    BY <1>2, <2>1, <2>2, <2>3, <2>4, <2>5
<1> QED
  BY <1>1, <1>2 DEF Resume

\* A batch of the spool is written, and after the last one the file is removed.
LEMMA ReplayKeeps ==
  ASSUME QueueInv, ReplayBatch
  PROVE  QueueInv'
<1> USE DEF QueueInv
<1> DEFINE batch == First(replay.left)
           rest == Rest(replay.left)
<1>1. /\ replay.by # "nobody" /\ stored' = Inserted(batch)
      /\ UNCHANGED <<up, offered, faults>> /\ Clean' = Clean
  BY DEF ReplayBatch, Clean
<1>2. /\ rest \in Seq(Entries)
      /\ Range(batch) \cup Range(rest) = InReplay
      /\ Distinct(rest) /\ Range(batch) \cap Range(rest) = {}
  BY Shapes, Cut DEF Apart, InReplay
<1> HIDE DEF batch, rest
<1>3. /\ stored' \in [Entries -> Nat]
      /\ \A e \in Entries : stored'[e] = IF e \in Range(batch) THEN stored[e] + 1 ELSE stored[e]
  BY <1>1, RowsAdded DEF TypeOK
<1>4. \A e \in Entries : stored[e] \in Nat /\ (stored'[e] > 0 <=> stored[e] > 0 \/ e \in Range(batch))
  BY <1>3 DEF TypeOK
<1>5. \A e \in Entries : stored'[e] > 0 => e \in offered'
  BY <1>1, <1>2, <1>4 DEF Apart
\* what was in the batch is written once, and nothing else that waits
<1>6. ASSUME InQueue' \cup InBatch' \subseteq InQueue \cup InBatch, ToReplay' \subseteq Range(rest)
      PROVE  Unwritten'
  <2> SUFFICES ASSUME Clean, NEW e \in Entries
               PROVE  /\ stored'[e] <= 1
                      /\ e \in InQueue' \cup InBatch' \cup ToReplay' => stored'[e] = 0
    BY <1>1 DEF Unwritten
  <2>1. /\ stored[e] <= 1
        /\ e \in InQueue \cup InBatch \cup InReplay => stored[e] = 0
    BY <1>1 DEF Unwritten, ToReplay
  <2>2. e \in InQueue \cup InBatch => e \notin Range(batch)
    BY <1>2 DEF Apart
  <2> QED
    BY <1>2, <1>3, <1>4, <1>6, <2>1, <2>2
<1>7. CASE /\ rest # <<>> /\ replay' = [replay EXCEPT !.left = rest]
           /\ UNCHANGED <<entries, drain, spool, flag, flush>>
  <2>1. replay \in [by: {"nobody", "drain", "flush"}, left: Seq(Entries)]
    BY DEF TypeOK
  <2>2. /\ replay' \in [by: {"nobody", "drain", "flush"}, left: Seq(Entries)]
        /\ replay'.by = replay.by /\ replay'.left = rest
    BY <1>2, <1>7, <2>1
  <2>3. /\ InQueue' = InQueue /\ InBatch' = InBatch /\ InSpool' = InSpool
        /\ InReplay' = Range(rest) /\ ToReplay' = Range(rest)
    BY <1>1, <1>7, <2>2 DEF InQueue, InBatch, InSpool, InReplay, ToReplay
  <2>4. TypeOK'
    BY <1>1, <1>3, <1>7, <2>2 DEF TypeOK
  <2>5. Phases'
    BY <1>7, <2>2 DEF Phases
  <2>6. Apart'
    BY <1>1, <1>2, <1>5, <1>7, <2>2, <2>3 DEF Apart
  <2>7. Unwritten'
    BY <1>6, <2>3
  <2>8. Replayed'
    <3>1. InSpool \subseteq Entries
      BY Shapes
    <3> QED
      BY <1>1, <1>2, <1>4, <2>3, <3>1 DEF Replayed
  <2>9. SpoolInSight'
    BY <1>1, <1>7 DEF SpoolInSight
  <2> QED
    BY <2>4, <2>5, <2>6, <2>7, <2>8, <2>9
<1>8. CASE rest = <<>> /\ replay' = NoReplay /\ spool' = <<>> /\ flag' = FALSE /\ Resume
  <2>1. /\ entries' \in Seq(Entries) /\ Len(entries') <= MaxQueue /\ drain' \in Drains
        /\ flush' \in {"no", "waiting", "replaying", "done"} /\ Phases'
        /\ InQueue' \cup InBatch' = InQueue /\ InBatch = {}
        /\ Distinct(entries') /\ Distinct(drain'.batch) /\ InQueue' \cap InBatch' = {}
    BY <1>1, <1>8, Resumed
  <2>2. /\ InSpool' = {} /\ InReplay' = {} /\ ToReplay' = {} /\ Distinct(spool') /\ Distinct(replay'.left)
        /\ spool' \in Seq(Entries)
    BY <1>8, Nothing, NoneOfEmpty DEF InSpool, InReplay, ToReplay
  <2>3. TypeOK'
    BY <1>1, <1>3, <1>8, <2>1, <2>2, Nothing DEF TypeOK, Drains
  <2>4. Apart'
    BY <1>1, <1>5, <2>1, <2>2 DEF Apart
  <2>5. Unwritten'
    BY <1>6, <2>1, <2>2
  <2>6. Replayed' /\ SpoolInSight'
    BY <1>8, Nothing DEF Replayed, SpoolInSight
  <2> QED
    BY <2>1, <2>3, <2>4, <2>5, <2>6
<1> QED
  BY <1>7, <1>8 DEF ReplayBatch, rest

\* It fails, and the file keeps what is left.
LEMMA FailReplayKeeps ==
  ASSUME QueueInv, FailReplay
  PROVE  QueueInv'
<1> USE DEF QueueInv
<1>1. /\ replay.by # "nobody" /\ Failed(First(replay.left))
      /\ spool' = replay.left /\ flag' = TRUE /\ replay' = NoReplay /\ Resume
      /\ UNCHANGED <<up, offered>>
  BY DEF FailReplay, Remaining
<1>2. /\ entries' \in Seq(Entries) /\ Len(entries') <= MaxQueue /\ drain' \in Drains
      /\ flush' \in {"no", "waiting", "replaying", "done"} /\ Phases'
      /\ InQueue' \cup InBatch' = InQueue /\ InBatch = {}
      /\ Distinct(entries') /\ Distinct(drain'.batch) /\ InQueue' \cap InBatch' = {}
  BY <1>1, Resumed
<1>3. Range(First(replay.left)) \subseteq InReplay
  BY Shapes, Cut DEF InReplay
<1>4. /\ stored' \in [Entries -> Nat]
      /\ faults' \in [crashes: 0..MaxCrashes, unclear: 0..MaxUnclear]
      /\ Clean' => Clean /\ stored' = stored
      /\ \/ stored' = stored
         \/ \A e \in Entries : stored'[e] = IF e \in Range(First(replay.left)) THEN stored[e] + 1
                                            ELSE stored[e]
  BY <1>1, FailedRows
<1>5. \A e \in Entries : stored[e] \in Nat /\ (stored'[e] > 0 => stored[e] > 0 \/ e \in InReplay)
  BY <1>3, <1>4 DEF TypeOK
<1>6. /\ InSpool' = InReplay /\ InReplay' = {} /\ ToReplay' = InReplay
      /\ Distinct(spool') /\ Distinct(replay'.left) /\ spool' \in Seq(Entries)
  BY <1>1, Nothing, NoneOfEmpty, Shapes DEF InSpool, InReplay, ToReplay, Apart
<1>7. TypeOK'
  BY <1>1, <1>2, <1>4, <1>6, Nothing DEF TypeOK, Drains
<1>8. Apart'
  BY <1>1, <1>2, <1>5, <1>6 DEF Apart
<1>9. Unwritten'
  BY <1>1, <1>2, <1>4, <1>6 DEF Unwritten, ToReplay
<1>10. Replayed'
  BY <1>1, Nothing DEF Replayed
<1>11. SpoolInSight'
  BY <1>1, Zenon DEF SpoolInSight
<1> QED
  BY <1>2, <1>7, <1>8, <1>9, <1>10, <1>11

\* The shutdown is announced.
LEMMA DestroyKeeps ==
  ASSUME QueueInv, OnModuleDestroy
  PROVE  QueueInv'
<1> USE DEF QueueInv
<1>1. /\ flush = "no" /\ flush' = "waiting"
      /\ UNCHANGED <<entries, drain, spool, flag, replay, up, stored, offered, faults>>
  BY DEF OnModuleDestroy
<1>2. /\ InQueue' = InQueue /\ InBatch' = InBatch /\ InSpool' = InSpool /\ InReplay' = InReplay
      /\ Clean' = Clean /\ ToReplay' = ToReplay
  BY <1>1 DEF InQueue, InBatch, InSpool, InReplay, Clean, ToReplay
<1>3. TypeOK' /\ Phases'
  BY <1>1 DEF TypeOK, Phases
<1>4. Apart' /\ Unwritten' /\ Replayed' /\ SpoolInSight'
  BY <1>1, <1>2 DEF Apart, Unwritten, Replayed, SpoolInSight
<1> QED
  BY <1>3, <1>4

\* The shutdown looks at the file once the drain has ended.
LEMMA FlushKeeps ==
  ASSUME QueueInv, Flush
  PROVE  QueueInv'
<1> USE DEF QueueInv
<1>1. /\ flush = "waiting" /\ drain.pc = "idle"
      /\ UNCHANGED <<entries, drain, spool, up, stored, offered, faults>>
      /\ replay.by = "nobody"
  BY DEF Flush, Phases, TypeOK
<1>2. InQueue' = InQueue /\ InBatch' = InBatch /\ InSpool' = InSpool /\ Clean' = Clean
  BY <1>1 DEF InQueue, InBatch, InSpool, Clean
<1>3. CASE /\ flag /\ StartReplay("flush")
           /\ flush' = IF spool = <<>> THEN "done" ELSE "replaying"
  <2>1. /\ replay' \in [by: {"nobody", "drain", "flush"}, left: Seq(Entries)]
        /\ replay'.by = IF spool = <<>> THEN "nobody" ELSE "flush"
        /\ Distinct(replay'.left) /\ InReplay' \subseteq InSpool
        /\ replay'.by # "nobody" => InReplay' = InSpool
        /\ flag' = (spool # <<>>)
    BY <1>3, ReplayStarts
  <2>2. TypeOK'
    BY <1>1, <1>3, <2>1 DEF TypeOK
  <2>3. Phases'
    BY <1>1, <1>3, <2>1 DEF Phases
  <2>4. Apart'
    BY <1>1, <1>2, <2>1 DEF Apart
  <2>5. Unwritten'
    BY <1>1, <1>2, <2>1 DEF Unwritten, ToReplay
  <2>6. Replayed'
    BY <1>2, <2>1 DEF Replayed
  <2>7. SpoolInSight'
    BY <1>1, <2>1, Zenon DEF SpoolInSight
  <2> QED
    BY <2>2, <2>3, <2>4, <2>5, <2>6, <2>7
<1>4. CASE flush' = "done" /\ UNCHANGED <<replay, flag>>
  <2>1. InReplay' = InReplay /\ ToReplay' = ToReplay
    BY <1>2, <1>4 DEF InReplay, ToReplay
  <2>2. TypeOK' /\ Phases'
    BY <1>1, <1>4 DEF TypeOK, Phases
  <2>3. Apart' /\ Unwritten' /\ Replayed' /\ SpoolInSight'
    BY <1>1, <1>2, <1>4, <2>1 DEF Apart, Unwritten, Replayed, SpoolInSight
  <2> QED
    BY <2>2, <2>3
<1> QED
  BY <1>3, <1>4 DEF Flush

\* Without its memory the process keeps what is on the disk and in the table.
LEMMA StopKeeps ==
  ASSUME QueueInv, Stop, stored' \in [Entries -> Nat],
         faults' \in [crashes: 0..MaxCrashes, unclear: 0..MaxUnclear],
         \A e \in Entries : stored'[e] > 0 => stored[e] > 0 \/ e \in offered,
         Clean' => Clean /\ stored' = stored /\ replay.by = "nobody"
  PROVE  QueueInv'
<1> USE DEF QueueInv
<1>1. /\ up' = FALSE /\ entries' = <<>> /\ drain' = NoDrain /\ replay' = NoReplay
      /\ flush' = "no" /\ flag' = FALSE
      /\ spool' = spool /\ offered' = offered
  BY DEF Stop
<1>2. /\ InQueue' = {} /\ InBatch' = {} /\ InReplay' = {} /\ InSpool' = InSpool
      /\ ToReplay' = InSpool
  BY <1>1, Nothing, NoneOfEmpty DEF InQueue, InBatch, InReplay, InSpool, ToReplay
<1>3. TypeOK'
  <2>1. entries' \in Seq(Entries) /\ Len(entries') <= MaxQueue
    BY <1>1, NoneOfEmpty, QueueAssumption
  <2>2. drain' \in Drains /\ replay' \in [by: {"nobody", "drain", "flush"}, left: Seq(Entries)]
    BY <1>1, Nothing DEF Drains
  <2> QED
    BY <1>1, <2>1, <2>2 DEF TypeOK, Drains
<1>4. Phases'
  BY <1>1, Nothing DEF Phases
<1>5. Apart'
  <2>1. Distinct(entries') /\ Distinct(drain'.batch) /\ Distinct(replay'.left)
    BY <1>1, Nothing, NoneOfEmpty
  <2>2. \A e \in Entries : stored'[e] > 0 => e \in offered'
    BY <1>1 DEF Apart
  <2> QED
    BY <1>1, <1>2, <2>1, <2>2 DEF Apart
<1>6. Unwritten'
  BY <1>2 DEF Unwritten, ToReplay
<1>7. Replayed' /\ SpoolInSight'
  BY <1>1, Nothing DEF Replayed, SpoolInSight
<1> QED
  BY <1>3, <1>4, <1>5, <1>6, <1>7

LEMMA ExitKeeps ==
  ASSUME QueueInv, Exit
  PROVE  QueueInv'
<1>1. Stop /\ flush = "done" /\ stored' = stored /\ faults' = faults
  BY DEF Exit
<1>2. replay.by = "nobody"
  BY <1>1 DEF QueueInv, TypeOK, Phases
<1>3. stored' \in [Entries -> Nat] /\ faults' \in [crashes: 0..MaxCrashes, unclear: 0..MaxUnclear]
  BY <1>1 DEF QueueInv, TypeOK
<1>4. Clean' = Clean
  BY <1>1 DEF Clean
<1> QED
  BY <1>1, <1>2, <1>3, <1>4, StopKeeps

\* What a crash leaves: the rows there were, and perhaps those of the insertion in flight.
LEMMA CrashRows ==
  ASSUME TypeOK, Crash
  PROVE  /\ stored' \in [Entries -> Nat]
         /\ faults' \in [crashes: 0..MaxCrashes, unclear: 0..MaxUnclear] /\ ~Clean'
         /\ \A e \in Entries :
              /\ stored[e] > 0 => stored'[e] > 0
              /\ stored'[e] > 0 => stored[e] > 0 \/ e \in InBatch \/ e \in InReplay
<1>0. /\ stored \in [Entries -> Nat] /\ faults \in [crashes: 0..MaxCrashes, unclear: 0..MaxUnclear]
      /\ MaxCrashes \in Nat /\ MaxUnclear \in Nat
  BY QueueAssumption DEF TypeOK
<1>1. faults.crashes < MaxCrashes /\ faults' = [faults EXCEPT !.crashes = @ + 1]
  BY DEF Crash
<1>2. faults.crashes \in Nat /\ faults'.crashes = faults.crashes + 1
      /\ faults' \in [crashes: 0..MaxCrashes, unclear: 0..MaxUnclear]
  BY <1>0, <1>1
<1>3. ~Clean'
  BY <1>2 DEF Clean
<1>4. CASE stored' = stored
  BY <1>0, <1>2, <1>3, <1>4
<1>5. ASSUME NEW batch, stored' = Inserted(batch), Range(batch) \subseteq InBatch \cup InReplay
      PROVE  /\ stored' \in [Entries -> Nat]
             /\ \A e \in Entries :
                  /\ stored[e] > 0 => stored'[e] > 0
                  /\ stored'[e] > 0 => stored[e] > 0 \/ e \in InBatch \/ e \in InReplay
  <2>1. /\ stored' \in [Entries -> Nat]
        /\ \A e \in Entries : stored'[e] = IF e \in Range(batch) THEN stored[e] + 1 ELSE stored[e]
    BY <1>0, <1>5, RowsAdded
  <2> QED
    BY <1>0, <1>5, <2>1
<1>6. Range(First(replay.left)) \subseteq InReplay
  BY Shapes, Cut DEF InReplay
<1>7. CASE stored' = Inserted(drain.batch)
  BY <1>2, <1>3, <1>5, <1>7 DEF InBatch
<1>8. CASE stored' = Inserted(First(replay.left))
  BY <1>2, <1>3, <1>5, <1>6, <1>8
<1> QED
  BY <1>4, <1>7, <1>8 DEF Crash

LEMMA CrashKeeps ==
  ASSUME QueueInv, Crash
  PROVE  QueueInv'
<1>1. TypeOK /\ InBatch \subseteq offered /\ InReplay \subseteq offered
  BY DEF QueueInv, Apart
<1>2. Stop
  BY DEF Crash
<1> QED
  BY <1>1, <1>2, CrashRows, StopKeeps

\* The new process looks whether there is something in the file.
LEMMA RestartKeeps ==
  ASSUME QueueInv, Restart
  PROVE  QueueInv'
<1> USE DEF QueueInv
<1>1. /\ up' = TRUE /\ flag' = (spool # <<>>)
      /\ UNCHANGED <<entries, drain, spool, replay, flush, stored, offered, faults>>
  BY DEF Restart, FlagAtStart
<1>2. /\ InQueue' = InQueue /\ InBatch' = InBatch /\ InSpool' = InSpool /\ InReplay' = InReplay
      /\ Clean' = Clean /\ ToReplay' = ToReplay
  BY <1>1 DEF InQueue, InBatch, InSpool, InReplay, Clean, ToReplay
<1>3. TypeOK' /\ Phases'
  BY <1>1 DEF TypeOK, Phases
<1>4. Apart' /\ Unwritten' /\ Replayed'
  BY <1>1, <1>2 DEF Apart, Unwritten, Replayed
<1>5. SpoolInSight'
  BY <1>1, Zenon DEF SpoolInSight
<1> QED
  BY <1>3, <1>4, <1>5

LEMMA NothingKeeps ==
  ASSUME QueueInv, UNCHANGED vars
  PROVE  QueueInv'
<1> USE DEF QueueInv
<1>1. UNCHANGED <<entries, drain, spool, flag, replay, flush, up, stored, offered, faults>>
  BY DEF vars
<1>2. /\ InQueue' = InQueue /\ InBatch' = InBatch /\ InSpool' = InSpool /\ InReplay' = InReplay
      /\ Clean' = Clean /\ ToReplay' = ToReplay
  BY <1>1 DEF InQueue, InBatch, InSpool, InReplay, Clean, ToReplay
<1>3. TypeOK' /\ Phases'
  BY <1>1 DEF TypeOK, Phases
<1>4. Apart' /\ Unwritten' /\ Replayed' /\ SpoolInSight'
  BY <1>1, <1>2 DEF Apart, Unwritten, Replayed, SpoolInSight
<1> QED
  BY <1>3, <1>4

LEMMA StepKeeps ==
  ASSUME QueueInv, [Next]_vars
  PROVE  QueueInv'
<1>1. CASE \E e \in Entries : Enqueue(e)
  BY <1>1, EnqueueKeeps
<1>2. CASE DrainStep
  BY <1>2, StartDrainKeeps, InsertKeeps, FailKeeps, RetryKeeps DEF DrainStep
<1>3. CASE ReplayStep
  BY <1>3, ReplayKeeps, FailReplayKeeps DEF ReplayStep
<1> QED
  BY <1>1, <1>2, <1>3, DestroyKeeps, FlushKeeps, ExitKeeps, CrashKeeps, RestartKeeps,
     NothingKeeps DEF Next

LEMMA QueueStarts ==
  ASSUME Init
  PROVE  QueueInv
<1> USE DEF QueueInv
<1>1. /\ entries = <<>> /\ drain = NoDrain /\ spool = <<>> /\ flag = FALSE /\ replay = NoReplay
      /\ flush = "no" /\ up = TRUE /\ offered = {}
      /\ stored = [e \in Entries |-> 0] /\ faults = [crashes |-> 0, unclear |-> 0]
  BY DEF Init
<1>2. InQueue = {} /\ InBatch = {} /\ InReplay = {} /\ InSpool = {} /\ ToReplay = {}
  BY <1>1, Nothing, NoneOfEmpty DEF InQueue, InBatch, InReplay, InSpool, ToReplay
<1>3. TypeOK
  <2>1. /\ entries \in Seq(Entries) /\ Len(entries) <= MaxQueue /\ spool \in Seq(Entries)
        /\ drain \in Drains /\ replay \in [by: {"nobody", "drain", "flush"}, left: Seq(Entries)]
    BY <1>1, Nothing, NoneOfEmpty, QueueAssumption DEF Drains
  <2>2. stored \in [Entries -> Nat] /\ faults \in [crashes: 0..MaxCrashes, unclear: 0..MaxUnclear]
    BY <1>1, QueueAssumption
  <2> QED
    BY <1>1, <2>1, <2>2 DEF TypeOK, Drains
<1>4. Phases /\ Replayed /\ SpoolInSight
  BY <1>1, Nothing DEF Phases, Replayed, SpoolInSight
<1>5. \A e \in Entries : stored[e] = 0
  BY <1>1
<1>6. Apart /\ Unwritten
  <2>1. Distinct(entries) /\ Distinct(drain.batch) /\ Distinct(spool) /\ Distinct(replay.left)
    BY <1>1, Nothing, NoneOfEmpty
  <2> QED
    BY <1>2, <1>5, <2>1 DEF Apart, Unwritten
<1> QED
  BY <1>3, <1>4, <1>6

LEMMA QueueInductive == Spec => []QueueInv
<1>1. Init => QueueInv
  BY QueueStarts
<1>2. QueueInv /\ [Next]_vars => QueueInv'
  BY StepKeeps
<1> QED
  BY <1>1, <1>2, PTL DEF Spec

-----------------------------------------------------------------------------
(* Every entry is written, held or kept: AuditLog *)

Recorded == {e \in Entries : stored[e] > 0}

LEMMA HeldIs == Held = InQueue \cup InBatch
  BY DEF Held, InQueue, InBatch

\* A step that moves entries within the memory, and writes nothing, is none of AuditLog.
LEMMA Unseen ==
  ASSUME Held' = Held, InSpool' = InSpool, stored' = stored
  PROVE  UNCHANGED Log!logVars
<1>1. Recorded' = Recorded
  BY DEF Recorded
<1> QED
  BY <1>1 DEF Log!logVars, InSpool, Recorded

\* What was inserted is recorded.
LEMMA RecordedRows ==
  ASSUME TypeOK, NEW S \in SUBSET Entries,
         \A e \in Entries : stored'[e] = IF e \in S THEN stored[e] + 1 ELSE stored[e]
  PROVE  Recorded' = Recorded \cup S
<1>1. \A e \in Entries : stored[e] \in Nat
  BY DEF TypeOK
<1>2. \A e \in Entries : stored'[e] > 0 <=> stored[e] > 0 \/ e \in S
  BY <1>1
<1> QED
  BY <1>2 DEF Recorded

LEMMA PersistIs ==
  ASSUME NEW S \in SUBSET Entries, S \subseteq Held \cup InSpool, Recorded' = Recorded \cup S,
         Held' \in {Held, Held \ S}, InSpool' \subseteq InSpool, InSpool \ Recorded' \subseteq InSpool'
  PROVE  Log!Next
<1>1. Log!Persist(S)
  BY DEF Log!Persist, InSpool, Recorded
<1> QED
  BY <1>1 DEF Log!Next

LEMMA KeepIs ==
  ASSUME NEW S \in SUBSET Entries, S \subseteq Held, Held' = Held \ S, InSpool' = InSpool \cup S,
         Recorded' \in {Recorded, Recorded \cup S}
  PROVE  Log!Next
<1>1. Log!Keep(S)
  BY DEF Log!Keep, InSpool, Recorded
<1> QED
  BY <1>1 DEF Log!Next

LEMMA LoseIs ==
  ASSUME Held' = {}, InSpool' = InSpool, Recorded \subseteq Recorded',
         Recorded' \subseteq Recorded \cup Held \cup InSpool
  PROVE  Log!Next
<1>1. Log!Lose
  BY DEF Log!Lose, InSpool, Recorded
<1> QED
  BY <1>1 DEF Log!Next

LEMMA EnqueueAccepts ==
  ASSUME QueueInv, NEW e \in Entries, Enqueue(e)
  PROVE  Log!Next
<1> USE DEF QueueInv
<1>0. entries \in Seq(Entries) /\ spool \in Seq(Entries) /\ stored[e] \in Nat
  BY DEF TypeOK
<1>1. e \notin offered /\ stored' = stored
  BY DEF Enqueue
<1>2. e \notin Held /\ e \notin InSpool /\ e \notin Recorded
  BY <1>0, <1>1, HeldIs DEF Apart, Recorded
<1>3. Scheduled.batch = drain.batch
  BY Called
<1>4. CASE Spool(<<e>>) /\ entries' = entries /\ (drain' = drain \/ drain' = Scheduled)
  <2>1. InSpool' = InSpool \cup {e}
    BY <1>0, <1>4, Single, Joined DEF Spool, InSpool
  <2>2. Held' = Held
    BY <1>3, <1>4 DEF Held
  <2>3. Log!Accept(e)
    BY <1>1, <1>2, <2>1, <2>2 DEF Log!Accept, InSpool, Recorded
  <2> QED
    BY <2>3 DEF Log!Next
<1>5. CASE entries' = Append(entries, e) /\ drain' = Scheduled /\ spool' = spool
  <2>1. Held' = Held \cup {e}
    BY <1>0, <1>3, <1>5, Added DEF Held
  <2>2. Log!Accept(e)
    BY <1>1, <1>2, <1>5, <2>1 DEF Log!Accept, InSpool, Recorded
  <2> QED
    BY <2>2 DEF Log!Next
<1> QED
  BY <1>4, <1>5 DEF Enqueue

\* The next batch stays in memory.
LEMMA NextBatchHeld ==
  ASSUME QueueInv, NextBatch
  PROVE  Held' = InQueue
<1>1. InQueue' \cup InBatch' = InQueue
  BY NextBatchTaken DEF QueueInv
<1>2. Held' = InQueue' \cup InBatch'
  BY DEF Held, InQueue, InBatch
<1> QED
  BY <1>1, <1>2

LEMMA StartDrainUnseen ==
  ASSUME QueueInv, StartDrain
  PROVE  UNCHANGED Log!logVars
<1>1. NextBatch /\ spool' = spool /\ stored' = stored /\ drain.pc = "scheduled"
  BY DEF StartDrain
<1>2. InBatch = {}
  BY <1>1, NoneOfEmpty DEF QueueInv, Phases, InBatch
<1>3. Held' = Held /\ InSpool' = InSpool
  BY <1>1, <1>2, HeldIs, NextBatchHeld DEF InSpool
<1> QED
  BY <1>1, <1>3, Unseen

LEMMA InsertPersists ==
  ASSUME QueueInv, InsertBatch
  PROVE  Log!Next
<1> USE DEF QueueInv
<1>1. stored' = Inserted(drain.batch) /\ spool' = spool
  BY DEF InsertBatch
<1>2. Recorded' = Recorded \cup InBatch /\ InBatch \in SUBSET Entries
  <2>1. \A e \in Entries : stored'[e] = IF e \in InBatch THEN stored[e] + 1 ELSE stored[e]
    BY <1>1, RowsAdded DEF TypeOK, InBatch
  <2>2. InBatch \in SUBSET Entries
    BY Shapes
  <2> QED
    BY <2>1, <2>2, RecordedRows
<1>3. Held' = InQueue
  <2>1. CASE NextBatch
    BY <2>1, NextBatchHeld
  <2>2. CASE /\ drain' = IF spool = <<>> THEN NoDrain ELSE [NoDrain EXCEPT !.pc = "replaying"]
             /\ entries' = entries
    <3>1. drain'.batch = <<>>
      BY <2>2, Nothing, DrainAt
    <3> QED
      BY <2>2, <3>1, NoneOfEmpty DEF Held, InQueue
  <2> QED
    BY <2>1, <2>2 DEF InsertBatch
<1>4. Held' = Held \ InBatch
  BY <1>3, HeldIs DEF Apart
<1>5. InSpool' = InSpool
  BY <1>1 DEF InSpool
<1> QED
  BY <1>2, <1>4, <1>5, HeldIs, PersistIs

LEMMA FailKeepsInLog ==
  ASSUME QueueInv, FailBatch
  PROVE  Log!Next \/ UNCHANGED Log!logVars
<1> USE DEF QueueInv
<1>1. Failed(drain.batch) /\ InBatch \in SUBSET Entries /\ InBatch \subseteq Held
  BY Shapes, HeldIs DEF FailBatch
<1>2. \/ stored' = stored
      \/ \A e \in Entries : stored'[e] = IF e \in InBatch THEN stored[e] + 1 ELSE stored[e]
  BY <1>1, FailedRows DEF InBatch
<1>3. stored' = stored \/ Recorded' = Recorded \cup InBatch
  BY <1>1, <1>2, RecordedRows
<1>4. stored' = stored => Recorded' = Recorded
  BY DEF Recorded
<1>5. CASE drain' = [drain EXCEPT !.pc = "backoff"] /\ UNCHANGED <<entries, spool, flag>>
  <2>1. drain \in Drains
    BY DEF TypeOK, Drains
  <2>2. drain'.batch = drain.batch
    BY <1>5, <2>1 DEF Drains
  <2>3. Held' = Held /\ InSpool' = InSpool
    BY <1>5, <2>2 DEF Held, InSpool
  <2> QED
    BY <1>1, <1>3, <2>3, Unseen, PersistIs
<1>6. CASE GiveUp(drain.batch) /\ NextBatch
  <2>1. InSpool' = InSpool \cup InBatch
    BY <1>6, Joined, Shapes DEF GiveUp, Spool, InSpool, InBatch
  <2>2. Held' = Held \ InBatch
    BY <1>6, NextBatchHeld, HeldIs DEF Apart
  <2> QED
    BY <1>1, <1>3, <1>4, <2>1, <2>2, KeepIs
<1> QED
  BY <1>5, <1>6 DEF FailBatch

LEMMA RetryUnseen ==
  ASSUME QueueInv, Retry
  PROVE  UNCHANGED Log!logVars
<1>1. drain \in Drains /\ UNCHANGED <<entries, spool, stored>>
  BY DEF QueueInv, TypeOK, Drains, Retry
<1>2. drain'.batch = drain.batch
  BY <1>1 DEF Retry, Drains
<1>3. Held' = Held /\ InSpool' = InSpool
  BY <1>1, <1>2 DEF Held, InSpool
<1> QED
  BY <1>1, <1>3, Unseen

\* Going on after a replay moves entries only within the memory.
LEMMA ResumeHeld ==
  ASSUME QueueInv, replay.by # "nobody", Resume, replay' = NoReplay
  PROVE  Held' = Held
<1>1. InQueue' \cup InBatch' = InQueue /\ InBatch = {}
  BY Resumed DEF QueueInv
<1>2. Held' = InQueue' \cup InBatch'
  BY DEF Held, InQueue, InBatch
<1> QED
  BY <1>1, <1>2, HeldIs

LEMMA ReplayPersists ==
  ASSUME QuietReplay, QueueInv, ReplayBatch
  PROVE  Log!Next
<1> USE DEF QueueInv
<1> DEFINE batch == Range(First(replay.left))
           rest == Rest(replay.left)
<1>1. replay.by # "nobody" /\ stored' = Inserted(First(replay.left))
  BY DEF ReplayBatch
<1>2. /\ rest \in Seq(Entries) /\ batch \cup Range(rest) = InReplay
      /\ batch \in SUBSET Entries /\ batch \subseteq InSpool
  BY Shapes, Cut DEF Apart, InReplay
<1>3. \A e \in Entries : stored'[e] = IF e \in batch THEN stored[e] + 1 ELSE stored[e]
  BY <1>1, RowsAdded DEF TypeOK
<1> HIDE DEF batch, rest
<1>4. Recorded' = Recorded \cup batch
  BY <1>2, <1>3, RecordedRows
<1>5. \A e \in InSpool : e \in InReplay \/ e \in Recorded
  <2>1. InSpool \subseteq Entries
    BY Shapes
  <2> QED
    BY <1>1, <2>1 DEF Replayed, Recorded
<1>6. CASE rest # <<>> /\ UNCHANGED <<entries, drain, spool>>
  <2>1. Held' = Held /\ InSpool' = InSpool
    BY <1>6 DEF Held, InSpool
  <2> QED
    BY <1>2, <1>4, <2>1, PersistIs
<1>7. CASE rest = <<>> /\ replay' = NoReplay /\ spool' = <<>> /\ Resume
  <2>1. Held' = Held /\ InSpool' = {} /\ Range(rest) = {}
    BY <1>1, <1>7, ResumeHeld, NoneOfEmpty DEF InSpool
  <2> QED
    BY <1>2, <1>4, <1>5, <2>1, PersistIs
<1> QED
  BY <1>6, <1>7 DEF ReplayBatch, rest

LEMMA FailReplayPersists ==
  ASSUME QuietReplay, QueueInv, FailReplay
  PROVE  Log!Next
<1> USE DEF QueueInv
<1> DEFINE batch == Range(First(replay.left))
<1>1. /\ replay.by # "nobody" /\ Failed(First(replay.left))
      /\ spool' = replay.left /\ replay' = NoReplay /\ Resume
  BY DEF FailReplay, Remaining
<1>2. batch \in SUBSET Entries /\ batch \subseteq InSpool
  BY Shapes, Cut DEF Apart, InReplay
<1>3. \/ stored' = stored
      \/ \A e \in Entries : stored'[e] = IF e \in batch THEN stored[e] + 1 ELSE stored[e]
  BY <1>1, FailedRows
<1> HIDE DEF batch
<1>4. Recorded' = Recorded \/ Recorded' = Recorded \cup batch
  BY <1>2, <1>3, RecordedRows DEF Recorded
<1>5. \A e \in InSpool : e \in InReplay \/ e \in Recorded
  <2>1. InSpool \subseteq Entries
    BY Shapes
  <2> QED
    BY <1>1, <2>1 DEF Replayed, Recorded
<1>6. Held' = Held /\ InSpool' = InReplay /\ InReplay \subseteq InSpool
  BY <1>1, ResumeHeld DEF InSpool, InReplay, Apart
<1>7. \E S \in {{}, batch} : Recorded' = Recorded \cup S
  BY <1>4
<1> QED
  BY <1>2, <1>5, <1>6, <1>7, PersistIs

LEMMA CrashLoses ==
  ASSUME QueueInv, Crash
  PROVE  Log!Next
<1>1. entries' = <<>> /\ drain'.batch = <<>> /\ spool' = spool
  BY Nothing DEF Crash, Stop
<1>2. Held' = {} /\ InSpool' = InSpool
  BY <1>1, NoneOfEmpty DEF Held, InSpool
<1>3. \A e \in Entries :
        /\ stored[e] > 0 => stored'[e] > 0
        /\ stored'[e] > 0 => stored[e] > 0 \/ e \in InBatch \/ e \in InReplay
  BY CrashRows DEF QueueInv
<1>4. InReplay \subseteq InSpool
  BY DEF QueueInv, Apart
<1>5. Recorded \subseteq Recorded' /\ Recorded' \subseteq Recorded \cup InBatch \cup InReplay
  BY <1>3 DEF Recorded
<1> QED
  BY <1>2, <1>4, <1>5, HeldIs, LoseIs

\* The shutdown and the start of the process hold and keep what they find.
LEMMA LifeUnseen ==
  ASSUME QueueInv, OnModuleDestroy \/ Flush \/ Exit \/ Restart \/ UNCHANGED vars
  PROVE  UNCHANGED Log!logVars
<1>1. CASE UNCHANGED <<entries, drain, spool, stored>>
  <2>1. Held' = Held /\ InSpool' = InSpool /\ stored' = stored
    BY <1>1 DEF Held, InSpool
  <2> QED
    BY <2>1, Unseen
<1>2. CASE Exit
  <2>1. flush = "done" /\ entries' = <<>> /\ drain'.batch = <<>> /\ spool' = spool /\ stored' = stored
    BY <1>2, Nothing DEF Exit, Stop
  <2>2. entries = <<>> /\ drain.batch = <<>>
    BY <2>1 DEF QueueInv, Phases
  <2>3. Held' = Held /\ InSpool' = InSpool
    BY <2>1, <2>2 DEF Held, InSpool
  <2> QED
    BY <2>1, <2>3, Unseen
<1> QED
  BY <1>1, <1>2 DEF OnModuleDestroy, Flush, Restart, vars

LEMMA StepInLog ==
  ASSUME QuietReplay, QueueInv, [Next]_vars
  PROVE  [Log!Next]_Log!logVars
<1>1. CASE \E e \in Entries : Enqueue(e)
  BY <1>1, EnqueueAccepts
<1>2. CASE DrainStep
  BY <1>2, StartDrainUnseen, InsertPersists, FailKeepsInLog, RetryUnseen DEF DrainStep
<1>3. CASE ReplayStep
  BY <1>3, ReplayPersists, FailReplayPersists DEF ReplayStep
<1>4. CASE Crash
  BY <1>4, CrashLoses
<1> QED
  BY <1>1, <1>2, <1>3, <1>4, LifeUnseen DEF Next

LEMMA InitInLog ==
  ASSUME Init
  PROVE  Log!Init
<1>1. entries = <<>> /\ drain.batch = <<>> /\ spool = <<>> /\ stored = [e \in Entries |-> 0]
  BY Nothing DEF Init
<1>2. Held = {} /\ InSpool = {}
  BY <1>1, NoneOfEmpty DEF Held, InSpool
<1>3. \A e \in Entries : stored[e] = 0
  BY <1>1
<1>4. Recorded = {}
  BY <1>3 DEF Recorded
<1> QED
  BY <1>2, <1>4 DEF Log!Init, InSpool, Recorded

-----------------------------------------------------------------------------
(* Theorems *)

\* The state keeps its form, the queue within its size (enqueue, drainQueue, replaySpool).
THEOREM QueueTyped == Spec => []TypeOK
<1>1. QueueInv => TypeOK
  BY DEF QueueInv
<1> QED
  BY <1>1, QueueInductive, PTL

\* Without a crash and without an unclear answer of the database no entry gets a second
\* row, by whatever way of batches, retries, spool and replays it went.
THEOREM NothingTwice == Spec => []NoDuplicates
<1>1. QueueInv => NoDuplicates
  BY DEF QueueInv, Unwritten, NoDuplicates, Clean
<1> QED
  BY <1>1, QueueInductive, PTL

\* A running process knows of the entries in its spool file (hasSpooledEntries).
THEOREM SpoolAlwaysInSight == Spec => []SpoolInSight
<1>1. QueueInv => SpoolInSight
  BY DEF QueueInv
<1> QED
  BY <1>1, QueueInductive, PTL

\* Where nothing is appended to the spool while it is replayed, the service does what
\* AuditLog says: an entry is held, kept or written until a crash loses what was held.
THEOREM QueueIsAuditLog ==
  ASSUME QuietReplay
  PROVE  Spec => ImplementsAuditLog
<1>1. Init => Log!Init
  BY InitInLog
<1>2. QueueInv /\ [Next]_vars => [Log!Next]_Log!logVars
  BY StepInLog
<1> QED
  BY <1>1, <1>2, QueueInductive, PTL DEF Spec, ImplementsAuditLog, Log!Spec
=============================================================================
