------------------------------ MODULE AuditLog ------------------------------
(***************************************************************************)
(* What the automatic audit promises about each entry it is handed: it is  *)
(* held in memory or kept on disk until it is written to the SystemLog     *)
(* table.  Only a crash loses entries, and only those that were held.      *)
(***************************************************************************)
CONSTANT Entries

VARIABLES
  held,     \* entries that are only in memory
  kept,     \* entries that a restart finds again
  written   \* entries with a row in SystemLog

logVars == <<held, kept, written>>

Init == held = {} /\ kept = {} /\ written = {}

\* A new entry is taken over, in memory or at once on disk.
Accept(e) ==
  /\ e \notin held \cup kept \cup written
  /\ \/ held' = held \cup {e} /\ kept' = kept
     \/ kept' = kept \cup {e} /\ held' = held
  /\ written' = written

\* Entries are written.  Those on disk may stay there longer, and one that is
\* neither written nor being written does stay.
Persist(S) ==
  /\ S \subseteq held \cup kept
  /\ written' = written \cup S
  /\ held' \in {held, held \ S}
  /\ kept' \subseteq kept /\ kept \ written' \subseteq kept'

\* Entries in memory are put on disk; the database, asked in vain, may have
\* written them all the same.
Keep(S) ==
  /\ S \subseteq held
  /\ held' = held \ S /\ kept' = kept \cup S
  /\ written' \in {written, written \cup S}

\* A crash: what is in memory is gone, but for a batch the database just took.
Lose ==
  /\ held' = {}
  /\ kept' = kept
  /\ written \subseteq written' /\ written' \subseteq written \cup held \cup kept

Next ==
  \/ \E e \in Entries : Accept(e)
  \/ \E S \in SUBSET Entries : Persist(S) \/ Keep(S)
  \/ Lose

Spec == Init /\ [][Next]_logVars
=============================================================================
