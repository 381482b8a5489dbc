--------------------------------- MODULE Lockout ---------------------------------
(***************************************************************************)
(* The locks against guessing: PinAttemptService counts the failures of a  *)
(* scope (the address that requests come from, or an operation), the User  *)
(* row those of an account.  An attempt checks the locks, then verifies    *)
(* the credentials, then registers the outcome; attempts run in parallel.  *)
(* How long a lock lasts, longer each time, is left out: it ends.          *)
(***************************************************************************)
EXTENDS Integers, FiniteSets

CONSTANTS
  LockUsers,    \* accounts
  Attempters,   \* handlers
  MaxFailures   \* failures that lock (5 in the code)

ASSUME LockoutAssumption ==
  /\ IsFiniteSet(Attempters) /\ MaxFailures \in Nat \ {0}
  /\ LockUsers \cap {"password", "pin", "reset"} = {}

VARIABLES
  gate,      \* the counts and locks
  attempt,   \* what a handler is trying
  tries      \* history: failures since it was last unlocked

lockVars == <<gate, attempt, tries>>

\* The AuthAttempt rows: logins by password, and by PIN, and reset requests.
Scopes == {"password", "pin", "reset"}
Locks == Scopes \cup LockUsers

\* failures and lockedUntil.
Gate == [fails: 0..MaxFailures, locked: BOOLEAN]
Free == [fails |-> 0, locked |-> FALSE]
NoAttempt == [scope |-> "none"]

LockoutTypeOK ==
  /\ gate \in [Locks -> Gate]
  /\ attempt \in [Attempters -> {NoAttempt} \cup
       [scope: Scopes, user: LockUsers, right: BOOLEAN, locked: BOOLEAN]]
  /\ tries \in [Locks -> Nat]

-----------------------------------------------------------------------------
\* A wrong PIN locks at once, other failures when there are enough of them.
Limit(x) == IF x = "pin" THEN 1 ELSE MaxFailures

\* Fault: failures are only counted.
NeverLocked(x) == [gate[x] EXCEPT !.fails = @ + 1]

\* Fault: one failure more.
FailedLate(x) ==
  IF gate[x].fails >= Limit(x) THEN [fails |-> 0, locked |-> TRUE]
  ELSE [gate[x] EXCEPT !.fails = @ + 1]

\* registerFailure, registerPinFailure, registerFailedLoginAttempt
Failed(x) ==
  IF gate[x].fails + 1 >= Limit(x) THEN [fails |-> 0, locked |-> TRUE]
  ELSE [gate[x] EXCEPT !.fails = @ + 1]

Fail(who) ==
  /\ gate' = [x \in Locks |-> IF x \in who THEN Failed(x) ELSE gate[x]]
  /\ tries' = [x \in Locks |-> tries[x] + IF x \in who THEN 1 ELSE 0]

Lift(who) ==
  /\ gate' = [x \in Locks |-> IF x \in who THEN Free ELSE gate[x]]
  /\ tries' = [x \in Locks |-> IF x \in who THEN 0 ELSE tries[x]]

Finish(h) == attempt' = [attempt EXCEPT ![h] = NoAttempt]

\* assertAllowed, and the row of the user is read; its lock is looked at now for a
\* password, after the verification for a PIN.
BeginAttempt(h, scope, u) ==
  \E right \in BOOLEAN :
    /\ attempt[h] = NoAttempt
    /\ ~gate[scope].locked
    /\ scope = "password" => ~gate[u].locked
    /\ attempt' = [attempt EXCEPT ![h] =
         [scope |-> scope, user |-> u, right |-> right, locked |-> gate[u].locked]]
    /\ UNCHANGED <<gate, tries>>

\* A wrong password counts against the account, too.
WrongPassword(h) ==
  /\ attempt[h].scope = "password" /\ ~attempt[h].right
  /\ Fail({"password", attempt[h].user})
  /\ Finish(h)

RightPassword(h) ==
  /\ attempt[h].scope = "password" /\ attempt[h].right
  /\ Lift({"password", attempt[h].user})
  /\ Finish(h)

\* findByPin: nobody has this PIN, or not the permission that is asked for.
WrongPin(h) ==
  /\ attempt[h].scope = "pin" /\ ~attempt[h].right
  /\ Fail({"pin"})
  /\ Finish(h)

\* A user who is locked is not let in, although the PIN is right.
RightPin(h) ==
  /\ attempt[h].scope = "pin" /\ attempt[h].right
  /\ Lift({"pin"} \cup IF attempt[h].locked THEN {} ELSE {attempt[h].user})
  /\ Finish(h)

\* requestPasswordReset counts every request as a failure.
AskReset(h) ==
  /\ attempt[h].scope = "reset"
  /\ Fail({"reset"})
  /\ Finish(h)

\* lockedUntil passes.
TimePasses(x) ==
  /\ gate[x].locked
  /\ gate' = [gate EXCEPT ![x].locked = FALSE]
  /\ tries' = [tries EXCEPT ![x] = 0]
  /\ UNCHANGED attempt

\* unlockUser by an administrator, or resetPassword
UnlockUser(u) ==
  /\ Lift({u})
  /\ UNCHANGED attempt

LockoutInit ==
  /\ gate = [x \in Locks |-> Free]
  /\ attempt = [h \in Attempters |-> NoAttempt]
  /\ tries = [x \in Locks |-> 0]

LockoutNext ==
  \/ \E h \in Attempters :
       \/ \E scope \in Scopes, u \in LockUsers : BeginAttempt(h, scope, u)
       \/ WrongPassword(h) \/ RightPassword(h) \/ WrongPin(h) \/ RightPin(h) \/ AskReset(h)
  \/ \E x \in Locks : TimePasses(x)
  \/ \E u \in LockUsers : UnlockUser(u)

LockoutSpec == LockoutInit /\ [][LockoutNext]_lockVars

-----------------------------------------------------------------------------
\* Attempts that run at the same time all pass the check of the lock: one per handler,
\* and no more, gets a guess beyond the limit (PinAttemptService, UsersService).
GuessesBounded ==
  \A x \in Locks : tries[x] <= Limit(x) + Cardinality(Attempters) - 1
=============================================================================
