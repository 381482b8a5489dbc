-------------------------------- MODULE Accounts --------------------------------
(***************************************************************************)
(* User accounts and their tokens: UsersService and its repository,        *)
(* JwtStrategy, and the roles of AccessControlService.                     *)
(*                                                                         *)
(* A token carries the tokenVersion of its user; to revoke all tokens of a *)
(* user is to raise the version.  A handler reads first and writes later.  *)
(* One token is followed, any of the sessions and reset links that are     *)
(* issued: logins after it change nothing here and are left out.  A        *)
(* password or PIN is the number of the change that set it.                *)
(* Locks, which only refuse more logins, are in module Lockout; which      *)
(* endpoint asks for which permission is left out.                         *)
(***************************************************************************)
EXTENDS Integers, FiniteSets

CONSTANTS
  Users,
  First,          \* the administrator of the installation
  Roles,          \* system roles besides "admin"
  Perms,          \* permissions
  Default,        \* permissions that a role gets when it has none
  Selections,     \* permissions that requests choose for a role
  Changes,        \* what requests to update an account ask for
  RequestHandlers,
  MaxVersion,     \* bound of the exploration: tokenVersion
  EditsApart      \* TRUE: no two edits of accounts overlap, nor an edit and another
                  \*       change of the version of its account

ASSUME AccountsAssumption ==
  /\ First \in Users /\ IsFiniteSet(Users)
  /\ "admin" \notin Roles /\ Default \in (SUBSET Perms) \ {{}} /\ Selections \subseteq SUBSET Perms
  /\ Changes \subseteq [cred: BOOLEAN, role: Roles \cup {"admin", "same"},
                       active: {"on", "off", "same"}]
  /\ "manage" \in Perms => "read" \in Perms
  /\ MaxVersion \in Nat /\ EditsApart \in BOOLEAN

VARIABLES
  users,     \* the User rows
  grants,    \* the permissions of each role
  token,     \* a token that was issued
  calls      \* the handlers in flight

accountVars == <<users, grants, token, calls>>

-----------------------------------------------------------------------------
(* Values *)

AnyRole == Roles \cup {"admin"}
Versions == 0..MaxVersion

User == [exists: BOOLEAN, active: BOOLEAN, role: AnyRole, ver: Versions, pw: Versions]
NoUser == [exists |-> FALSE, active |-> FALSE, role |-> "admin", ver |-> 0, pw |-> 0]

\* A session or a reset link, with what was known of its user when it was issued.
Token == [kind: {"session", "link"}, user: Users, ver: Versions, pw: Versions,
          role: AnyRole, perms: SUBSET Perms, expired: BOOLEAN]
NoToken == [kind |-> "none"]

NoCall == [op |-> "none"]
Same == "same"
AnyChange == [cred: BOOLEAN, role: AnyRole \cup {Same}, active: {"on", "off", Same}]
Calls == {NoCall}
  \cup [op: {"login", "reset"}, id: Users, read: User]
  \cup [op: {"edit"}, id: Users, change: AnyChange, ver: Versions]

AccountsTypeOK ==
  /\ users \in [Users -> User]
  /\ grants \in [AnyRole -> SUBSET Perms]
  /\ token \in Token \cup {NoToken}
  /\ calls \in [RequestHandlers -> Calls]

Active(u) == users[u].exists /\ users[u].active

\* What JwtStrategy.validate, refreshSessionToken and resetPassword ask of a token.
Valid == token # NoToken /\ Active(token.user) /\ users[token.user].ver = token.ver

Call(h, c) == calls[h] = NoCall /\ calls' = [calls EXCEPT ![h] = c]
Return(h) == calls' = [calls EXCEPT ![h] = NoCall]

\* The first one is followed; the others may be in flight for longer.
Issue(kind, u, read) ==
  IF token = NoToken
    THEN token' = [kind |-> kind, user |-> u, ver |-> read.ver, pw |-> read.pw,
                   role |-> read.role, perms |-> grants[read.role], expired |-> FALSE]
    ELSE token' = token

-----------------------------------------------------------------------------
(* Sessions *)

\* loginWithPassword, loginWithPin: the user is read, then the credentials verified.
BeginLogin(h, u) ==
  /\ Active(u) /\ token = NoToken
  /\ Call(h, [op |-> "login", id |-> u, read |-> users[u]])
  /\ UNCHANGED <<users, grants, token>>

\* A token is signed for what was read; its permissions are read now.
Admit(h) ==
  /\ calls[h].op = "login"
  /\ Issue("session", calls[h].id, calls[h].read)
  /\ Return(h)
  /\ UNCHANGED <<users, grants>>

Expire ==
  /\ token # NoToken /\ ~token.expired
  /\ token' = [token EXCEPT !.expired = TRUE]
  /\ UNCHANGED <<users, grants, calls>>

\* Fault: the session is of an active user, that is enough.
OfActive == Active(token.user)

Renewable == Valid

\* refreshSessionToken, with a refresh token or within a day.
Refresh ==
  /\ token.kind = "session" /\ token.expired
  /\ Renewable
  /\ token' = [token EXCEPT !.ver = users[token.user].ver, !.expired = FALSE]
  /\ UNCHANGED <<users, grants, calls>>

-----------------------------------------------------------------------------
(* Edits of an account *)

Editing == {h \in RequestHandlers : calls[h].op = "edit"}
Apart(u) == EditsApart => \A h \in Editing : calls[h].id # u

\* Fault: a new password leaves the sessions alone.
RevokesByRole(c) == c.role # Same \/ c.active = "off"

\* revokesSessions
Revokes(c) == c.cred \/ c.role # Same \/ c.active = "off"

Admins == {u \in Users : Active(u) /\ users[u].role = "admin"}

\* Fault: the one who leaves is not counted.
SomeAdmin == Admins # {}

\* Another administrator remains.
EnoughAdmins == Cardinality(Admins) > 1

BeginEdit(h, u, c) ==
  /\ users[u].exists
  /\ Revokes(c) => users[u].ver < MaxVersion
  /\ EditsApart => Editing = {}
  /\ Call(h, [op |-> "edit", id |-> u, change |-> c, ver |-> users[u].ver])
  /\ UNCHANGED <<users, grants, token>>

\* update, by an administrator
BeginUpdate(h, u) ==
  \E c \in Changes :
    /\ (users[u].role = "admin" /\ (c.role \notin {"admin", Same} \/ c.active = "off"))
         => EnoughAdmins
    /\ BeginEdit(h, u, c)

\* updateOwnProfile: the password is asked for
BeginProfile(h, u) ==
  /\ users[u].active
  /\ BeginEdit(h, u, [cred |-> TRUE, role |-> Same, active |-> Same])

\* delete
BeginDelete(h, u) ==
  /\ users[u].role = "admin" => EnoughAdmins
  /\ BeginEdit(h, u, [cred |-> FALSE, role |-> Same, active |-> "off"])

\* The version that was read, plus one.
CommitEdit(h) ==
  LET r == calls[h]
      c == r.change
      row == users[r.id]
  IN
  /\ r.op = "edit"
  /\ users' = [users EXCEPT ![r.id] =
       [row EXCEPT !.pw = IF c.cred THEN @ + 1 ELSE @,
                   !.role = IF c.role = Same THEN @ ELSE c.role,
                   !.active = IF c.active = Same THEN @ ELSE c.active = "on",
                   !.ver = IF Revokes(c) THEN r.ver + 1 ELSE @]]
  /\ Return(h)
  /\ UNCHANGED <<grants, token>>

Create(u) ==
  /\ ~users[u].exists
  /\ \E role \in AnyRole, active \in BOOLEAN :
       users' = [users EXCEPT ![u].exists = TRUE, ![u].role = role, ![u].active = active]
  /\ UNCHANGED <<grants, token, calls>>

\* revokeAllTokens, at a logout
Logout(u) ==
  /\ Active(u) /\ users[u].ver < MaxVersion /\ Apart(u)
  /\ users' = [users EXCEPT ![u].ver = @ + 1]
  /\ UNCHANGED <<grants, token, calls>>

-----------------------------------------------------------------------------
(* Password reset *)

\* The user is read, and that a link is due is written.
BeginReset(h, u) ==
  /\ u \in Admins /\ token = NoToken
  /\ Call(h, [op |-> "reset", id |-> u, read |-> users[u]])
  /\ UNCHANGED <<users, grants, token>>

\* requestPasswordReset sends a link to an administrator.
SendLink(h) ==
  /\ calls[h].op = "reset"
  /\ Issue("link", calls[h].id, calls[h].read)
  /\ Return(h)
  /\ UNCHANGED <<users, grants>>

\* resetPassword: one conditional update.
ResetPassword ==
  LET u == token.user IN
  /\ token.kind = "link" /\ ~token.expired
  /\ Valid /\ token.ver < MaxVersion /\ Apart(u)
  /\ users' = [users EXCEPT ![u].pw = @ + 1, ![u].ver = @ + 1]
  /\ UNCHANGED <<grants, token, calls>>

-----------------------------------------------------------------------------
(* Roles *)

\* withRequiredReadPermissions
WithRead(perms) == perms \cup IF "manage" \in perms THEN {"read"} ELSE {}

UsersOf(r) == {u \in Users : users[u].exists /\ users[u].role = r}

\* update of AccessControlService: the permissions of "admin" are protected.
UpdateRole(r) ==
  \E perms \in Selections :
    /\ grants' = [grants EXCEPT ![r] = WithRead(perms)]
    /\ \A u \in UsersOf(r) : users[u].ver < MaxVersion /\ Apart(u)
    /\ users' = [u \in Users |-> [users[u] EXCEPT !.ver = IF u \in UsersOf(r) THEN @ + 1
                                                          ELSE @]]
    /\ UNCHANGED <<token, calls>>

\* ensureSystemConfiguration, when the process starts: handlers are gone.
Boot ==
  /\ grants' = [r \in AnyRole |-> IF r # "admin" /\ grants[r] = {} THEN Default
                                  ELSE grants[r]]
  /\ calls' = [h \in RequestHandlers |-> NoCall]
  /\ UNCHANGED <<users, token>>

-----------------------------------------------------------------------------
AccountsInit ==
  /\ users = [u \in Users |-> IF u = First THEN [NoUser EXCEPT !.exists = TRUE, !.active = TRUE]
                              ELSE NoUser]
  /\ grants = [r \in AnyRole |-> IF r = "admin" THEN Perms ELSE Default]
  /\ token = NoToken
  /\ calls = [h \in RequestHandlers |-> NoCall]

Begins(h, u) ==
  \/ BeginLogin(h, u) \/ BeginReset(h, u)
  \/ BeginUpdate(h, u) \/ BeginProfile(h, u) \/ BeginDelete(h, u)

AccountsNext ==
  \/ \E h \in RequestHandlers :
       Admit(h) \/ CommitEdit(h) \/ SendLink(h) \/ \E u \in Users : Begins(h, u)
  \/ \E u \in Users : Create(u) \/ Logout(u)
  \/ \E r \in Roles : UpdateRole(r)
  \/ Expire \/ Refresh \/ ResetPassword \/ Boot

AccountsSpec == AccountsInit /\ [][AccountsNext]_accountVars

-----------------------------------------------------------------------------
(* Properties *)

\* A session or reset link that is refused once, because of a logout, an edit, a new
\* password or new permissions, is refused for good: no activation of the account, no
\* renewal and no write of a version that was read before brings it back
\* (UsersService.update, delete, refreshSessionToken, resetPassword).
RefusedForGood == [][token # NoToken /\ ~Valid => ~Valid']_accountVars

\* Whoever is let in knows the present password or PIN and was told the present role and
\* no permission that it has lost: a token is signed with what was read before the
\* credentials were verified, and whatever changed since has revoked it.
SessionsCurrent ==
  Valid =>
    LET u == users[token.user] IN
    /\ token.pw = u.pw /\ token.role = u.role
    /\ token.perms \subseteq grants[u.role]

\* An administrator can always log in: the last one is neither removed nor changed into
\* something else (UsersService.update, delete).
AdminRemains == Admins # {}
=============================================================================
