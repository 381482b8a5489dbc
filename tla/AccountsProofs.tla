---------------------------- MODULE AccountsProofs ----------------------------
(***************************************************************************)
(* Theorems about Accounts that hold for all users, roles, permissions and *)
(* requests, when the edits of an account do not overlap or, for the       *)
(* administrators, when no two of them take one away; about OrdersGateway  *)
(* for all sockets, kitchens and orders, for the most part when the orders *)
(* are synchronized one after the other; and about Lockout for any number  *)
(* of accounts and of attempts at the same time.                           *)
(***************************************************************************)
EXTENDS OrdersGateway, Lockout, FiniteSetTheorems, TLAPS

-----------------------------------------------------------------------------
(* The inductive invariant *)

\* The change takes from an administrator what makes him one.
Drops(u, c) ==
  users[u].role = "admin" /\ (c.role \notin {"admin", Same} \/ c.active = "off")

\* What an edit in flight read is still true, and if it drops an administrator there is
\* another one.
EditSound(r) ==
  /\ users[r.id].exists /\ r.ver = users[r.id].ver
  /\ Revokes(r.change) => r.ver < MaxVersion
  /\ Drops(r.id, r.change) => \E v \in Admins : v # r.id

\* What x knows of user u is true of it now or belongs to an older version.
Current(x, u) ==
  /\ x.ver <= users[u].ver
  /\ x.ver = users[u].ver =>
       Active(u) /\ x.pw = users[u].pw /\ x.role = users[u].role

\* Each new password is a new version.
PasswordsVersioned == \A u \in Users : users[u].pw <= users[u].ver

OneEdit == \A g, h \in RequestHandlers :
  (calls[g].op = "edit" /\ calls[h].op = "edit") => g = h

EditsSound == \A h \in RequestHandlers : calls[h].op = "edit" => EditSound(calls[h])

ReadsCurrent ==
  \A h \in RequestHandlers :
    calls[h].op \in {"login", "reset"} => Current(calls[h].read, calls[h].id)

TokenCurrent ==
  token # NoToken =>
    /\ Current(token, token.user)
    /\ token.ver = users[token.user].ver => token.perms \subseteq grants[token.role]

AccountsInv ==
  /\ AccountsTypeOK /\ PasswordsVersioned
  /\ OneEdit /\ EditsSound /\ ReadsCurrent /\ TokenCurrent
  /\ AdminRemains

-----------------------------------------------------------------------------
(* Facts that the steps share *)

LEMMA CallTyped ==
  ASSUME AccountsTypeOK, NEW h \in RequestHandlers
  PROVE  /\ calls[h] \in Calls
         /\ calls[h].op \in {"login", "reset"} => calls[h].id \in Users /\ calls[h].read \in User
         /\ calls[h].op = "edit" => /\ calls[h].id \in Users /\ calls[h].ver \in Versions
                                    /\ calls[h].change \in AnyChange
<1>1. calls[h] \in Calls
  BY DEF AccountsTypeOK
<1>2. CASE calls[h] = NoCall
  BY <1>1, <1>2 DEF NoCall
<1>3. CASE calls[h] # NoCall
  BY <1>1, <1>3 DEF Calls
<1> QED
  BY <1>1, <1>2, <1>3

LEMMA TokenTyped ==
  ASSUME AccountsTypeOK, token # NoToken
  PROVE  token \in Token /\ token.user \in Users /\ token.ver \in Versions
         /\ token.role \in AnyRole
  BY DEF AccountsTypeOK, Token

LEMMA UserTyped ==
  ASSUME AccountsTypeOK, NEW u \in Users
  PROVE  /\ users[u] \in User /\ users[u].ver \in Versions /\ users[u].pw \in Versions
         /\ users[u].ver \in Int /\ users[u].pw \in Int
  BY AccountsAssumption DEF AccountsTypeOK, User, Versions

\* A token is accepted exactly as long as its version is the one of its user.
LEMMA ValidIsCurrent ==
  ASSUME TokenCurrent, token # NoToken
  PROVE  Valid <=> token.ver = users[token.user].ver
  BY DEF Valid, TokenCurrent, Current

\* A step takes the account of u on: its version never falls, and when it stays, so does
\* what the tokens of that version know.
Onward(u) ==
  /\ users'[u] \in User /\ users'[u].pw <= users'[u].ver
  /\ users[u].ver <= users'[u].ver
  /\ (users'[u].ver = users[u].ver /\ Active(u)) =>
       /\ users'[u].exists /\ users'[u].active
       /\ users'[u].pw = users[u].pw /\ users'[u].role = users[u].role

LEMMA OnwardCurrent ==
  ASSUME AccountsTypeOK, NEW u \in Users, Onward(u), NEW x, x.ver \in Versions, Current(x, u)
  PROVE  /\ Current(x, u)'
         /\ x.ver = users'[u].ver => x.ver = users[u].ver
<1>1. /\ users[u].ver \in Int /\ users'[u].ver \in Int /\ x.ver \in Int
      /\ x.ver <= users[u].ver /\ users[u].ver <= users'[u].ver
  BY UserTyped, AccountsAssumption DEF Onward, User, Versions, Current
<1>2. x.ver <= users'[u].ver
  BY <1>1
<1>3. x.ver = users'[u].ver => x.ver = users[u].ver /\ users'[u].ver = users[u].ver
  BY <1>1
<1> QED
  BY <1>2, <1>3 DEF Current, Onward, Active

\* So the accounts may go on under what handlers and the token know.
LEMMA AccountsGoOn ==
  ASSUME AccountsInv, \A u \in Users : Onward(u)
  PROVE  /\ PasswordsVersioned'
         /\ \A h \in RequestHandlers : \A x, u :
              (calls[h].op \in {"login", "reset"} /\ x = calls[h].read /\ u = calls[h].id)
                => Current(x, u)'
         /\ \A x, u : (token # NoToken /\ x = token /\ u = token.user) =>
              Current(x, u)' /\ (x.ver = users'[u].ver => x.ver = users[u].ver)
<1>1. PasswordsVersioned'
  BY DEF PasswordsVersioned, Onward
<1>2. ASSUME NEW h \in RequestHandlers, calls[h].op \in {"login", "reset"},
             NEW x, NEW u, x = calls[h].read, u = calls[h].id
      PROVE  Current(x, u)'
  <2>1. u \in Users /\ x.ver \in Versions
    BY <1>2, CallTyped DEF AccountsInv, User
  <2>2. Current(x, u)
    BY <1>2 DEF AccountsInv, ReadsCurrent
  <2> QED
    BY <2>1, <2>2, OnwardCurrent DEF AccountsInv
<1>3. ASSUME token # NoToken, NEW x, NEW u, x = token, u = token.user
      PROVE  Current(x, u)' /\ (x.ver = users'[u].ver => x.ver = users[u].ver)
  <2>1. u \in Users /\ x.ver \in Versions
    BY <1>3, TokenTyped DEF AccountsInv
  <2>2. Current(x, u)
    BY <1>3 DEF AccountsInv, TokenCurrent
  <2> QED
    BY <2>1, <2>2, OnwardCurrent DEF AccountsInv
<1> QED
  BY <1>1, <1>2, <1>3

\* One handler goes on as c and the rows stay as they are.
LEMMA CallKeeps ==
  ASSUME AccountsInv, NEW h \in RequestHandlers, NEW c \in Calls,
         calls' = [calls EXCEPT ![h] = c], UNCHANGED <<users, grants>>,
         token' \in Token \cup {NoToken}, TokenCurrent',
         c.op = "edit" => EditSound(c) /\ \A g \in RequestHandlers : calls[g].op # "edit",
         c.op \in {"login", "reset"} => Current(c.read, c.id)
  PROVE  AccountsInv'
<1>1. \A g \in RequestHandlers : calls'[g] = IF g = h THEN c ELSE calls[g]
  BY DEF AccountsInv, AccountsTypeOK
<1>2. AccountsTypeOK'
  BY DEF AccountsInv, AccountsTypeOK
<1>3. OneEdit'
  BY <1>1 DEF AccountsInv, OneEdit
<1>4. \A x : EditSound(x) => EditSound(x)'
  BY DEF EditSound, Drops, Admins, Active
<1>5. EditsSound'
  <2>1. ASSUME NEW g \in RequestHandlers, NEW x, x = calls'[g], x.op = "edit"
        PROVE  EditSound(x)'
    <3>1. EditSound(x)
      BY <1>1, <2>1 DEF AccountsInv, EditsSound
    <3> QED
      BY <1>4, <3>1
  <2>2. ASSUME NEW g \in RequestHandlers, calls'[g].op = "edit" PROVE EditSound(calls[g])'
    <3>1. PICK x : x = calls'[g]
      OBVIOUS
    <3>2. EditSound(x)'
      BY <2>1, <2>2, <3>1
    <3> QED
      BY <3>1, <3>2 DEF EditSound, Drops
  <2> QED
    BY <2>2 DEF EditsSound
<1>6. ReadsCurrent'
  BY <1>1 DEF AccountsInv, ReadsCurrent, Current, Active
<1>7. AdminRemains' /\ PasswordsVersioned'
  BY DEF AccountsInv, AdminRemains, PasswordsVersioned, Admins, Active
<1> QED
  BY <1>2, <1>3, <1>5, <1>6, <1>7 DEF AccountsInv

LEMMA TokenKept ==
  ASSUME AccountsInv, UNCHANGED <<users, grants, token>>
  PROVE  TokenCurrent' /\ token' \in Token \cup {NoToken}
  BY DEF AccountsInv, AccountsTypeOK, TokenCurrent, Current, Active

\* What is read of an account now is current.
LEMMA ReadNow ==
  ASSUME AccountsTypeOK, NEW u \in Users, Active(u)
  PROVE  Current(users[u], u)
  BY UserTyped DEF Current

-----------------------------------------------------------------------------
(* Steps that leave the accounts alone *)

LEMMA InitAccounts == AccountsInit => AccountsInv
<1> SUFFICES ASSUME AccountsInit PROVE AccountsInv
  OBVIOUS
<1>1. 0 \in Versions
  BY AccountsAssumption DEF Versions
<1>2. NoUser \in User /\ [NoUser EXCEPT !.exists = TRUE, !.active = TRUE] \in User
  BY <1>1 DEF NoUser, User, AnyRole
<1>3. users \in [Users -> User]
  BY <1>2 DEF AccountsInit
<1>4. grants \in [AnyRole -> SUBSET Perms]
  BY AccountsAssumption DEF AccountsInit
<1>5. calls \in [RequestHandlers -> Calls] /\ \A h \in RequestHandlers : calls[h].op = "none"
  BY DEF AccountsInit, Calls, NoCall
<1>6. AccountsTypeOK
  BY <1>3, <1>4, <1>5 DEF AccountsInit, AccountsTypeOK
<1>7. PasswordsVersioned
  BY DEF AccountsInit, PasswordsVersioned, NoUser
<1>8. OneEdit /\ EditsSound /\ ReadsCurrent /\ TokenCurrent
  BY <1>5 DEF AccountsInit, OneEdit, EditsSound, ReadsCurrent, TokenCurrent
<1>9. First \in Admins
  BY AccountsAssumption DEF AccountsInit, Admins, Active, NoUser
<1> QED
  BY <1>6, <1>7, <1>8, <1>9 DEF AccountsInv, AdminRemains

LEMMA BeginReadKeeps ==
  ASSUME AccountsInv, NEW h \in RequestHandlers, NEW u \in Users,
         BeginLogin(h, u) \/ BeginReset(h, u)
  PROVE  AccountsInv'
<1>1. PICK op \in {"login", "reset"} :
        calls' = [calls EXCEPT ![h] = [op |-> op, id |-> u, read |-> users[u]]]
  BY DEF BeginLogin, BeginReset, Call
<1> DEFINE c == [op |-> op, id |-> u, read |-> users[u]]
<1>2. Active(u) /\ UNCHANGED <<users, grants, token>>
  BY DEF BeginLogin, BeginReset, Admins
<1>3. AccountsTypeOK /\ users[u] \in User
  BY DEF AccountsInv, AccountsTypeOK
<1>4. c \in Calls
  BY <1>3 DEF Calls
<1>5. c.op = op /\ c.id = u /\ c.read = users[u]
  OBVIOUS
<1> HIDE DEF c
<1>6. Current(c.read, c.id)
  BY <1>2, <1>3, <1>5, ReadNow
<1> QED
  BY <1>1, <1>2, <1>4, <1>5, <1>6, TokenKept, CallKeeps DEF c

\* Of more than one administrator one is another than u.
LEMMA AnotherAdmin ==
  ASSUME EnoughAdmins, NEW u
  PROVE  \E v \in Admins : v # u
<1> SUFFICES ASSUME Admins \subseteq {u} PROVE FALSE
  OBVIOUS
<1>1. IsFiniteSet({u}) /\ Cardinality({u}) = 1
  BY FS_Singleton
<1>2. IsFiniteSet(Admins) /\ Cardinality(Admins) <= 1
  BY <1>1, FS_Subset
<1>3. Cardinality(Admins) \in Nat
  BY <1>2, FS_CardinalityType
<1> QED
  BY <1>2, <1>3 DEF EnoughAdmins

\* Whoever begins to take an administrator away counted another one.
LEMMA BegunEdit ==
  ASSUME NEW h \in RequestHandlers, NEW u \in Users,
         BeginUpdate(h, u) \/ BeginProfile(h, u) \/ BeginDelete(h, u)
  PROVE  \E c \in AnyChange : BeginEdit(h, u, c) /\ (Drops(u, c) => EnoughAdmins)
<1>1. CASE BeginUpdate(h, u)
  <2>1. Changes \subseteq AnyChange
    BY AccountsAssumption DEF AnyChange, AnyRole, Same
  <2> QED
    BY <1>1, <2>1 DEF BeginUpdate, Drops
<1>2. CASE BeginProfile(h, u)
  <2> DEFINE d == [cred |-> TRUE, role |-> Same, active |-> Same]
  <2>1. d \in AnyChange /\ ~Drops(u, d)
    BY DEF AnyChange, Drops, Same
  <2> QED
    BY <1>2, <2>1 DEF BeginProfile
<1>3. CASE BeginDelete(h, u)
  <2> DEFINE d == [cred |-> FALSE, role |-> Same, active |-> "off"]
  <2>1. d \in AnyChange /\ (Drops(u, d) => users[u].role = "admin")
    BY DEF AnyChange, Drops
  <2> QED
    BY <1>3, <2>1 DEF BeginDelete
<1> QED
  BY <1>1, <1>2, <1>3

LEMMA BeginEditKeeps ==
  ASSUME AccountsInv, EditsApart, NEW h \in RequestHandlers, NEW u \in Users,
         BeginUpdate(h, u) \/ BeginProfile(h, u) \/ BeginDelete(h, u)
  PROVE  AccountsInv'
<1>1. PICK c \in AnyChange : BeginEdit(h, u, c) /\ (Drops(u, c) => EnoughAdmins)
  BY BegunEdit
<1> DEFINE r == [op |-> "edit", id |-> u, change |-> c, ver |-> users[u].ver]
<1>2. /\ calls' = [calls EXCEPT ![h] = r] /\ users[u].exists
      /\ Revokes(c) => users[u].ver < MaxVersion
      /\ \A g \in RequestHandlers : calls[g].op # "edit"
      /\ UNCHANGED <<users, grants, token>>
  BY <1>1 DEF BeginEdit, Call, Editing
<1>3. users[u].ver \in Versions
  BY UserTyped DEF AccountsInv
<1>4. r \in Calls
  BY <1>3 DEF Calls
<1>5. r.op = "edit" /\ r.id = u /\ r.change = c /\ r.ver = users[u].ver
  OBVIOUS
<1> HIDE DEF r
<1>6. EditSound(r)
  BY <1>1, <1>2, <1>5, AnotherAdmin DEF EditSound
<1> QED
  BY <1>2, <1>4, <1>5, <1>6, TokenKept, CallKeeps

\* A token is signed with what was read: it is current, or revoked already.
LEMMA SignKeeps ==
  ASSUME AccountsInv, NEW h \in RequestHandlers, Admit(h) \/ SendLink(h)
  PROVE  AccountsInv'
<1> DEFINE u == calls[h].id
           read == calls[h].read
<1>1. PICK kind \in {"session", "link"} : Issue(kind, u, read)
  BY DEF Admit, SendLink
<1>2. calls[h].op \in {"login", "reset"} /\ calls' = [calls EXCEPT ![h] = NoCall]
      /\ UNCHANGED <<users, grants>>
  BY DEF Admit, SendLink, Return
<1>3. u \in Users /\ read \in User /\ Current(read, u)
  BY <1>2, CallTyped DEF AccountsInv, ReadsCurrent
<1>4. NoCall \in Calls /\ NoCall.op = "none"
  BY DEF Calls, NoCall
<1> HIDE DEF u, read
<1>5. token' \in Token \cup {NoToken} /\ TokenCurrent'
  <2>1. CASE token # NoToken
    <3>1. token' = token
      BY <1>1, <2>1 DEF Issue
    <3> QED
      BY <1>2, <3>1, TokenKept
  <2>2. CASE token = NoToken
    <3> DEFINE t == [kind |-> kind, user |-> u, ver |-> read.ver, pw |-> read.pw,
                     role |-> read.role, perms |-> grants[read.role], expired |-> FALSE]
    <3>1. token' = t
      BY <1>1, <2>2 DEF Issue
    <3>2. t \in Token
      BY <1>3 DEF Token, User, AccountsInv, AccountsTypeOK
    <3>3. t.user = u /\ t.ver = read.ver /\ t.pw = read.pw /\ t.role = read.role
          /\ t.perms = grants[read.role]
      OBVIOUS
    <3> HIDE DEF t
    <3>4. TokenCurrent'
      BY <1>2, <1>3, <3>1, <3>3 DEF TokenCurrent, Current, Active
    <3> QED
      BY <3>1, <3>2, <3>4
  <2> QED
    BY <2>1, <2>2
<1> QED
  BY <1>2, <1>4, <1>5, CallKeeps

\* Time, and the renewal of a token that is still valid.
LEMMA TokenKeeps ==
  ASSUME AccountsInv, Expire \/ Refresh
  PROVE  AccountsInv'
<1>1. token # NoToken /\ UNCHANGED <<users, grants, calls>>
  BY DEF Expire, Refresh, NoToken
<1>2. token \in Token
  BY <1>1, TokenTyped DEF AccountsInv
<1>3. /\ token' \in Token /\ token'.user = token.user /\ token'.ver = token.ver
      /\ token'.pw = token.pw /\ token'.role = token.role /\ token'.perms = token.perms
  <2>1. CASE Expire
    BY <1>2, <2>1 DEF Expire, Token
  <2>2. CASE Refresh
    <3>1. users[token.user].ver = token.ver
      BY <2>2 DEF Refresh, Renewable, Valid
    <3>2. token' = [token EXCEPT !.ver = token.ver, !.expired = FALSE]
      BY <2>2, <3>1 DEF Refresh
    <3> QED
      BY <1>2, <3>2 DEF Token
  <2> QED
    BY <2>1, <2>2
<1>4. AccountsTypeOK' /\ TokenCurrent'
  BY <1>1, <1>3 DEF AccountsInv, AccountsTypeOK, TokenCurrent, Current, Active
<1>5. PasswordsVersioned' /\ OneEdit' /\ AdminRemains'
  BY <1>1 DEF AccountsInv, PasswordsVersioned, OneEdit, AdminRemains, Admins, Active
<1>6. EditsSound' /\ ReadsCurrent'
  BY <1>1 DEF AccountsInv, EditsSound, EditSound, Drops, Admins, Active, ReadsCurrent, Current
<1> QED
  BY <1>4, <1>5, <1>6 DEF AccountsInv

\* The handlers are gone, and roles without permissions get their first ones.
LEMMA BootKeeps ==
  ASSUME AccountsInv, Boot
  PROVE  AccountsInv'
<1>1. /\ UNCHANGED <<users, token>> /\ \A h \in RequestHandlers : calls'[h] = NoCall
      /\ calls' = [h \in RequestHandlers |-> NoCall]
  BY DEF Boot
<1>2. \A r \in AnyRole :
        grants'[r] = IF r # "admin" /\ grants[r] = {} THEN Default ELSE grants[r]
  BY DEF Boot
<1>3. grants' \in [AnyRole -> SUBSET Perms] /\ NoCall \in Calls
  BY AccountsAssumption DEF Boot, AccountsInv, AccountsTypeOK, Calls
<1>4. AccountsTypeOK'
  BY <1>1, <1>3 DEF AccountsInv, AccountsTypeOK
<1>5. OneEdit' /\ EditsSound' /\ ReadsCurrent'
  BY <1>1 DEF OneEdit, EditsSound, ReadsCurrent, NoCall
<1>6. TokenCurrent'
  <2> SUFFICES ASSUME token # NoToken PROVE TokenCurrent'
    BY <1>1 DEF TokenCurrent
  <2>1. token.role \in AnyRole
    BY TokenTyped DEF AccountsInv
  <2>2. grants[token.role] \subseteq grants'[token.role]
    BY <1>2, <2>1
  <2> QED
    BY <1>1, <2>2 DEF AccountsInv, TokenCurrent, Current, Active
<1>7. PasswordsVersioned' /\ AdminRemains'
  BY <1>1 DEF AccountsInv, PasswordsVersioned, AdminRemains, Admins, Active
<1> QED
  BY <1>4, <1>5, <1>6, <1>7 DEF AccountsInv

-----------------------------------------------------------------------------
(* Steps that change accounts *)

\* Accounts other than the edited one go on as who they are.
LEMMA RowsKeep ==
  ASSUME AccountsInv, UNCHANGED <<token, calls>>, users' \in [Users -> User],
         grants' \in [AnyRole -> SUBSET Perms],
         \A u \in Users : Onward(u),
         \A u \in Users : users[u].exists =>
           /\ users'[u].exists /\ users'[u].active = users[u].active
           /\ users'[u].role = users[u].role,
         \A h \in RequestHandlers : calls[h].op = "edit" =>
           users'[calls[h].id].ver = users[calls[h].id].ver,
         \A u \in Users : (Active(u) /\ users'[u].ver = users[u].ver) =>
           grants[users[u].role] \subseteq grants'[users[u].role]
  PROVE  AccountsInv'
<1>1. AccountsTypeOK'
  BY DEF AccountsInv, AccountsTypeOK
<1>2. Admins \subseteq Admins'
  BY DEF Admins, Active
<1>3. AdminRemains'
  BY <1>2 DEF AccountsInv, AdminRemains
<1>4. OneEdit' /\ PasswordsVersioned'
  BY AccountsGoOn DEF AccountsInv, OneEdit
<1>5. ReadsCurrent'
  <2>1. \A h \in RequestHandlers : \A x, u :
          (calls'[h].op \in {"login", "reset"} /\ x = calls'[h].read /\ u = calls'[h].id)
             => Current(x, u)'
    BY AccountsGoOn
  <2>2. ASSUME NEW h \in RequestHandlers, calls'[h].op \in {"login", "reset"}
        PROVE  Current(calls[h].read, calls[h].id)'
    <3>1. PICK x, u : x = calls'[h].read /\ u = calls'[h].id
      OBVIOUS
    <3>2. Current(x, u)'
      BY <2>1, <2>2, <3>1
    <3> QED
      BY <3>1, <3>2 DEF Current, Active
  <2> QED
    BY <2>2 DEF ReadsCurrent
<1>6. TokenCurrent'
  <2> SUFFICES ASSUME token # NoToken PROVE TokenCurrent'
    BY DEF TokenCurrent
  <2>1. PICK x, u : x = token /\ u = token.user
    OBVIOUS
  <2>2. Current(x, u)' /\ (x.ver = users'[u].ver => x.ver = users[u].ver)
    BY <2>1, AccountsGoOn
  <2>3. u \in Users /\ Current(x, u) /\ (x.ver = users[u].ver => x.perms \subseteq grants[x.role])
    BY <2>1, TokenTyped DEF AccountsInv, TokenCurrent
  <2>4. x.ver = users'[u].ver => x.perms \subseteq grants'[x.role]
    BY <2>2, <2>3 DEF Current
  <2> QED
    BY <2>1, <2>2, <2>4 DEF TokenCurrent, Current, Active
<1>7. EditsSound'
  <2>1. ASSUME NEW h \in RequestHandlers, NEW x, x = calls[h], x.op = "edit"
        PROVE  EditSound(x)'
    <3>1. EditSound(x) /\ x.id \in Users /\ users'[x.id].ver = users[x.id].ver
      BY <2>1, CallTyped DEF AccountsInv, EditsSound
    <3>2. Drops(x.id, x.change)' => Drops(x.id, x.change)
      BY <3>1 DEF EditSound, Drops
    <3> QED
      BY <1>2, <3>1, <3>2 DEF EditSound
  <2>2. ASSUME NEW h \in RequestHandlers, calls'[h].op = "edit" PROVE EditSound(calls[h])'
    <3>1. PICK x : x = calls[h]
      OBVIOUS
    <3>2. EditSound(x)'
      BY <2>1, <2>2, <3>1
    <3> QED
      BY <3>1, <3>2 DEF EditSound, Drops
  <2> QED
    BY <2>2 DEF EditsSound
<1> QED
  BY <1>1, <1>3, <1>4, <1>5, <1>6, <1>7 DEF AccountsInv

LEMMA CreateKeeps ==
  ASSUME AccountsInv, NEW u \in Users, Create(u)
  PROVE  AccountsInv'
<1>1. PICK role \in AnyRole, active \in BOOLEAN :
        users' = [users EXCEPT ![u].exists = TRUE, ![u].role = role, ![u].active = active]
  BY DEF Create
<1>2. ~users[u].exists /\ UNCHANGED <<grants, token, calls>>
  BY DEF Create
<1>3. /\ users \in [Users -> User] /\ grants \in [AnyRole -> SUBSET Perms]
      /\ PasswordsVersioned
  BY DEF AccountsInv, AccountsTypeOK
<1> DEFINE new == [users[u] EXCEPT !.exists = TRUE, !.role = role, !.active = active]
<1>4. users' = [users EXCEPT ![u] = new]
  BY <1>1, <1>3
<1>5. new \in User /\ new.ver = users[u].ver /\ new.pw = users[u].pw
  BY <1>3 DEF User
<1> HIDE DEF new
<1>6. \A v \in Users : users'[v] = IF v = u THEN new ELSE users[v]
  BY <1>3, <1>4
<1>7. users' \in [Users -> User]
  BY <1>3, <1>4, <1>5
<1>8. ASSUME NEW v \in Users PROVE Onward(v)
  <2>1. users[v].ver <= users[v].ver /\ users[v] \in User
    BY <1>3, UserTyped DEF AccountsInv
  <2> QED
    BY <1>2, <1>3, <1>5, <1>6, <2>1 DEF Onward, PasswordsVersioned, Active
<1>9. \A v \in Users : users[v].exists => users'[v] = users[v]
  BY <1>2, <1>6
<1>10. \A h \in RequestHandlers : calls[h].op = "edit" =>
         users'[calls[h].id].ver = users[calls[h].id].ver
  BY <1>5, <1>6, CallTyped DEF AccountsInv
<1> QED
  BY <1>2, <1>3, <1>7, <1>8, <1>9, <1>10, RowsKeep

\* The accounts of some users get a new version and, maybe, a new password; those are not
\* being edited.
LEMMA RevokeKeeps ==
  ASSUME AccountsInv, UNCHANGED <<token, calls>>, grants' \in [AnyRole -> SUBSET Perms],
         users' \in [Users -> User],
         \A u \in Users :
           \/ /\ users'[u] = users[u]
              /\ users[u].exists => grants[users[u].role] \subseteq grants'[users[u].role]
           \/ /\ users'[u].ver = users[u].ver + 1 /\ users'[u].exists = users[u].exists
              /\ users'[u].active = users[u].active /\ users'[u].role = users[u].role
              /\ users'[u].pw \in {users[u].pw, users[u].pw + 1}
              /\ \A h \in RequestHandlers : calls[h].op = "edit" => calls[h].id # u
  PROVE  AccountsInv'
<1>1. ASSUME NEW u \in Users PROVE Onward(u)
  <2>1. /\ users[u].ver \in Int /\ users[u].pw \in Int /\ users[u].pw <= users[u].ver
        /\ users'[u] \in User
    BY UserTyped DEF AccountsInv, PasswordsVersioned
  <2> QED
    BY <2>1 DEF Onward, Active
<1>2. \A u \in Users : users[u].exists =>
           /\ users'[u].exists /\ users'[u].active = users[u].active
           /\ users'[u].role = users[u].role
  OBVIOUS
<1>3. \A h \in RequestHandlers : calls[h].op = "edit" =>
           users'[calls[h].id].ver = users[calls[h].id].ver
  BY CallTyped DEF AccountsInv
<1>4. ASSUME NEW u \in Users, Active(u), users'[u].ver = users[u].ver
      PROVE  grants[users[u].role] \subseteq grants'[users[u].role]
  <2>1. users[u].ver \in Int /\ users[u].exists
    BY <1>4, UserTyped DEF AccountsInv, Active
  <2>2. users'[u].ver # users[u].ver + 1
    BY <1>4, <2>1
  <2> QED
    BY <2>1, <2>2
<1> QED
  BY <1>1, <1>2, <1>3, <1>4, RowsKeep

LEMMA RevokingKeeps ==
  ASSUME AccountsInv, EditsApart,
         ResetPassword \/ (\E u \in Users : Logout(u)) \/ \E r \in Roles : UpdateRole(r)
  PROVE  AccountsInv'
<1>1. /\ users \in [Users -> User] /\ grants \in [AnyRole -> SUBSET Perms]
      /\ \A u \in Users : users[u].ver \in Int /\ users[u].pw \in Int
                          /\ users[u].pw <= users[u].ver /\ users[u].pw >= 0
                          /\ users[u].ver <= MaxVersion
  BY AccountsAssumption DEF AccountsInv, AccountsTypeOK, PasswordsVersioned, User, Versions
<1>2. \A u : Apart(u) <=> \A h \in RequestHandlers : calls[h].op = "edit" => calls[h].id # u
  BY DEF Apart, Editing
<1>3. \A u \in Users : users[u].ver < MaxVersion =>
        users[u].ver + 1 \in Versions /\ users[u].pw + 1 \in Versions
  BY <1>1, AccountsAssumption DEF Versions
<1>4. ASSUME NEW u \in Users, Logout(u) PROVE AccountsInv'
  <2> DEFINE new == [users[u] EXCEPT !.ver = @ + 1]
  <2>1. users' = [users EXCEPT ![u] = new] /\ users[u].ver < MaxVersion /\ Apart(u)
        /\ UNCHANGED <<grants, token, calls>>
    BY <1>1, <1>4 DEF Logout
  <2>2. /\ new \in User /\ new.ver = users[u].ver + 1 /\ new.exists = users[u].exists
        /\ new.active = users[u].active /\ new.role = users[u].role /\ new.pw = users[u].pw
    BY <1>1, <1>3, <2>1 DEF User
  <2> HIDE DEF new
  <2>3. users' \in [Users -> User] /\ \A v \in Users : users'[v] = IF v = u THEN new ELSE users[v]
    BY <1>1, <2>1, <2>2
  <2>4. \A v \in Users : v # u => users'[v] = users[v] /\ grants' = grants
    BY <2>1, <2>3
  <2>5. /\ users'[u].ver = users[u].ver + 1 /\ users'[u].exists = users[u].exists
        /\ users'[u].active = users[u].active /\ users'[u].role = users[u].role
        /\ users'[u].pw = users[u].pw
    BY <2>2, <2>3
  <2> QED
    BY <1>1, <1>2, <2>1, <2>3, <2>4, <2>5, RevokeKeeps
<1>5. CASE ResetPassword
  <2> DEFINE u == token.user
             new == [users[u] EXCEPT !.pw = @ + 1, !.ver = @ + 1]
  <2>1. token # NoToken
    BY <1>5 DEF ResetPassword, NoToken
  <2>2. u \in Users /\ token.ver = users[u].ver
    BY <1>5, <2>1, TokenTyped DEF AccountsInv, ResetPassword, Valid
  <2>3. users' = [users EXCEPT ![u] = new] /\ users[u].ver < MaxVersion /\ Apart(u)
        /\ UNCHANGED <<grants, token, calls>>
    BY <1>1, <1>5, <2>2 DEF ResetPassword
  <2> HIDE DEF u
  <2>4. /\ new \in User /\ new.ver = users[u].ver + 1 /\ new.exists = users[u].exists
        /\ new.active = users[u].active /\ new.role = users[u].role
        /\ new.pw = users[u].pw + 1
    BY <1>1, <1>3, <2>2, <2>3 DEF User
  <2> HIDE DEF new
  <2>5. users' \in [Users -> User] /\ \A v \in Users : users'[v] = IF v = u THEN new ELSE users[v]
    BY <1>1, <2>2, <2>3, <2>4
  <2>6. \A v \in Users : v # u => users'[v] = users[v] /\ grants' = grants
    BY <2>3, <2>5
  <2>7. /\ users'[u].ver = users[u].ver + 1 /\ users'[u].exists = users[u].exists
        /\ users'[u].active = users[u].active /\ users'[u].role = users[u].role
        /\ users'[u].pw = users[u].pw + 1
    BY <2>2, <2>4, <2>5
  <2> QED
    BY <1>1, <1>2, <2>3, <2>5, <2>6, <2>7, RevokeKeeps
<1>6. ASSUME NEW r \in Roles, UpdateRole(r) PROVE AccountsInv'
  <2>1. PICK perms \in Selections :
          /\ grants' = [grants EXCEPT ![r] = WithRead(perms)]
          /\ \A u \in UsersOf(r) : users[u].ver < MaxVersion /\ Apart(u)
          /\ users' = [u \in Users |-> [users[u] EXCEPT !.ver = IF u \in UsersOf(r) THEN @ + 1
                                                                ELSE @]]
          /\ UNCHANGED <<token, calls>>
    BY <1>6 DEF UpdateRole
  <2>2. WithRead(perms) \in SUBSET Perms /\ r \in AnyRole
    BY AccountsAssumption DEF WithRead, AnyRole
  <2>3. grants' \in [AnyRole -> SUBSET Perms]
        /\ \A q \in AnyRole : q # r => grants'[q] = grants[q]
    BY <1>1, <2>1, <2>2
  <2>4. ASSUME NEW u \in Users, u \in UsersOf(r)
        PROVE  /\ users'[u] \in User /\ users'[u].ver = users[u].ver + 1
               /\ users'[u].exists = users[u].exists /\ users'[u].active = users[u].active
               /\ users'[u].role = users[u].role /\ users'[u].pw = users[u].pw /\ Apart(u)
    <3>1. users'[u] = [users[u] EXCEPT !.ver = @ + 1] /\ users[u] \in User
          /\ users[u].ver + 1 \in Versions
      BY <1>1, <1>3, <2>1, <2>4
    <3> QED
      BY <2>1, <2>4, <3>1 DEF User
  <2>5. ASSUME NEW u \in Users, u \notin UsersOf(r)
        PROVE  users'[u] = users[u]
    <3>1. users'[u] = [users[u] EXCEPT !.ver = @] /\ users[u] \in User
      BY <1>1, <2>1, <2>5
    <3> QED
      BY <3>1 DEF User
  <2>6. users' \in [Users -> User]
    <3>1. \A u \in Users : users'[u] \in User
      BY <1>1, <2>4, <2>5
    <3> QED
      BY <2>1, <3>1
  <2>7. ASSUME NEW u \in Users, u \notin UsersOf(r), users[u].exists
        PROVE  grants[users[u].role] \subseteq grants'[users[u].role]
    BY <1>1, <2>3, <2>7 DEF UsersOf, User
  <2> QED
    BY <1>1, <1>2, <2>1, <2>3, <2>4, <2>5, <2>6, <2>7, RevokeKeeps
<1> QED
  BY <1>4, <1>5, <1>6

\* The commit of the only edit in flight: it changes what tokens know only with a new
\* version, and leaves an administrator.
LEMMA CommitEditKeeps ==
  ASSUME AccountsInv, NEW h \in RequestHandlers, CommitEdit(h)
  PROVE  /\ AccountsInv'
         /\ \A u \in Users : Onward(u)
<1> DEFINE u == calls[h].id
           c == calls[h].change
           pw == IF c.cred THEN users[u].pw + 1 ELSE users[u].pw
           role == IF c.role = Same THEN users[u].role ELSE c.role
           active == IF c.active = Same THEN users[u].active ELSE c.active = "on"
           ver == IF Revokes(c) THEN users[u].ver + 1 ELSE users[u].ver
           new == [users[u] EXCEPT !.pw = pw, !.role = role, !.active = active, !.ver = ver]
<1>1. /\ calls[h].op = "edit" /\ u \in Users /\ c \in AnyChange /\ EditSound(calls[h])
      /\ UNCHANGED <<grants, token>> /\ calls' = [calls EXCEPT ![h] = NoCall]
  BY CallTyped DEF CommitEdit, AccountsInv, EditsSound, Return
<1>2. /\ users \in [Users -> User] /\ users[u].ver \in Int /\ users[u].pw \in Int
      /\ users[u].pw <= users[u].ver /\ users[u].pw >= 0 /\ users[u].ver <= MaxVersion
  BY <1>1, AccountsAssumption
  DEF AccountsInv, AccountsTypeOK, PasswordsVersioned, User, Versions
<1>3. /\ users[u].exists /\ calls[h].ver = users[u].ver
      /\ Revokes(c) => users[u].ver < MaxVersion
      /\ Drops(u, c) => \E v \in Admins : v # u
  BY <1>1 DEF EditSound
<1>4. users' = [users EXCEPT ![u] = new]
  <2> DEFINE written == IF Revokes(c) THEN calls[h].ver + 1 ELSE users[u].ver
  <2>1. users' = [users EXCEPT ![u] = [users[u] EXCEPT !.pw = pw, !.role = role,
                                         !.active = active, !.ver = written]]
    BY Zenon DEF CommitEdit
  <2>2. written = ver
    BY <1>3
  <2> HIDE DEF pw, role, active, ver, written
  <2> QED
    BY <2>1, <2>2
<1>5. /\ pw \in Versions /\ role \in AnyRole /\ active \in BOOLEAN /\ ver \in Versions
      /\ pw <= ver /\ users[u].ver <= ver
  <2>1. c.cred \in BOOLEAN /\ c.role \in AnyRole \cup {Same} /\ users[u].role \in AnyRole
        /\ users[u].active \in BOOLEAN
    BY <1>1, <1>2 DEF AnyChange, User
  <2>2. c.cred => Revokes(c)
    BY DEF Revokes
  <2>3. ver \in Versions /\ users[u].ver <= ver
    BY <1>2, <1>3, AccountsAssumption DEF Versions
  <2>4. pw \in Versions /\ pw <= ver
    <3>1. CASE Revokes(c)
      BY <1>2, <1>3, <3>1, AccountsAssumption DEF Versions
    <3>2. CASE ~Revokes(c)
      BY <1>2, <2>2, <3>2, AccountsAssumption DEF Versions
    <3> QED
      BY <3>1, <3>2
  <2>5. role \in AnyRole /\ active \in BOOLEAN
    BY <2>1
  <2> QED
    BY <2>3, <2>4, <2>5
<1>6. ver = users[u].ver =>
        ~Revokes(c) /\ pw = users[u].pw /\ role = users[u].role
        /\ (users[u].active => active)
  <2>1. ver = users[u].ver => ~Revokes(c)
    BY <1>2
  <2>2. ~Revokes(c) => ~c.cred /\ c.role = Same /\ c.active # "off"
    BY DEF Revokes
  <2>3. c.active \in {"on", "off", Same}
    BY <1>1 DEF AnyChange
  <2> QED
    BY <2>1, <2>2, <2>3
<1>7. users[u].role = "admin" /\ ~Drops(u, c) =>
        role = "admin" /\ (users[u].active => active)
  <2>1. c.active \in {"on", "off", Same}
    BY <1>1 DEF AnyChange
  <2> QED
    BY <2>1 DEF Drops
<1> HIDE DEF pw, role, active, ver, c
<1>8. /\ new \in User /\ new.exists = users[u].exists /\ new.pw = pw /\ new.role = role
      /\ new.active = active /\ new.ver = ver
  BY <1>1, <1>2, <1>5 DEF User
<1> HIDE DEF new, u
<1>9. users' \in [Users -> User] /\ \A v \in Users : users'[v] = IF v = u THEN new ELSE users[v]
  BY <1>1, <1>2, <1>4, <1>8
<1>10. ASSUME NEW v \in Users PROVE Onward(v)
  <2>1. CASE v = u
    BY <1>2, <1>3, <1>5, <1>6, <1>8, <1>9, <2>1 DEF Onward, Active
  <2>2. CASE v # u
    <3>1. users'[v] = users[v] /\ users[v] \in User /\ users[v].ver \in Int
      BY <1>9, <2>2, UserTyped DEF AccountsInv
    <3>2. users[v].pw <= users[v].ver /\ users[v].ver <= users[v].ver
      BY <3>1 DEF AccountsInv, PasswordsVersioned
    <3> QED
      BY <3>1, <3>2 DEF Onward, Active
  <2> QED
    BY <2>1, <2>2
<1>11. \A g \in RequestHandlers : calls'[g] = IF g = h THEN NoCall ELSE calls[g]
  BY <1>1 DEF AccountsInv, AccountsTypeOK
<1>12. NoCall \in Calls /\ NoCall.op = "none"
  BY DEF NoCall, Calls
<1>13. AccountsTypeOK'
  BY <1>1, <1>9, <1>12 DEF AccountsInv, AccountsTypeOK
<1>14. \A g \in RequestHandlers : calls'[g].op # "edit"
  BY <1>1, <1>11, <1>12 DEF AccountsInv, OneEdit
<1>15. OneEdit' /\ EditsSound' /\ PasswordsVersioned'
  BY <1>10, <1>14, AccountsGoOn DEF OneEdit, EditsSound
<1>16. ReadsCurrent'
  <2>1. ASSUME NEW g \in RequestHandlers, calls'[g].op \in {"login", "reset"}
        PROVE  Current(calls[g].read, calls[g].id)'
    <3>1. calls'[g] = calls[g]
      BY <1>11, <1>12, <2>1
    <3>2. PICK x, v : x = calls[g].read /\ v = calls[g].id
      OBVIOUS
    <3>3. Current(x, v)'
      BY <1>10, <2>1, <3>1, <3>2, AccountsGoOn
    <3> QED
      BY <3>1, <3>2, <3>3 DEF Current, Active
  <2> QED
    BY <2>1 DEF ReadsCurrent
<1>17. TokenCurrent'
  <2> SUFFICES ASSUME token # NoToken PROVE TokenCurrent'
    BY <1>1 DEF TokenCurrent
  <2>1. PICK x, v : x = token /\ v = token.user
    OBVIOUS
  <2>2. Current(x, v)' /\ (x.ver = users'[v].ver => x.ver = users[v].ver)
    BY <1>10, <2>1, AccountsGoOn
  <2>3. x.ver = users'[v].ver => x.perms \subseteq grants[x.role]
    BY <2>1, <2>2 DEF AccountsInv, TokenCurrent
  <2> QED
    BY <1>1, <2>1, <2>2, <2>3 DEF TokenCurrent, Current, Active
<1>18. AdminRemains'
  <2>1. \A v \in Admins : v # u => v \in Admins'
    BY <1>9 DEF Admins, Active
  <2>2. (u \in Admins /\ ~Drops(u, c)) => u \in Admins'
    BY <1>1, <1>7, <1>8, <1>9 DEF Admins, Active
  <2>3. u \in Admins /\ Drops(u, c) => \E v \in Admins : v # u
    BY <1>3
  <2>4. Admins # {}
    BY DEF AccountsInv, AdminRemains
  <2>5. PICK v : v \in Admins /\ (v # u \/ ~Drops(u, c))
    BY <2>3, <2>4
  <2> QED
    BY <2>1, <2>2, <2>5 DEF AdminRemains
<1> QED
  BY <1>10, <1>13, <1>15, <1>16, <1>17, <1>18 DEF AccountsInv

LEMMA NextAccounts ==
  ASSUME EditsApart, AccountsInv, [AccountsNext]_accountVars
  PROVE  AccountsInv'
<1>1. CASE UNCHANGED accountVars
  BY <1>1 DEF accountVars, AccountsInv, AccountsTypeOK, PasswordsVersioned, OneEdit, EditsSound,
     EditSound, Drops, ReadsCurrent, TokenCurrent, Current, AdminRemains, Admins, Active
<1>2. ASSUME NEW h \in RequestHandlers, NEW u \in Users, Begins(h, u) PROVE AccountsInv'
  BY <1>2, BeginReadKeeps, BeginEditKeeps DEF Begins
<1>3. ASSUME NEW h \in RequestHandlers, Admit(h) \/ CommitEdit(h) \/ SendLink(h)
      PROVE  AccountsInv'
  BY <1>3, SignKeeps, CommitEditKeeps
<1>4. ASSUME NEW u \in Users, Create(u) PROVE AccountsInv'
  BY <1>4, CreateKeeps
<1>5. ASSUME ResetPassword \/ (\E u \in Users : Logout(u)) \/ \E r \in Roles : UpdateRole(r)
      PROVE  AccountsInv'
  BY <1>5, RevokingKeeps
<1>6. CASE Expire \/ Refresh \/ Boot
  BY <1>6, TokenKeeps, BootKeeps
<1> QED
  BY <1>1, <1>2, <1>3, <1>4, <1>5, <1>6 DEF AccountsNext

LEMMA AlwaysAccounts ==
  ASSUME EditsApart
  PROVE  AccountsSpec => []AccountsInv
<1>1. AccountsInv /\ [AccountsNext]_accountVars => AccountsInv'
  BY NextAccounts
<1> QED
  BY <1>1, InitAccounts, PTL DEF AccountsSpec

-----------------------------------------------------------------------------
(* Theorems *)

\* Accounts, permissions, tokens and handlers have the values the code writes, and no
\* version is written that skips one.
THEOREM AccountsTyped ==
  ASSUME EditsApart
  PROVE  AccountsSpec => []AccountsTypeOK
<1>1. AccountsInv => AccountsTypeOK
  BY DEF AccountsInv
<1> QED
  BY <1>1, AlwaysAccounts, PTL

\* Whoever is let in knows the present password and was told the present role and no
\* permission that it has lost (JwtStrategy.validate and the tokenVersion of each change).
THEOREM SessionsAreCurrent ==
  ASSUME EditsApart
  PROVE  AccountsSpec => []SessionsCurrent
<1>1. AccountsInv => SessionsCurrent
  BY DEF AccountsInv, SessionsCurrent, TokenCurrent, Current, Valid
<1> QED
  BY <1>1, AlwaysAccounts, PTL

\* A version never comes back: every step takes every account on, or leaves it.
LEMMA VersionsRise ==
  ASSUME EditsApart, AccountsInv, [AccountsNext]_accountVars, NEW u \in Users
  PROVE  users[u].ver <= users'[u].ver
<1>1. /\ users \in [Users -> User] /\ users[u].ver \in Int
  BY UserTyped DEF AccountsInv, AccountsTypeOK
<1>2. CASE UNCHANGED users
  BY <1>1, <1>2
<1>3. ASSUME NEW h \in RequestHandlers, CommitEdit(h) PROVE users[u].ver <= users'[u].ver
  BY <1>3, CommitEditKeeps DEF Onward
<1>4. ASSUME NEW v \in Users, Create(v) \/ Logout(v) PROVE users[u].ver <= users'[u].ver
  <2>1. CASE Create(v)
    <3>1. PICK role \in AnyRole, active \in BOOLEAN :
            users' = [users EXCEPT ![v].exists = TRUE, ![v].role = role, ![v].active = active]
      BY <2>1 DEF Create
    <3> QED
      BY <1>1, <3>1 DEF User
  <2>2. CASE Logout(v)
    BY <1>1, <2>2 DEF Logout, User
  <2> QED
    BY <1>4, <2>1, <2>2
<1>5. ASSUME NEW r \in Roles, UpdateRole(r) PROVE users[u].ver <= users'[u].ver
  BY <1>1, <1>5 DEF UpdateRole, User
<1>6. CASE ResetPassword
  BY <1>1, <1>6 DEF ResetPassword, User
<1>7. \/ UNCHANGED users \/ ResetPassword \/ (\E h \in RequestHandlers : CommitEdit(h))
      \/ (\E v \in Users : Create(v) \/ Logout(v)) \/ \E r \in Roles : UpdateRole(r)
  BY DEF AccountsNext, accountVars, Admit, SendLink, Begins, BeginLogin, BeginReset, BeginUpdate,
         BeginProfile, BeginDelete, BeginEdit, Expire, Refresh, Boot
<1> QED
  BY <1>2, <1>3, <1>4, <1>5, <1>6, <1>7

\* A session or a link that is refused once is refused for good: no activation of the
\* account, no renewal and no late write of a version brings it back.
THEOREM RefusalsAreFinal ==
  ASSUME EditsApart
  PROVE  AccountsSpec => RefusedForGood
<1>1. ASSUME AccountsInv, AccountsInv', [AccountsNext]_accountVars, token # NoToken, ~Valid
      PROVE  ~Valid'
  <2>1. token.user \in Users /\ token.ver \in Versions /\ token \in Token
    BY <1>1, TokenTyped DEF AccountsInv
  <2>2. token.ver < users[token.user].ver
    <3>1. token.ver <= users[token.user].ver /\ token.ver # users[token.user].ver
      BY <1>1, ValidIsCurrent DEF AccountsInv, TokenCurrent, Current
    <3>2. users[token.user].ver \in Int /\ token.ver \in Int
      BY <1>1, <2>1, UserTyped, AccountsAssumption DEF AccountsInv, Versions
    <3> QED
      BY <3>1, <3>2
  <2>3. token'.user = token.user /\ token'.ver = token.ver
    <3>1. CASE UNCHANGED token
      BY <3>1
    <3>2. ASSUME NEW h \in RequestHandlers, Admit(h) \/ SendLink(h) PROVE UNCHANGED token
      BY <1>1, <3>2 DEF Admit, SendLink, Issue
    <3>3. CASE Expire
      BY <2>1, <3>3 DEF Expire, Token
    <3>4. ~Refresh
      BY <1>1 DEF Refresh, Renewable
    <3>5. UNCHANGED token \/ Expire \/ Refresh \/ \E h \in RequestHandlers : Admit(h) \/ SendLink(h)
      BY <1>1 DEF AccountsNext, accountVars, Begins, BeginLogin, BeginReset, BeginUpdate,
         BeginProfile, BeginDelete, BeginEdit, CommitEdit, Create, Logout, UpdateRole,
         ResetPassword, Boot
    <3> QED
      BY <3>1, <3>2, <3>3, <3>4, <3>5
  <2>4. users[token.user].ver <= users'[token.user].ver
        /\ users[token.user].ver \in Int /\ users'[token.user].ver \in Int
    <3>1. \A u \in Users : users[u].ver <= users'[u].ver
      BY <1>1, VersionsRise
    <3>2. users[token.user].ver \in Int /\ users'[token.user].ver \in Int
      BY <1>1, <2>1, AccountsAssumption DEF AccountsInv, AccountsTypeOK, User, Versions
    <3> QED
      BY <2>1, <3>1, <3>2
  <2>5. token'.ver # users'[token'.user].ver
    BY <2>1, <2>2, <2>3, <2>4, AccountsAssumption DEF Versions
  <2> QED
    BY <2>5 DEF Valid
<1>2. AccountsInv /\ AccountsInv' /\ [AccountsNext]_accountVars =>
        [token # NoToken /\ ~Valid => ~Valid']_accountVars
  BY <1>1
<1> QED
  BY <1>2, AlwaysAccounts, PTL DEF AccountsSpec, RefusedForGood

-----------------------------------------------------------------------------
(* The administrators, when edits overlap *)

\* An edit in flight will take an administrator away, whatever the account was when the
\* edit began.
Removing(h) == calls[h].op = "edit" /\ Drops(calls[h].id, calls[h].change)
OneRemoval == \A g, h \in RequestHandlers : Removing(g) /\ Removing(h) => g = h

\* Without the bounds of the versions, which overlapping edits write in any order.
Row == [exists: BOOLEAN, active: BOOLEAN, role: AnyRole, ver: Int, pw: Int]
Asked(r) == r.op = "edit" => r.id \in Users /\ r.change \in AnyChange /\ r.ver \in Int

RosterInv ==
  /\ users \in [Users -> Row]
  /\ calls = [h \in RequestHandlers |-> calls[h]] /\ \A h \in RequestHandlers : Asked(calls[h])
  /\ AdminRemains
  /\ \A h \in RequestHandlers : Removing(h) => \E v \in Admins : v # calls[h].id

\* The same administrators, and no edit that was not there.
LEMMA RosterKept ==
  ASSUME RosterInv, users' \in [Users -> Row],
         \A u \in Users : /\ users'[u].exists = users[u].exists
                          /\ users'[u].active = users[u].active /\ users'[u].role = users[u].role,
         calls' = [h \in RequestHandlers |-> calls'[h]],
         \A h \in RequestHandlers : calls'[h] = calls[h] \/ calls'[h].op # "edit"
  PROVE  RosterInv'
<1>1. Admins' = Admins
  BY DEF Admins, Active
<1>2. ASSUME NEW h \in RequestHandlers
      PROVE  Asked(calls[h])' /\ (Removing(h)' => \E v \in Admins' : v # calls'[h].id)
  BY <1>1 DEF RosterInv, Asked, Removing, Drops
<1> QED
  BY <1>1, <1>2 DEF RosterInv, AdminRemains

LEMMA CallWritten ==
  ASSUME RosterInv, NEW h \in RequestHandlers, NEW r, calls' = [calls EXCEPT ![h] = r]
  PROVE  /\ calls' = [g \in RequestHandlers |-> calls'[g]]
         /\ calls'[h] = r /\ \A g \in RequestHandlers : g # h => calls'[g] = calls[g]
  BY DEF RosterInv

LEMMA RosterBegun ==
  ASSUME RosterInv, NEW h \in RequestHandlers, NEW u \in Users, Begins(h, u)
  PROVE  RosterInv'
<1>1. CASE BeginLogin(h, u) \/ BeginReset(h, u)
  <2>1. PICK op \in {"login", "reset"} :
          calls' = [calls EXCEPT ![h] = [op |-> op, id |-> u, read |-> users[u]]]
    BY <1>1 DEF BeginLogin, BeginReset, Call
  <2>2. PICK r : r = [op |-> op, id |-> u, read |-> users[u]]
    OBVIOUS
  <2>3. r.op # "edit" /\ calls' = [calls EXCEPT ![h] = r] /\ users' = users
    BY <1>1, <2>1, <2>2 DEF BeginLogin, BeginReset
  <2> QED
    BY <2>3, CallWritten, RosterKept DEF RosterInv
<1>2. CASE BeginUpdate(h, u) \/ BeginProfile(h, u) \/ BeginDelete(h, u)
  <2>1. PICK c \in AnyChange : BeginEdit(h, u, c) /\ (Drops(u, c) => EnoughAdmins)
    BY <1>2, BegunEdit
  <2>2. PICK r : r = [op |-> "edit", id |-> u, change |-> c, ver |-> users[u].ver]
    OBVIOUS
  <2>3. calls' = [calls EXCEPT ![h] = r] /\ users' = users
    BY <2>1, <2>2 DEF BeginEdit, Call
  <2>4. r.op = "edit" /\ r.id = u /\ r.change = c /\ r.ver \in Int
    BY <2>2 DEF RosterInv, Row
  <2>5. /\ calls' = [g \in RequestHandlers |-> calls'[g]]
        /\ calls'[h] = r /\ \A g \in RequestHandlers : g # h => calls'[g] = calls[g]
    BY <2>3, CallWritten
  <2>6. Drops(u, c) => \E v \in Admins : v # u
    BY <2>1, AnotherAdmin
  <2>7. Admins' = Admins
    BY <2>3 DEF Admins, Active
  <2>8. ASSUME NEW g \in RequestHandlers
        PROVE  Asked(calls[g])' /\ (Removing(g)' => \E v \in Admins' : v # calls'[g].id)
    <3>1. CASE g = h
      BY <2>3, <2>4, <2>5, <2>6, <2>7, <3>1 DEF Asked, Removing, Drops
    <3>2. CASE g # h
      BY <2>3, <2>5, <2>7, <3>2 DEF RosterInv, Asked, Removing, Drops
    <3> QED
      BY <3>1, <3>2
  <2> QED
    BY <2>3, <2>5, <2>7, <2>8 DEF RosterInv, AdminRemains
<1> QED
  BY <1>1, <1>2 DEF Begins

\* An edit takes one administrator at most, another edit none.
LEMMA RosterCommitted ==
  ASSUME RosterInv, OneRemoval, NEW h \in RequestHandlers, CommitEdit(h)
  PROVE  RosterInv'
<1> DEFINE c == calls[h].change
           pw == IF c.cred THEN users[calls[h].id].pw + 1 ELSE users[calls[h].id].pw
           role == IF c.role = Same THEN users[calls[h].id].role ELSE c.role
           active == IF c.active = Same THEN users[calls[h].id].active ELSE c.active = "on"
           ver == IF Revokes(c) THEN calls[h].ver + 1 ELSE users[calls[h].id].ver
<1>1. /\ calls[h].op = "edit" /\ calls[h].id \in Users /\ c \in AnyChange /\ calls[h].ver \in Int
      /\ calls' = [calls EXCEPT ![h] = NoCall]
  BY DEF CommitEdit, Return, RosterInv, Asked
<1>2. PICK u \in Users : u = calls[h].id
  BY <1>1
<1>3. PICK new : new = [users[u] EXCEPT !.pw = pw, !.role = role, !.active = active, !.ver = ver]
  OBVIOUS
<1>4. users' = [users EXCEPT ![u] = new]
  <2>1. users' = [users EXCEPT ![calls[h].id] =
                    [users[calls[h].id] EXCEPT !.pw = pw, !.role = role,
                                               !.active = active, !.ver = ver]]
    BY Zenon DEF CommitEdit
  <2> HIDE DEF pw, role, active, ver
  <2> QED
    BY <1>2, <1>3, <2>1
<1>5. users[u] \in Row
  BY DEF RosterInv
<1>6. pw \in Int /\ ver \in Int /\ role \in AnyRole /\ active \in BOOLEAN
  <2>1. /\ c.cred \in BOOLEAN /\ c.role \in AnyRole \cup {Same} /\ users[u].role \in AnyRole
        /\ users[u].active \in BOOLEAN /\ users[u].pw \in Int /\ users[u].ver \in Int
    BY <1>1, <1>5 DEF AnyChange, Row
  <2>2. pw \in Int /\ ver \in Int
    BY <1>1, <1>2, <2>1
  <2>3. role \in AnyRole
    BY <1>2, <2>1
  <2>4. active \in BOOLEAN
    BY <1>2, <2>1
  <2> QED
    BY <2>2, <2>3, <2>4
<1>7. users[u].role = "admin" /\ users[u].active /\ ~Drops(u, c) => role = "admin" /\ active
  <2>1. c.active \in {"on", "off", Same}
    BY <1>1 DEF AnyChange
  <2> QED
    BY <1>2, <2>1 DEF Drops
<1> HIDE DEF c, pw, role, active, ver
<1>8. /\ new \in Row /\ new.exists = users[u].exists
      /\ new.role = role /\ new.active = active
  BY <1>3, <1>5, <1>6 DEF Row
<1>9. /\ users' \in [Users -> Row]
      /\ \A v \in Users : users'[v] = IF v = u THEN new ELSE users[v]
  BY <1>4, <1>8 DEF RosterInv
<1>10. /\ calls' = [g \in RequestHandlers |-> calls'[g]]
       /\ calls'[h] = NoCall /\ \A g \in RequestHandlers : g # h => calls'[g] = calls[g]
  BY <1>1, CallWritten
<1>11. NoCall.op # "edit"
  BY DEF NoCall
<1>12. \A v \in Admins : v # u \/ ~Drops(u, c) => v \in Admins'
  BY <1>7, <1>8, <1>9 DEF Admins, Active
<1>13. AdminRemains'
  <2>1. Drops(u, c) => \E v \in Admins : v # u
    BY <1>1, <1>2 DEF RosterInv, Removing, c
  <2>2. Admins # {}
    BY DEF RosterInv, AdminRemains
  <2> QED
    BY <1>12, <2>1, <2>2 DEF AdminRemains
<1>14. ASSUME NEW g \in RequestHandlers, Removing(g)'
       PROVE  \E v \in Admins' : v # calls'[g].id
  <2>1. g # h /\ calls'[g] = calls[g] /\ calls[g].op = "edit"
    BY <1>10, <1>11, <1>14 DEF Removing
  <2>2. calls[g].id \in Users
    BY <2>1 DEF RosterInv, Asked
  <2>3. CASE calls[g].id = u
    <3>1. \E v \in Admins : v # u
      <4>1. CASE Removing(g)
        BY <2>3, <4>1 DEF RosterInv
      <4>2. CASE ~Removing(g)
        <5>1. u \notin Admins
          BY <1>14, <2>1, <2>3, <4>2 DEF Removing, Drops, Admins
        <5> QED
          BY <5>1 DEF RosterInv, AdminRemains
      <4> QED
        BY <4>1, <4>2
    <3> QED
      BY <1>12, <2>1, <2>3, <3>1
  <2>4. CASE calls[g].id # u
    <3>1. Removing(g)
      BY <1>9, <1>14, <2>1, <2>2, <2>4 DEF Removing, Drops
    <3>2. ~Drops(u, c)
      BY <1>1, <1>2, <2>1, <3>1 DEF OneRemoval, Removing, c
    <3>3. \E v \in Admins : v # calls[g].id
      BY <3>1 DEF RosterInv
    <3> QED
      BY <1>12, <2>1, <3>2, <3>3
  <2> QED
    BY <2>3, <2>4
<1>15. \A g \in RequestHandlers : Asked(calls[g])'
  BY <1>10, <1>11 DEF RosterInv, Asked
<1> QED
  BY <1>9, <1>10, <1>13, <1>14, <1>15 DEF RosterInv

LEMMA RosterCreated ==
  ASSUME RosterInv, NEW u \in Users, Create(u)
  PROVE  RosterInv'
<1>1. PICK role \in AnyRole, active \in BOOLEAN :
        /\ ~users[u].exists /\ calls' = calls
        /\ users' = [users EXCEPT ![u].exists = TRUE, ![u].role = role, ![u].active = active]
  BY DEF Create
<1>2. PICK new : new = [users[u] EXCEPT !.exists = TRUE, !.role = role, !.active = active]
  OBVIOUS
<1>3. users' = [users EXCEPT ![u] = new]
  BY <1>1, <1>2
<1>4. new \in Row
  BY <1>1, <1>2 DEF RosterInv, Row
<1>5. /\ users' \in [Users -> Row]
      /\ \A v \in Users : v # u => users'[v] = users[v]
  BY <1>3, <1>4 DEF RosterInv
<1>6. u \notin Admins /\ \A v \in Admins : v \in Admins'
  BY <1>1, <1>5 DEF Admins, Active
<1>7. Admins # {}
  BY DEF RosterInv, AdminRemains
<1>8. ASSUME NEW g \in RequestHandlers, Removing(g)'
      PROVE  \E v \in Admins' : v # calls'[g].id
  <2>1. calls'[g] = calls[g] /\ calls[g].id \in Users
    BY <1>1, <1>8 DEF RosterInv, Asked, Removing
  <2>2. CASE calls[g].id = u
    BY <1>6, <1>7, <2>1, <2>2
  <2>3. CASE calls[g].id # u
    <3>1. Removing(g)
      BY <1>5, <1>8, <2>1, <2>3 DEF Removing, Drops
    <3> QED
      BY <1>6, <2>1, <3>1 DEF RosterInv
  <2> QED
    BY <2>2, <2>3
<1> QED
  BY <1>1, <1>5, <1>6, <1>7, <1>8 DEF RosterInv, AdminRemains, Asked

\* A version rises.
LEMMA RosterRevoked ==
  ASSUME RosterInv, ResetPassword \/ (\E u \in Users : Logout(u)) \/ \E r \in Roles : UpdateRole(r)
  PROVE  RosterInv'
<1>1. ASSUME NEW u \in Users, NEW n \in Int, NEW m \in Int,
             users' = [users EXCEPT ![u] = [users[u] EXCEPT !.pw = n, !.ver = m]], calls' = calls
      PROVE  RosterInv'
  <2>1. PICK new : new = [users[u] EXCEPT !.pw = n, !.ver = m]
    OBVIOUS
  <2>2. /\ new \in Row /\ new.exists = users[u].exists
        /\ new.active = users[u].active /\ new.role = users[u].role
    BY <2>1 DEF RosterInv, Row
  <2>3. /\ users' \in [Users -> Row]
        /\ \A v \in Users : users'[v] = IF v = u THEN new ELSE users[v]
    BY <1>1, <2>1, <2>2 DEF RosterInv
  <2> QED
    BY <1>1, <2>2, <2>3, RosterKept DEF RosterInv
<1>2. CASE ResetPassword
  <2>1. CASE token.user \in Users
    <3>1. PICK u \in Users : u = token.user
      BY <2>1
    <3>2. users[u].pw + 1 \in Int /\ users[u].ver + 1 \in Int
      BY DEF RosterInv, Row
    <3>3. users' = [users EXCEPT ![u] = [users[u] EXCEPT !.pw = users[u].pw + 1,
                                                         !.ver = users[u].ver + 1]]
      BY <1>2, <3>1 DEF ResetPassword, RosterInv, Row
    <3>4. PICK n \in Int, m \in Int : n = users[u].pw + 1 /\ m = users[u].ver + 1
      BY <3>2
    <3>5. users' = [users EXCEPT ![u] = [users[u] EXCEPT !.pw = n, !.ver = m]] /\ calls' = calls
      BY <1>2, <3>3, <3>4 DEF ResetPassword
    <3> QED
      BY <1>1, <3>5
  <2>2. CASE token.user \notin Users
    <3>1. users' = users /\ calls' = calls
      BY <1>2, <2>2 DEF ResetPassword, RosterInv
    <3> QED
      BY <3>1, RosterKept DEF RosterInv
  <2> QED
    BY <2>1, <2>2
<1>3. ASSUME NEW u \in Users, Logout(u) PROVE RosterInv'
  <2>1. users[u].pw \in Int /\ users[u].ver + 1 \in Int
    BY DEF RosterInv, Row
  <2>2. users' = [users EXCEPT ![u] = [users[u] EXCEPT !.pw = users[u].pw,
                                                       !.ver = users[u].ver + 1]]
    BY <1>3 DEF Logout, RosterInv, Row
  <2> QED
    BY <1>1, <1>3, <2>1, <2>2 DEF Logout
<1>4. ASSUME NEW r \in Roles, UpdateRole(r) PROVE RosterInv'
  <2>1. /\ users' = [u \in Users |-> [users[u] EXCEPT !.ver = IF u \in UsersOf(r) THEN @ + 1
                                                              ELSE @]]
        /\ calls' = calls
    BY <1>4 DEF UpdateRole
  <2>2. ASSUME NEW u \in Users
        PROVE  /\ users'[u] \in Row /\ users'[u].exists = users[u].exists
               /\ users'[u].active = users[u].active /\ users'[u].role = users[u].role
    <3>1. PICK ver \in Int : ver = IF u \in UsersOf(r) THEN users[u].ver + 1 ELSE users[u].ver
      BY DEF RosterInv, Row
    <3>2. users'[u] = [users[u] EXCEPT !.ver = ver]
      BY <2>1, <3>1
    <3> QED
      BY <3>1, <3>2 DEF RosterInv, Row
  <2>3. users' \in [Users -> Row]
    BY <2>1, <2>2
  <2> QED
    BY <2>1, <2>2, <2>3, RosterKept DEF RosterInv
<1> QED
  BY <1>2, <1>3, <1>4

LEMMA RosterSteps ==
  ASSUME RosterInv, OneRemoval, [AccountsNext]_accountVars
  PROVE  RosterInv'
<1>1. CASE UNCHANGED accountVars
  BY <1>1, RosterKept DEF accountVars, RosterInv
<1>2. ASSUME NEW h \in RequestHandlers, Admit(h) \/ SendLink(h) PROVE RosterInv'
  <2>1. users' = users /\ calls' = [calls EXCEPT ![h] = NoCall]
    BY <1>2 DEF Admit, SendLink, Return
  <2>2. NoCall.op # "edit"
    BY DEF NoCall
  <2> QED
    BY <2>1, <2>2, CallWritten, RosterKept DEF RosterInv
<1>3. CASE Expire \/ Refresh
  <2>1. users' = users /\ calls' = calls
    BY <1>3 DEF Expire, Refresh
  <2> QED
    BY <2>1, RosterKept DEF RosterInv
<1>4. CASE Boot
  <2>1. users' = users /\ calls' = [h \in RequestHandlers |-> NoCall]
    BY <1>4 DEF Boot
  <2>2. NoCall.op # "edit"
    BY DEF NoCall
  <2> QED
    BY <2>1, <2>2, RosterKept DEF RosterInv
<1> QED
  BY <1>1, <1>2, <1>3, <1>4, RosterBegun, RosterCommitted, RosterCreated, RosterRevoked
     DEF AccountsNext

LEMMA RosterStarts == AccountsInit => RosterInv
<1> SUFFICES ASSUME AccountsInit PROVE RosterInv
  OBVIOUS
<1>1. NoUser \in Row /\ [NoUser EXCEPT !.exists = TRUE, !.active = TRUE] \in Row
  <2>1. 0 \in Int /\ "admin" \in AnyRole
    BY DEF AnyRole
  <2> QED
    BY <2>1 DEF NoUser, Row
<1>2. users \in [Users -> Row]
  BY <1>1 DEF AccountsInit
<1>3. First \in Admins
  BY AccountsAssumption DEF AccountsInit, Admins, Active, NoUser
<1>4. /\ calls = [h \in RequestHandlers |-> calls[h]]
      /\ \A h \in RequestHandlers : calls[h].op = "none"
  BY DEF AccountsInit, NoCall
<1> QED
  BY <1>2, <1>3, <1>4 DEF RosterInv, AdminRemains, Asked, Removing

\* Edits, logins, resets and role changes may overlap as they like, without any assumption
\* on the constants: the last administrator is lost in one way only, when two edits that
\* each take an administrator away are in flight together, of which one may have begun
\* before its account became one (the count of UsersService.update and delete).
THEOREM AnAdminRemains == AccountsSpec /\ []OneRemoval => []AdminRemains
<1>1. RosterInv /\ OneRemoval /\ [AccountsNext]_accountVars => RosterInv'
  BY RosterSteps
<1>2. RosterInv => AdminRemains
  BY DEF RosterInv
<1> QED
  BY <1>1, <1>2, RosterStarts, PTL DEF AccountsSpec

-----------------------------------------------------------------------------
(* OrdersGateway: the inductive invariant *)

\* One event at a time is handled.  A socket that connects is not tracked yet.
Turns ==
  /\ \A e, f \in Events : events[e] = "checking" /\ events[f] = "checking" => e = f
  /\ \A e \in Events : events[e] = "idle" => \A s \in Sockets : checks[e][s].at = "none"
  /\ \A s \in Sockets : checks["connect"][s].at # "none" => ~sockets[s].on
  /\ \A e \in Events, s \in Sockets : checks[e][s].at # "none" => sockets[s].on

\* The adapter and socket.data agree.
InRoom(s) == sockets[s].rooms = {sockets[s].joined} \ {Nobody}

\* What the validation of a socket has found out, by how far it is.
Found(s, check) ==
  /\ check.at \notin {"none", "read"} => "session" \in allowed[s]
  /\ check.at \notin {"none", "read", "permission"} => "permission" \in allowed[s]
  /\ check.at \in {"permission", "kitchen"} =>
       users[Owner[s]].exists /\ sockets[s].role = users[Owner[s]].role
  /\ check.at \in {"move", "left", "joined"} => check.room \in allowed[s]
  /\ check.at \in {"read", "permission", "kitchen", "move"} => InRoom(s)
  /\ check.at = "left" => sockets[s].rooms = {}
  /\ check.at = "joined" => sockets[s].rooms = {check.room} \ {Nobody}

\* Who is not being validated sees what he may.
AtRest(s) == InRoom(s) /\ (sockets[s].on => MaySee(s))

Validated ==
  \A s \in Sockets : /\ \A c \in Checkers : Found(s, checks[c][s])
                     /\ Quiet(s) => AtRest(s)

GatewayShape == GatewayTypeOK /\ users \in [Users -> User]
GatewayInv == GatewayShape /\ Turns /\ Validated

-----------------------------------------------------------------------------
(* OrdersGateway: the types *)

Nowhere == Rooms \cup {Nobody}

LEMMA TargetIs ==
  ASSUME assigned \in [Users -> Kitchens \cup {Nobody}], working \subseteq Kitchens,
         NEW u \in Users, NEW role
  PROVE  Target(u, role) \in Nowhere
<1>1. KitchenOf(u) \in Nowhere
  BY DEF KitchenOf, Nowhere, Rooms
<1>2. CASE role = "cook"
  BY <1>1, <1>2 DEF Target
<1>3. CASE role = "driver"
  BY <1>3 DEF Target, Nowhere
<1>4. CASE role # "cook" /\ role # "driver"
  BY <1>4 DEF Target, Nowhere, Rooms
<1> QED
  BY <1>2, <1>3, <1>4

\* The history is of its kind and grows, but for the sockets that begin anew.
LEMMA Remembered ==
  ASSUME allowed \in [Sockets -> SUBSET (Rooms \cup {Nobody, "session", "permission"})],
         assigned' \in [Users -> Kitchens \cup {Nobody}], working' \subseteq Kitchens,
         NEW who, Remember(who)
  PROVE  /\ allowed' \in [Sockets -> SUBSET (Rooms \cup {Nobody, "session", "permission"})]
         /\ \A s \in Sockets : s \notin who => allowed[s] \subseteq allowed'[s]
         /\ \A s \in Sockets : Entitled(s)' \subseteq allowed'[s]
<1>1. ASSUME NEW s \in Sockets
      PROVE  Entitled(s)' \in SUBSET (Rooms \cup {Nobody, "session", "permission"})
  <2>1. Owner[s] \in Users
    BY GatewayAssumption
  <2>2. KitchenOf(Owner[s])' \in Rooms \cup {Nobody}
    BY <2>1 DEF KitchenOf, Rooms
  <2>3. Target(Owner[s], users[Owner[s]].role)' \in Rooms \cup {Nobody}
    BY <2>2 DEF Target, Rooms
  <2> QED
    BY <2>3 DEF Entitled
<1> QED
  BY <1>1 DEF Remember

LEMMA SocketKinds ==
  /\ Off \in Socket /\ ~Off.on /\ Off.rooms = {} /\ Off.joined = Nobody
  /\ NoCheck \in Check /\ NoCheck.at = "none"
  /\ \A at \in {"none", "read", "permission", "kitchen", "move", "left", "joined"}, room \in Nowhere :
       [at |-> at, room |-> room] \in Check
  /\ \A k \in Check : k.room \in Nowhere
  /\ \A w \in Socket : w.rooms \subseteq Rooms /\ w.joined \in Nowhere /\ w.on \in BOOLEAN
  BY AccountsAssumption DEF Off, NoCheck, Socket, Check, Versions, AnyRole, Nowhere

LEMMA SocketWrites ==
  /\ \A w \in Socket, rooms \in SUBSET Rooms, joined \in Nowhere :
       LET v == [w EXCEPT !.rooms = rooms, !.joined = joined] IN
       v \in Socket /\ v.rooms = rooms /\ v.joined = joined /\ v.on = w.on /\ v.ver = w.ver
  /\ \A w \in Socket, role \in AnyRole :
       LET v == [w EXCEPT !.role = role] IN
       /\ v \in Socket /\ v.role = role /\ v.rooms = w.rooms /\ v.joined = w.joined
       /\ v.on = w.on /\ v.ver = w.ver
  /\ \A ver \in Versions :
       LET v == [Off EXCEPT !.ver = ver] IN
       v \in Socket /\ ~v.on /\ v.rooms = {} /\ v.joined = Nobody /\ v.ver = ver
  BY SocketKinds DEF Socket, Nowhere, Off

LEMMA PersonnelRows ==
  ASSUME users \in [Users -> User], Personnel
  PROVE  /\ users' \in [Users -> User]
         /\ \A u \in Users : users[u].exists =>
              users'[u].exists /\ users'[u].role = users[u].role
<1>1. CASE \E u \in Users : Create(u)
  <2>1. PICK u \in Users, role \in AnyRole, active \in BOOLEAN :
          /\ ~users[u].exists
          /\ users' = [users EXCEPT ![u].exists = TRUE, ![u].role = role, ![u].active = active]
    BY <1>1 DEF Create
  <2> DEFINE new == [users[u] EXCEPT !.exists = TRUE, !.role = role, !.active = active]
  <2>2. users' = [users EXCEPT ![u] = new]
    BY <2>1
  <2>3. new \in User
    BY <2>1 DEF User
  <2> HIDE DEF new
  <2> QED
    BY <2>1, <2>2, <2>3
<1>2. CASE \E u \in Users : Logout(u)
  <2>1. PICK u \in Users : users[u].ver < MaxVersion /\ users' = [users EXCEPT ![u].ver = @ + 1]
    BY <1>2 DEF Logout
  <2> DEFINE new == [users[u] EXCEPT !.ver = users[u].ver + 1]
  <2>2. users' = [users EXCEPT ![u] = new]
    BY <2>1
  <2>3. users[u].ver + 1 \in Versions
    BY <2>1, AccountsAssumption DEF User, Versions
  <2>4. new \in User /\ new.exists = users[u].exists /\ new.role = users[u].role
    BY <2>1, <2>3 DEF User
  <2> HIDE DEF new
  <2> QED
    BY <2>1, <2>2, <2>4
<1>3. CASE \E r \in Roles : UpdateRole(r)
  <2>1. PICK r \in Roles : UpdateRole(r)
    BY <1>3
  <2>2. users' = [u \in Users |-> [users[u] EXCEPT !.ver = IF u \in UsersOf(r) THEN @ + 1 ELSE @]]
        /\ \A u \in UsersOf(r) : users[u].ver < MaxVersion
    BY <2>1 DEF UpdateRole
  <2>3. ASSUME NEW u \in Users
        PROVE  users'[u] \in User /\ users'[u].exists = users[u].exists
               /\ users'[u].role = users[u].role
    <3> DEFINE ver == IF u \in UsersOf(r) THEN users[u].ver + 1 ELSE users[u].ver
    <3>1. ver \in Versions
      BY <2>2, AccountsAssumption DEF User, Versions
    <3>2. users'[u] = [users[u] EXCEPT !.ver = ver]
      BY <2>2
    <3> HIDE DEF ver
    <3> QED
      BY <3>1, <3>2 DEF User
  <2> QED
    BY <2>2, <2>3
<1> QED
  BY <1>1, <1>2, <1>3, GatewayAssumption DEF Personnel

-----------------------------------------------------------------------------
(* OrdersGateway: the steps *)

\* A socket is validated once at a time.
LEMMA OneCheck ==
  ASSUME GatewayShape, Turns, NEW s \in Sockets, NEW c \in Checkers, NEW d \in Checkers,
         checks[c][s].at # "none", checks[d][s].at # "none"
  PROVE  c = d
  BY GatewayAssumption DEF GatewayShape, GatewayTypeOK, Turns, Checkers

\* Nothing happens to sockets and their validation; what spoke for them is not forgotten.
LEMMA OthersKeep ==
  ASSUME GatewayInv, UNCHANGED <<sockets, checks>>, events' \in [Events -> {"idle", "checking"}],
         \A e \in Events : \/ events'[e] = events[e]
                           \/ events'[e] = "idle" /\ \A s \in Sockets : checks[e][s].at = "none",
         assigned' \in [Users -> Kitchens \cup {Nobody}], working' \subseteq Kitchens,
         users' \in [Users -> User],
         \A u \in Users : users[u].exists => users'[u].exists /\ users'[u].role = users[u].role,
         Remember({})
  PROVE  GatewayInv'
<1>1. /\ allowed' \in [Sockets -> SUBSET (Rooms \cup {Nobody, "session", "permission"})]
      /\ \A s \in Sockets : allowed[s] \subseteq allowed'[s]
  BY Remembered DEF GatewayInv, GatewayShape, GatewayTypeOK
<1>2. GatewayShape'
  BY <1>1 DEF GatewayInv, GatewayShape, GatewayTypeOK
<1>3. Turns'
  BY DEF GatewayInv, Turns
<1>4. \A s \in Sockets : Owner[s] \in Users
  BY GatewayAssumption
<1>5. ASSUME NEW s \in Sockets, NEW c \in Checkers
      PROVE  Found(s, checks[c][s])'
  BY <1>1, <1>4 DEF GatewayInv, Validated, Found, InRoom
<1>6. ASSUME NEW s \in Sockets, Quiet(s)'
      PROVE  AtRest(s)'
  BY <1>1, <1>6 DEF GatewayInv, Validated, Quiet, AtRest, InRoom, MaySee
<1> QED
  BY <1>2, <1>3, <1>5, <1>6 DEF GatewayInv, Validated

\* A validation goes on, or ends.
LEMMA CheckKeeps ==
  ASSUME GatewayInv, NEW s \in Sockets, NEW c \in Checkers, checks[c][s].at # "none",
         NEW w \in Socket, NEW k \in Check,
         sockets' = [sockets EXCEPT ![s] = w], checks' = [checks EXCEPT ![c][s] = k],
         UNCHANGED <<events, assigned, working, users>>, Remember({}),
         w.on = (sockets[s].on \/ (c = "connect" /\ k.at = "none")),
         k.at # "none" => Found(s, k)',
         k.at = "none" => InRoom(s)' /\ (w.rooms # {} =>
                                           w.rooms \cup {"session", "permission"} \subseteq allowed[s])
  PROVE  GatewayInv'
<1>1. /\ allowed' \in [Sockets -> SUBSET (Rooms \cup {Nobody, "session", "permission"})]
      /\ \A t \in Sockets : allowed[t] \subseteq allowed'[t]
  BY Remembered DEF GatewayInv, GatewayShape, GatewayTypeOK
<1>2. /\ sockets'[s] = w /\ \A t \in Sockets : t # s => sockets'[t] = sockets[t]
      /\ checks'[c][s] = k
      /\ \A d \in Checkers, t \in Sockets : d # c \/ t # s => checks'[d][t] = checks[d][t]
      /\ sockets' \in [Sockets -> Socket] /\ checks' \in [Checkers -> [Sockets -> Check]]
  BY DEF GatewayInv, GatewayShape, GatewayTypeOK
<1>3. GatewayShape'
  BY <1>1, <1>2 DEF GatewayInv, GatewayShape, GatewayTypeOK
<1>5. \A d \in Checkers : d # c => checks[d][s].at = "none"
  BY OneCheck DEF GatewayInv
<1>4. Turns'
  <2>1. events' = events /\ \A e \in Events : e \in Checkers /\ e # "connect"
    BY GatewayAssumption DEF Checkers
  <2>2. /\ \A e, f \in Events : events[e] = "checking" /\ events[f] = "checking" => e = f
        /\ \A e \in Events : events[e] = "idle" => \A t \in Sockets : checks[e][t].at = "none"
        /\ \A t \in Sockets : checks["connect"][t].at # "none" => ~sockets[t].on
        /\ \A e \in Events, t \in Sockets : checks[e][t].at # "none" => sockets[t].on
        /\ "connect" \in Checkers
    BY DEF GatewayInv, Turns, Checkers
  <2>3. ASSUME NEW e \in Events, events'[e] = "idle", NEW t \in Sockets
        PROVE  checks'[e][t].at = "none"
    BY <1>2, <2>1, <2>2, <2>3
  <2>4. ASSUME NEW t \in Sockets, checks'["connect"][t].at # "none"
        PROVE  ~sockets'[t].on
    <3>1. CASE t = s /\ c = "connect"
      BY <1>2, <2>2, <2>4, <3>1
    <3>2. CASE t = s /\ c # "connect"
      BY <1>2, <1>5, <2>2, <2>4, <3>2
    <3>3. CASE t # s
      BY <1>2, <2>2, <2>4, <3>3
    <3> QED
      BY <3>1, <3>2, <3>3
  <2>5. ASSUME NEW e \in Events, NEW t \in Sockets, checks'[e][t].at # "none"
        PROVE  sockets'[t].on
    <3>1. CASE t = s /\ c = e
      BY <1>2, <2>2, <3>1
    <3>2. CASE t = s /\ c # e
      BY <1>2, <1>5, <2>1, <2>5, <3>2
    <3>3. CASE t # s
      BY <1>2, <2>1, <2>2, <2>5, <3>3
    <3> QED
      BY <3>1, <3>2, <3>3
  <2> QED
    BY <2>1, <2>2, <2>3, <2>4, <2>5 DEF Turns
<1>6. ASSUME NEW t \in Sockets, NEW d \in Checkers
      PROVE  Found(t, checks[d][t])'
  <2>1. CASE t = s /\ d = c
    <3>1. CASE k.at # "none"
      BY <1>2, <2>1, <3>1 DEF Found, InRoom
    <3>2. CASE k.at = "none"
      BY <1>2, <2>1, <3>2 DEF Found
    <3> QED
      BY <3>1, <3>2
  <2>2. CASE t = s /\ d # c
    BY <1>2, <1>5, <2>2 DEF Found
  <2>3. CASE t # s
    <3>1. Found(t, checks[d][t])
      BY DEF GatewayInv, Validated
    <3> QED
      BY <1>1, <1>2, <2>3, <3>1 DEF Found, InRoom
  <2> QED
    BY <2>1, <2>2, <2>3
<1>7. ASSUME NEW t \in Sockets, Quiet(t)'
      PROVE  AtRest(t)'
  <2>1. CASE t = s
    <3>1. k.at = "none"
      BY <1>2, <1>7, <2>1 DEF Quiet
    <3> QED
      BY <1>1, <1>2, <2>1, <3>1 DEF AtRest, InRoom, MaySee
  <2>2. CASE t # s
    <3>1. AtRest(t)
      BY <1>2, <1>7, <2>2 DEF GatewayInv, Validated, Quiet
    <3> QED
      BY <1>1, <1>2, <2>2, <3>1 DEF AtRest, InRoom, MaySee
  <2> QED
    BY <2>1, <2>2
<1> QED
  BY <1>3, <1>4, <1>6, <1>7 DEF GatewayInv, Validated

\* A socket goes, with all that is still done to it.
LEMMA DropKeeps ==
  ASSUME GatewayInv, NEW s \in Sockets, Drop(s),
         UNCHANGED <<events, assigned, working, users>>, Remember({})
  PROVE  GatewayInv'
<1>1. /\ allowed' \in [Sockets -> SUBSET (Rooms \cup {Nobody, "session", "permission"})]
      /\ \A t \in Sockets : allowed[t] \subseteq allowed'[t]
  BY Remembered DEF GatewayInv, GatewayShape, GatewayTypeOK
<1>2. /\ sockets'[s] = Off /\ \A t \in Sockets : t # s => sockets'[t] = sockets[t]
      /\ \A d \in Checkers : /\ checks'[d][s] = NoCheck
                             /\ \A t \in Sockets : t # s => checks'[d][t] = checks[d][t]
      /\ sockets' \in [Sockets -> Socket] /\ checks' \in [Checkers -> [Sockets -> Check]]
  BY SocketKinds DEF Drop, GatewayInv, GatewayShape, GatewayTypeOK
<1>3. GatewayShape'
  BY <1>1, <1>2 DEF GatewayInv, GatewayShape, GatewayTypeOK
<1>4. Turns'
  BY <1>2, SocketKinds DEF GatewayInv, Turns, Checkers
<1>5. ASSUME NEW t \in Sockets, NEW d \in Checkers
      PROVE  Found(t, checks[d][t])'
  <2>1. Found(t, checks[d][t])
    BY DEF GatewayInv, Validated
  <2> QED
    BY <1>1, <1>2, <2>1, SocketKinds DEF Found, InRoom
<1>6. ASSUME NEW t \in Sockets, Quiet(t)'
      PROVE  AtRest(t)'
  <2>1. CASE t = s
    BY <1>2, <2>1, SocketKinds DEF AtRest, InRoom
  <2>2. CASE t # s
    <3>1. AtRest(t)
      BY <1>2, <1>6, <2>2 DEF GatewayInv, Validated, Quiet
    <3> QED
      BY <1>1, <1>2, <2>2, <3>1 DEF AtRest, InRoom, MaySee
  <2> QED
    BY <2>1, <2>2
<1> QED
  BY <1>3, <1>4, <1>5, <1>6 DEF GatewayInv, Validated

LEMMA ConnectKeeps ==
  ASSUME GatewayInv, NEW s \in Sockets, Connect(s)
  PROVE  GatewayInv'
<1> DEFINE w == [Off EXCEPT !.ver = users[Owner[s]].ver]
           k == [at |-> "read", room |-> Nobody]
<1>0. users[Owner[s]].ver \in Versions
  BY GatewayAssumption DEF GatewayInv, GatewayShape, User
<1>1. w \in Socket /\ ~w.on /\ w.rooms = {} /\ w.joined = Nobody
  BY <1>0, SocketWrites
<1>2. k \in Check /\ k.at = "read"
  BY SocketKinds DEF Nowhere
<1>3. ~sockets[s].on /\ Quiet(s) /\ UNCHANGED <<events, assigned, working, users>> /\ Remember({s})
      /\ sockets' = [sockets EXCEPT ![s] = w] /\ checks' = [checks EXCEPT !["connect"][s] = k]
  BY DEF Connect, SetCheck, accountVars
<1> HIDE DEF w, k
<1>4. /\ allowed' \in [Sockets -> SUBSET (Rooms \cup {Nobody, "session", "permission"})]
      /\ \A t \in Sockets : t # s => allowed[t] \subseteq allowed'[t]
  BY <1>3, Remembered DEF GatewayInv, GatewayShape, GatewayTypeOK
<1>5. "connect" \in Checkers
  BY DEF Checkers
<1>6. /\ sockets'[s] = w /\ \A t \in Sockets : t # s => sockets'[t] = sockets[t]
      /\ checks'["connect"][s] = k
      /\ \A d \in Checkers, t \in Sockets : d # "connect" \/ t # s => checks'[d][t] = checks[d][t]
      /\ sockets' \in [Sockets -> Socket] /\ checks' \in [Checkers -> [Sockets -> Check]]
  BY <1>1, <1>2, <1>3, <1>5 DEF GatewayInv, GatewayShape, GatewayTypeOK
<1>7. GatewayShape'
  BY <1>3, <1>4, <1>6 DEF GatewayInv, GatewayShape, GatewayTypeOK
<1>8. \A d \in Checkers : checks[d][s].at = "none"
  BY <1>3 DEF Quiet
<1>9. Turns'
  BY <1>1, <1>3, <1>6, <1>8, GatewayAssumption DEF GatewayInv, Turns, Checkers
<1>10. ASSUME NEW t \in Sockets, NEW d \in Checkers
       PROVE  Found(t, checks[d][t])'
  <2>1. CASE t = s
    BY <1>1, <1>2, <1>6, <1>8, <2>1 DEF Found, InRoom
  <2>2. CASE t # s
    <3>1. Found(t, checks[d][t])
      BY DEF GatewayInv, Validated
    <3> QED
      BY <1>3, <1>4, <1>6, <2>2, <3>1 DEF Found, InRoom
  <2> QED
    BY <2>1, <2>2
<1>11. ASSUME NEW t \in Sockets, Quiet(t)'
       PROVE  AtRest(t)'
  <2>1. t # s
    BY <1>2, <1>5, <1>6, <1>11 DEF Quiet
  <2>2. AtRest(t)
    BY <1>6, <1>11, <2>1 DEF GatewayInv, Validated, Quiet
  <2> QED
    BY <1>4, <1>6, <2>1, <2>2 DEF AtRest, InRoom, MaySee
<1> QED
  BY <1>7, <1>9, <1>10, <1>11 DEF GatewayInv, Validated

LEMMA SynchronizeKeeps ==
  ASSUME EventsApart, GatewayInv, NEW e \in Events, Synchronize(e)
  PROVE  GatewayInv'
<1>1. /\ \A f \in Events : events[f] = "idle"
      /\ events' = [events EXCEPT ![e] = "checking"]
      /\ UNCHANGED <<sockets, assigned, working, users>> /\ Remember(Tracked)
  BY DEF Synchronize, accountVars
<1> DEFINE k == [at |-> "read", room |-> Nobody]
<1>2. k \in Check /\ k.at = "read"
  BY SocketKinds DEF Nowhere
<1>3. checks' = [checks EXCEPT ![e] = [s \in Sockets |-> IF s \in Tracked THEN k ELSE NoCheck]]
  BY DEF Synchronize
<1> HIDE DEF k
<1>4. /\ \A s \in Sockets : checks'[e][s] = IF sockets[s].on THEN k ELSE NoCheck
      /\ \A d \in Checkers : d # e => checks'[d] = checks[d]
      /\ checks' \in [Checkers -> [Sockets -> Check]]
  BY <1>2, <1>3, SocketKinds DEF GatewayInv, GatewayShape, GatewayTypeOK, Checkers, Tracked
<1>5. /\ allowed' \in [Sockets -> SUBSET (Rooms \cup {Nobody, "session", "permission"})]
      /\ \A s \in Sockets : ~sockets[s].on => allowed[s] \subseteq allowed'[s]
  BY <1>1, Remembered DEF GatewayInv, GatewayShape, GatewayTypeOK, Tracked
<1>6. GatewayShape'
  BY <1>1, <1>4, <1>5 DEF GatewayInv, GatewayShape, GatewayTypeOK
<1>7. \A s \in Sockets : sockets[s].on => Quiet(s)
  BY <1>1 DEF GatewayInv, Turns, Quiet, Checkers
<1>8. Turns'
  <2>1. \A f \in Events : events'[f] = IF f = e THEN "checking" ELSE "idle"
    BY <1>1 DEF GatewayInv, GatewayShape, GatewayTypeOK
  <2>2. e # "connect" /\ e \in Checkers /\ Events \subseteq Checkers /\ "connect" \in Checkers
    BY GatewayAssumption DEF Checkers
  <2>3. \A s \in Sockets : checks["connect"][s].at # "none" => ~sockets[s].on
    BY DEF GatewayInv, Turns
  <2>4. \A f \in Events, s \in Sockets : checks[f][s].at = "none"
    BY <1>1 DEF GatewayInv, Turns
  <2>5. checks'["connect"] = checks["connect"] /\ sockets' = sockets
    BY <1>1, <1>4, <2>2
  <2>6. \A f \in Events, s \in Sockets : checks'[f][s].at # "none" => f = e /\ sockets[s].on
    BY <1>4, <2>2, <2>4, SocketKinds
  <2> QED
    BY <2>1, <2>3, <2>5, <2>6 DEF Turns
<1>9. ASSUME NEW s \in Sockets, NEW d \in Checkers
      PROVE  Found(s, checks[d][s])'
  <2>1. CASE sockets[s].on
    <3>1. InRoom(s) /\ checks[d][s].at = "none"
      BY <1>7, <2>1 DEF GatewayInv, Validated, AtRest, Quiet
    <3>2. checks'[d][s].at \in {"none", "read"}
      BY <1>2, <1>4, <3>1, SocketKinds
    <3> QED
      BY <1>1, <3>1, <3>2 DEF Found, InRoom
  <2>2. CASE ~sockets[s].on /\ d = e
    BY <1>4, <2>2, SocketKinds DEF Found
  <2>3. CASE ~sockets[s].on /\ d # e
    <3>1. Found(s, checks[d][s])
      BY DEF GatewayInv, Validated
    <3> QED
      BY <1>1, <1>4, <1>5, <2>3, <3>1 DEF Found, InRoom
  <2> QED
    BY <2>1, <2>2, <2>3
<1>10. ASSUME NEW s \in Sockets, Quiet(s)'
       PROVE  AtRest(s)'
  <2>1. e \in Checkers
    BY DEF Checkers
  <2>2. ~sockets[s].on
    BY <1>2, <1>4, <1>10, <2>1 DEF Quiet
  <2>3. Quiet(s)
    BY <1>1, <1>4, <1>10 DEF GatewayInv, Turns, Quiet
  <2>4. InRoom(s)
    BY <2>3 DEF GatewayInv, Validated, AtRest
  <2> QED
    BY <1>1, <2>2, <2>4 DEF AtRest, InRoom
<1> QED
  BY <1>6, <1>8, <1>9, <1>10 DEF GatewayInv, Validated

LEMMA AuthenticateKeeps ==
  ASSUME GatewayInv, NEW s \in Sockets, NEW c \in Checkers, Authenticate(c, s)
  PROVE  GatewayInv'
<1> DEFINE u == Owner[s]
<1>1. /\ checks[c][s].at = "read" /\ Remember({})
      /\ UNCHANGED <<events, assigned, working, users, grants>>
  BY DEF Authenticate, accountVars
<1>2. CASE GoodSession(s)
  <2>1. users[u] \in User /\ users[u].role \in AnyRole /\ sockets[s] \in Socket
    BY GatewayAssumption DEF GatewayInv, GatewayShape, GatewayTypeOK, User
  <2> PICK v : v = [sockets[s] EXCEPT !.role = users[u].role]
    OBVIOUS
  <2>2. /\ v = [sockets[s] EXCEPT !.role = users[u].role]
        /\ v \in Socket /\ v.role = users[u].role /\ v.rooms = sockets[s].rooms
        /\ v.joined = sockets[s].joined /\ v.on = sockets[s].on /\ v.ver = sockets[s].ver
    BY <2>1 DEF Socket
  <2> PICK n : n = [at |-> "permission", room |-> Nobody]
    OBVIOUS
  <2>3. /\ n = [at |-> "permission", room |-> Nobody]
        /\ n \in Check /\ n.at = "permission" /\ n.room = Nobody
    BY DEF Check
  <2>4. sockets' = [sockets EXCEPT ![s] = v] /\ checks' = [checks EXCEPT ![c][s] = n]
    BY <1>2, <2>2, <2>3 DEF Authenticate, SetCheck, GatewayInv, GatewayShape, GatewayTypeOK
  <2>5. sockets'[s] = v
    BY <2>4 DEF GatewayInv, GatewayShape, GatewayTypeOK
  <2>6. "session" \in allowed'[s]
    <3>1. GoodSession(s)'
      BY <1>1, <1>2, <2>2, <2>5 DEF GoodSession, Active
    <3>2. Entitled(s)' \subseteq allowed'[s]
      BY <1>1, Remembered DEF GatewayInv, GatewayShape, GatewayTypeOK
    <3> QED
      BY <3>1, <3>2 DEF Entitled
  <2>7. users[u].exists
    BY <1>2 DEF GoodSession, Active
  <2>8. InRoom(s)
    BY <1>1 DEF GatewayInv, Validated, Found
  <2>9. Found(s, n)'
    BY <1>1, <2>2, <2>3, <2>5, <2>6, <2>7, <2>8 DEF Found, InRoom
  <2> QED
    BY <1>1, <2>1, <2>2, <2>3, <2>4, <2>9, CheckKeeps DEF Socket
<1>3. CASE ~GoodSession(s)
  <2>1. Drop(s)
    BY <1>3 DEF Authenticate
  <2> QED
    BY <1>1, <2>1, DropKeeps
<1> QED
  BY <1>2, <1>3

LEMMA AuthorizeKeeps ==
  ASSUME GatewayInv, NEW s \in Sockets, NEW c \in Checkers, Authorize(c, s)
  PROVE  GatewayInv'
<1>1. /\ checks[c][s].at = "permission" /\ Remember({})
      /\ UNCHANGED <<events, assigned, working, users, grants>>
  BY DEF Authorize, accountVars
<1>2. CASE MayRead(s)
  <2>1. /\ "session" \in allowed[s] /\ InRoom(s)
        /\ users[Owner[s]].exists /\ sockets[s].role = users[Owner[s]].role
    BY <1>1 DEF GatewayInv, Validated, Found
  <2> PICK n : n = [at |-> "kitchen", room |-> Nobody]
    OBVIOUS
  <2>2. /\ n = [at |-> "kitchen", room |-> Nobody]
        /\ n \in Check /\ n.at = "kitchen" /\ n.room = Nobody
    BY DEF Check
  <2>3. sockets' = sockets /\ checks' = [checks EXCEPT ![c][s] = n]
    BY <1>2, <2>2 DEF Authorize, SetCheck
  <2>4. allowed[s] \subseteq allowed'[s] /\ Entitled(s)' \subseteq allowed'[s]
    BY <1>1, Remembered DEF GatewayInv, GatewayShape, GatewayTypeOK
  <2>5. MayRead(s)'
    BY <1>1, <1>2 DEF MayRead
  <2>6. {"session", "permission"} \subseteq allowed'[s]
    BY <2>1, <2>4, <2>5 DEF Entitled
  <2>7. Found(s, n)'
    BY <1>1, <2>1, <2>2, <2>3, <2>6 DEF Found, InRoom
  <2>8. PICK w \in Socket : w = sockets[s] /\ sockets' = [sockets EXCEPT ![s] = w]
    BY <2>3 DEF GatewayInv, GatewayShape, GatewayTypeOK
  <2> QED
    BY <1>1, <2>2, <2>3, <2>7, <2>8, CheckKeeps DEF Socket
<1>3. CASE ~MayRead(s)
  <2>1. Drop(s)
    BY <1>3 DEF Authorize
  <2> QED
    BY <1>1, <2>1, DropKeeps
<1> QED
  BY <1>2, <1>3

LEMMA ReadKitchenKeeps ==
  ASSUME GatewayInv, NEW s \in Sockets, NEW c \in Checkers, ReadKitchen(c, s)
  PROVE  GatewayInv'
<1>1. /\ checks[c][s].at = "kitchen" /\ Remember({}) /\ sockets' = sockets
      /\ UNCHANGED <<events, assigned, working, users, grants>>
  BY DEF ReadKitchen, accountVars
<1>2. /\ {"session", "permission"} \subseteq allowed[s]
      /\ InRoom(s) /\ sockets[s].role = users[Owner[s]].role
      /\ sockets[s] \in Socket /\ Owner[s] \in Users
  BY <1>1, GatewayAssumption DEF GatewayInv, GatewayShape, GatewayTypeOK, Validated, Found
<1>3. Target(Owner[s], sockets[s].role) \in Nowhere
  BY <1>2, TargetIs DEF GatewayInv, GatewayShape, GatewayTypeOK
<1>4. PICK room \in Nowhere : room = Target(Owner[s], sockets[s].role)
  BY <1>3
<1> PICK n : n = [at |-> "move", room |-> room]
  OBVIOUS
<1>5. n = [at |-> "move", room |-> room] /\ n \in Check /\ n.at = "move" /\ n.room = room
  BY DEF Check, Nowhere
<1>6. checks' = [checks EXCEPT ![c][s] = n]
  BY <1>4, <1>5 DEF ReadKitchen, SetCheck
<1>7. /\ allowed[s] \subseteq allowed'[s] /\ Entitled(s)' \subseteq allowed'[s]
  BY <1>1, Remembered DEF GatewayInv, GatewayShape, GatewayTypeOK
<1>8. room \in allowed'[s]
  <2>1. Target(Owner[s], users[Owner[s]].role)' = room
    BY <1>1, <1>2, <1>4 DEF Target, KitchenOf
  <2> QED
    BY <1>7, <2>1 DEF Entitled
<1>9. Found(s, n)'
  BY <1>1, <1>2, <1>5, <1>7, <1>8 DEF Found, InRoom
<1>10. PICK w \in Socket : w = sockets[s] /\ sockets' = [sockets EXCEPT ![s] = w]
  BY <1>1, <1>2 DEF GatewayInv, GatewayShape, GatewayTypeOK
<1> QED
  BY <1>1, <1>5, <1>6, <1>9, <1>10, CheckKeeps DEF Socket

LEMMA LeaveKeeps ==
  ASSUME GatewayInv, NEW s \in Sockets, NEW c \in Checkers, Leave(c, s)
  PROVE  GatewayInv'
<1>1. /\ checks[c][s].at = "move" /\ Remember({})
      /\ UNCHANGED <<events, assigned, working, users, grants>>
  BY DEF Leave, accountVars
<1>2. /\ checks[c][s].room \in allowed[s] /\ InRoom(s)
      /\ {"session", "permission"} \subseteq allowed[s]
      /\ sockets[s] \in Socket /\ checks[c][s].room \in Nowhere
  BY <1>1, SocketKinds DEF GatewayInv, GatewayShape, GatewayTypeOK, Validated, Found
<1>3. sockets[s].rooms \ {sockets[s].joined} = {}
  BY <1>2 DEF InRoom
<1> PICK v : v = [sockets[s] EXCEPT !.rooms = {}]
  OBVIOUS
<1>4. /\ v = [sockets[s] EXCEPT !.rooms = {}]
      /\ v \in Socket /\ v.rooms = {} /\ v.on = sockets[s].on
  BY <1>2 DEF Socket
<1> PICK n : n = [at |-> "left", room |-> checks[c][s].room]
  OBVIOUS
<1>5. /\ n = [at |-> "left", room |-> checks[c][s].room]
      /\ n \in Check /\ n.at = "left" /\ n.room = checks[c][s].room
  BY <1>2 DEF Check, Nowhere
<1>6. sockets' = [sockets EXCEPT ![s] = v] /\ checks' = [checks EXCEPT ![c][s] = n]
  <2>1. sockets' = [sockets EXCEPT ![s].rooms = {}, ![s].joined = sockets[s].joined]
    BY <1>3 DEF Leave, Moves
  <2>2. v = [sockets[s] EXCEPT !.rooms = {}, !.joined = sockets[s].joined]
    BY <1>2, <1>4 DEF Socket
  <2> QED
    BY <1>5, <2>1, <2>2 DEF Leave, SetCheck, GatewayInv, GatewayShape, GatewayTypeOK
<1>7. sockets'[s] = v
  BY <1>6 DEF GatewayInv, GatewayShape, GatewayTypeOK
<1>8. allowed[s] \subseteq allowed'[s]
  BY <1>1, Remembered DEF GatewayInv, GatewayShape, GatewayTypeOK
<1>9. Found(s, n)'
  BY <1>2, <1>4, <1>5, <1>7, <1>8 DEF Found
<1> QED
  BY <1>1, <1>2, <1>4, <1>5, <1>6, <1>9, CheckKeeps DEF Socket

LEMMA JoinKeeps ==
  ASSUME GatewayInv, NEW s \in Sockets, NEW c \in Checkers, Join(c, s)
  PROVE  GatewayInv'
<1>1. /\ checks[c][s].at \in {"move", "left"} /\ Remember({})
      /\ UNCHANGED <<events, assigned, working, users, grants>>
  BY DEF Join, accountVars
<1>2. /\ checks[c][s].room \in allowed[s] /\ {"session", "permission"} \subseteq allowed[s]
      /\ sockets[s] \in Socket /\ checks[c][s].room \in Nowhere /\ sockets[s].joined \in Nowhere
  BY <1>1, SocketKinds DEF GatewayInv, GatewayShape, GatewayTypeOK, Validated, Found
<1>3. sockets[s].rooms = {}
  <2>1. CASE checks[c][s].at = "left"
    BY <2>1 DEF GatewayInv, Validated, Found
  <2>2. CASE checks[c][s].at # "left"
    <3>1. /\ checks[c][s].at = "move" /\ sockets[s].joined # checks[c][s].room
          /\ ~Misplaced(s, checks[c][s].room)
      BY <2>2 DEF Join
    <3>2. sockets[s].joined = Nobody
      BY <3>1 DEF Misplaced
    <3>3. InRoom(s)
      BY <3>1 DEF GatewayInv, Validated, Found
    <3> QED
      BY <3>2, <3>3 DEF InRoom
  <2> QED
    BY <2>1, <2>2
<1>4. PICK room \in Nowhere : room = checks[c][s].room
  BY <1>2
<1>5. PICK joined \in Nowhere :
        joined = IF checks[c][s].at = "left" THEN Nobody ELSE sockets[s].joined
  BY <1>2 DEF Nowhere
<1> PICK v : v = [sockets[s] EXCEPT !.rooms = {room} \ {Nobody}, !.joined = joined]
  OBVIOUS
<1>6. /\ v = [sockets[s] EXCEPT !.rooms = {room} \ {Nobody}, !.joined = joined]
      /\ v \in Socket /\ v.rooms = {room} \ {Nobody} /\ v.on = sockets[s].on
  BY <1>2 DEF Socket, Nowhere
<1> PICK n : n = [at |-> "joined", room |-> room]
  OBVIOUS
<1>7. n = [at |-> "joined", room |-> room] /\ n \in Check /\ n.at = "joined" /\ n.room = room
  BY DEF Check, Nowhere
<1>8. sockets' = [sockets EXCEPT ![s] = v] /\ checks' = [checks EXCEPT ![c][s] = n]
  <2>1. sockets' = [sockets EXCEPT ![s].rooms = {room} \ {Nobody}, ![s].joined = joined]
    BY <1>3, <1>4, <1>5 DEF Join, Moves
  <2> QED
    BY <1>4, <1>6, <1>7, <2>1 DEF Join, SetCheck, GatewayInv, GatewayShape, GatewayTypeOK
<1>9. sockets'[s] = v
  BY <1>8 DEF GatewayInv, GatewayShape, GatewayTypeOK
<1>10. allowed[s] \subseteq allowed'[s]
  BY <1>1, Remembered DEF GatewayInv, GatewayShape, GatewayTypeOK
<1>11. Found(s, n)'
  BY <1>2, <1>4, <1>6, <1>7, <1>9, <1>10 DEF Found
<1> QED
  BY <1>1, <1>2, <1>6, <1>7, <1>8, <1>11, CheckKeeps DEF Socket

LEMMA EndKeeps ==
  ASSUME GatewayInv, NEW s \in Sockets, NEW c \in Checkers, Joined(c, s) \/ Settled(c, s)
  PROVE  GatewayInv'
<1>1. /\ checks[c][s].at \in {"move", "joined"} /\ Remember({})
      /\ UNCHANGED <<events, assigned, working, users, grants>>
  BY DEF Joined, Settled, accountVars
<1>2. /\ checks[c][s].room \in allowed[s] /\ {"session", "permission"} \subseteq allowed[s]
      /\ sockets[s] \in Socket /\ checks[c][s].room \in Nowhere
      /\ sockets[s].rooms = {checks[c][s].room} \ {Nobody}
  BY <1>1, SocketKinds
     DEF GatewayInv, GatewayShape, GatewayTypeOK, Validated, Found, InRoom, Joined, Settled
<1>3. PICK room \in Nowhere : room = checks[c][s].room
  BY <1>2
<1>4. PICK on \in BOOLEAN : on = (sockets[s].on \/ c = "connect")
  OBVIOUS
<1> PICK v : v = [sockets[s] EXCEPT !.joined = room, !.on = on]
  OBVIOUS
<1>5. /\ v = [sockets[s] EXCEPT !.joined = room, !.on = on]
      /\ v \in Socket /\ v.rooms = sockets[s].rooms /\ v.joined = room /\ v.on = on
  BY <1>2 DEF Socket, Nowhere
<1> PICK n : n = NoCheck
  OBVIOUS
<1>6. n = NoCheck /\ n \in Check /\ n.at = "none"
  BY SocketKinds
<1>7. checks' = [checks EXCEPT ![c][s] = n]
  BY <1>6 DEF Joined, Settled, Finished, SetCheck, NoCheck
<1>8. sockets' = [sockets EXCEPT ![s] = v]
  <2>1. CASE Joined(c, s)
    BY <1>3, <1>4, <1>5, <2>1 DEF Joined, GatewayInv, GatewayShape, GatewayTypeOK
  <2>2. CASE Settled(c, s)
    <3>1. /\ sockets[s].joined = room
          /\ sockets' = [sockets EXCEPT ![s].on = sockets[s].on \/ c = "connect"]
      BY <1>3, <2>2 DEF Settled
    <3>2. v = [sockets[s] EXCEPT !.on = on]
      BY <1>2, <1>5, <3>1 DEF Socket
    <3> QED
      BY <1>4, <3>1, <3>2 DEF GatewayInv, GatewayShape, GatewayTypeOK
  <2> QED
    BY <2>1, <2>2
<1>9. sockets'[s] = v
  BY <1>8 DEF GatewayInv, GatewayShape, GatewayTypeOK
<1>10. InRoom(s)' /\ v.rooms \cup {"session", "permission"} \subseteq allowed[s]
  BY <1>2, <1>3, <1>5, <1>9 DEF InRoom
<1> QED
  BY <1>1, <1>4, <1>5, <1>6, <1>7, <1>8, <1>10, CheckKeeps

LEMMA ValidateKeeps ==
  ASSUME GatewayInv, NEW s \in Sockets, NEW c \in Checkers, Validate(c, s)
  PROVE  GatewayInv'
  BY AuthenticateKeeps, AuthorizeKeeps, ReadKitchenKeeps, LeaveKeeps, JoinKeeps, EndKeeps DEF Validate

LEMMA MeanwhileKeeps ==
  ASSUME GatewayInv,
         \/ \E e \in Events : Emit(e)
         \/ \E u \in Users : Unassign(u) \/ Assign(u)
         \/ \E k \in Kitchens : SwitchKitchen(k)
         \/ Personnel
  PROVE  GatewayInv'
<1> USE DEF accountVars
<1>0. /\ UNCHANGED <<sockets, checks>> /\ Remember({})
      /\ events \in [Events -> {"idle", "checking"}]
      /\ assigned \in [Users -> Kitchens \cup {Nobody}] /\ working \subseteq Kitchens
      /\ users \in [Users -> User]
  BY DEF Emit, Unassign, Assign, SwitchKitchen, Personnel, GatewayInv, GatewayShape, GatewayTypeOK
<1>1. CASE \E e \in Events : Emit(e)
  <2>1. UNCHANGED <<assigned, working, users>>
        /\ \E e \in Events : AllValidated(e) /\ events' = [events EXCEPT ![e] = "idle"]
    BY <1>1 DEF Emit
  <2> QED
    BY <1>0, <2>1, OthersKeep DEF AllValidated
<1>2. CASE \E u \in Users : Unassign(u) \/ Assign(u)
  <2>1. UNCHANGED <<events, working, users>> /\ assigned' \in [Users -> Kitchens \cup {Nobody}]
    BY <1>0, <1>2 DEF Unassign, Assign
  <2> QED
    BY <1>0, <2>1, OthersKeep
<1>3. CASE \E k \in Kitchens : SwitchKitchen(k)
  <2>1. UNCHANGED <<events, assigned, users>> /\ working' \subseteq Kitchens
    BY <1>0, <1>3 DEF SwitchKitchen
  <2> QED
    BY <1>0, <2>1, OthersKeep
<1>4. CASE Personnel
  <2>1. UNCHANGED <<events, assigned, working>>
    BY <1>4 DEF Personnel
  <2> QED
    BY <1>0, <1>4, <2>1, PersonnelRows, OthersKeep
<1> QED
  BY <1>1, <1>2, <1>3, <1>4

LEMMA GatewaySteps ==
  ASSUME EventsApart, GatewayInv, [GatewayNext]_<<gatewayVars, accountVars>>
  PROVE  GatewayInv'
<1>1. CASE UNCHANGED <<gatewayVars, accountVars>>
  BY <1>1 DEF gatewayVars, accountVars, GatewayInv, GatewayShape, GatewayTypeOK, Turns, Validated,
              Found, AtRest, InRoom, MaySee, Quiet
<1>2. CASE \E s \in Sockets : Connect(s)
  BY <1>2, ConnectKeeps
<1>3. CASE \E s \in Sockets : Disconnect(s)
  BY <1>3, DropKeeps DEF Disconnect, accountVars
<1>4. CASE \E s \in Sockets, c \in Checkers : Validate(c, s)
  BY <1>4, ValidateKeeps
<1>5. CASE \E e \in Events : Synchronize(e)
  BY <1>5, SynchronizeKeeps
<1>6. CASE \/ \E e \in Events : Emit(e)
           \/ \E u \in Users : Unassign(u) \/ Assign(u)
           \/ \E k \in Kitchens : SwitchKitchen(k)
           \/ Personnel
  BY <1>6, MeanwhileKeeps
<1> QED
  BY <1>1, <1>2, <1>3, <1>4, <1>5, <1>6 DEF GatewayNext

LEMMA GatewayStarts == GatewayInit /\ AccountsInit => GatewayInv
<1> SUFFICES ASSUME GatewayInit, AccountsInit
             PROVE  GatewayInv
  OBVIOUS
<1>1. users \in [Users -> User]
  <2>1. 0 \in Versions
    BY AccountsAssumption DEF Versions
  <2>2. NoUser \in User /\ [NoUser EXCEPT !.exists = TRUE, !.active = TRUE] \in User
    BY <2>1 DEF NoUser, User, AnyRole
  <2> QED
    BY <2>2 DEF AccountsInit
<1>2. /\ \A s \in Sockets : sockets[s] = Off
      /\ \A c \in Checkers, s \in Sockets : checks[c][s] = NoCheck
      /\ sockets \in [Sockets -> Socket] /\ checks \in [Checkers -> [Sockets -> Check]]
      /\ \A e \in Events : events[e] = "idle"
  BY SocketKinds DEF GatewayInit
<1>3. GatewayShape
  BY <1>1, <1>2 DEF GatewayInit, GatewayShape, GatewayTypeOK
<1>4. Turns
  BY <1>2, SocketKinds DEF Turns, Checkers
<1>5. Validated
  BY <1>2, SocketKinds DEF Validated, Found, AtRest, InRoom
<1> QED
  BY <1>3, <1>4, <1>5 DEF GatewayInv

LEMMA GatewayAlways ==
  ASSUME EventsApart
  PROVE  GatewaySpec => []GatewayInv
<1>1. GatewayInv /\ [GatewayNext]_<<gatewayVars, accountVars>> => GatewayInv'
  BY GatewaySteps
<1> QED
  BY <1>1, GatewayStarts, PTL DEF GatewaySpec

\* A socket is written, and a validation of it goes on.
LEMMA ShapeOfValidation ==
  ASSUME GatewayShape, NEW s \in Sockets, NEW c \in Checkers, Validate(c, s)
  PROVE  /\ sockets' \in [Sockets -> Socket]
         /\ checks' \in [Checkers -> [Sockets -> Check]]
<1>1. /\ sockets \in [Sockets -> Socket] /\ checks \in [Checkers -> [Sockets -> Check]]
      /\ sockets[s] \in Socket /\ checks[c][s].room \in Nowhere
      /\ Owner[s] \in Users /\ users[Owner[s]].role \in AnyRole
  BY SocketKinds, GatewayAssumption DEF GatewayShape, GatewayTypeOK, User
<1>2. ASSUME NEW at \in {"none", "read", "permission", "kitchen", "move", "left", "joined"},
             NEW room \in Nowhere, SetCheck(c, s, at, room)
      PROVE  checks' \in [Checkers -> [Sockets -> Check]]
  <2>1. PICK k \in Check : k = [at |-> at, room |-> room]
    BY SocketKinds
  <2>2. checks' = [checks EXCEPT ![c] = [checks[c] EXCEPT ![s] = k]]
    BY <1>1, <1>2, <2>1 DEF SetCheck
  <2> QED
    BY <1>1, <2>1, <2>2
<1>3. ASSUME NEW v \in Socket, sockets' = [sockets EXCEPT ![s] = v]
      PROVE  sockets' \in [Sockets -> Socket]
  BY <1>1, <1>3
<1>11. ASSUME Drop(s)
       PROVE  /\ sockets' \in [Sockets -> Socket]
              /\ checks' \in [Checkers -> [Sockets -> Check]]
  <2>1. Off \in Socket /\ NoCheck \in Check
    BY SocketKinds
  <2> QED
    BY <1>1, <1>11, <2>1 DEF Drop
<1>4. CASE Authenticate(c, s)
  <2>1. CASE GoodSession(s)
    <3>1. PICK v : v = [sockets[s] EXCEPT !.role = users[Owner[s]].role]
      OBVIOUS
    <3>2. v \in Socket
      BY <1>1, <3>1 DEF Socket
    <3>3. sockets' = [sockets EXCEPT ![s] = v] /\ SetCheck(c, s, "permission", Nobody)
      BY <1>1, <1>4, <2>1, <3>1 DEF Authenticate
    <3> QED
      BY <1>2, <1>3, <3>2, <3>3 DEF Nowhere
  <2>2. CASE ~GoodSession(s)
    BY <1>4, <1>11, <2>2 DEF Authenticate
  <2> QED
    BY <2>1, <2>2
<1>10. CASE Authorize(c, s)
  <2>1. CASE MayRead(s)
    <3>1. UNCHANGED sockets /\ SetCheck(c, s, "kitchen", Nobody)
      BY <1>10, <2>1 DEF Authorize
    <3> QED
      BY <1>1, <1>2, <3>1 DEF Nowhere
  <2>2. CASE ~MayRead(s)
    BY <1>10, <1>11, <2>2 DEF Authorize
  <2> QED
    BY <2>1, <2>2
<1>5. CASE ReadKitchen(c, s)
  <2>1. Target(Owner[s], sockets[s].role) \in Nowhere
    BY <1>1, TargetIs DEF GatewayShape, GatewayTypeOK
  <2> QED
    BY <1>1, <1>2, <1>5, <2>1 DEF ReadKitchen
<1>6. ASSUME NEW rooms \in SUBSET Rooms, NEW joined \in Nowhere, Moves(s, rooms, joined)
      PROVE  sockets' \in [Sockets -> Socket]
  <2>1. PICK v : v = [sockets[s] EXCEPT !.rooms = rooms, !.joined = joined]
    OBVIOUS
  <2>2. v \in Socket
    BY <1>1, <2>1, SocketWrites
  <2>3. sockets' = [sockets EXCEPT ![s] = v]
    BY <1>1, <1>6, <2>1 DEF Moves
  <2> QED
    BY <1>3, <2>2, <2>3
<1>7. CASE Leave(c, s)
  <2>1. sockets[s].rooms \ {sockets[s].joined} \in SUBSET Rooms /\ sockets[s].joined \in Nowhere
    BY <1>1, SocketKinds
  <2> QED
    BY <1>1, <1>2, <1>6, <1>7, <2>1 DEF Leave
<1>8. CASE Join(c, s)
  <2>1. PICK joined : joined = IF checks[c][s].at = "left" THEN Nobody ELSE sockets[s].joined
    OBVIOUS
  <2>2. joined \in Nowhere
        /\ sockets[s].rooms \cup ({checks[c][s].room} \ {Nobody}) \in SUBSET Rooms
    BY <1>1, <2>1, SocketKinds DEF Nowhere
  <2>3. Moves(s, sockets[s].rooms \cup ({checks[c][s].room} \ {Nobody}), joined)
    BY <1>8, <2>1 DEF Join
  <2> QED
    BY <1>1, <1>2, <1>6, <1>8, <2>2, <2>3 DEF Join
<1>9. CASE Joined(c, s) \/ Settled(c, s)
  <2>1. PICK on \in BOOLEAN : on = (sockets[s].on \/ c = "connect")
    OBVIOUS
  <2>2. PICK joined \in Nowhere :
          joined = IF Joined(c, s) THEN checks[c][s].room ELSE sockets[s].joined
    BY <1>1, SocketKinds
  <2>3. PICK v : v = [sockets[s] EXCEPT !.joined = joined, !.on = on]
    OBVIOUS
  <2>4. v \in Socket
    BY <1>1, <2>3 DEF Socket, Nowhere
  <2>5. sockets' = [sockets EXCEPT ![s] = v]
    <3>1. CASE Joined(c, s)
      BY <1>1, <2>1, <2>2, <2>3, <3>1 DEF Joined
    <3>2. CASE ~Joined(c, s)
      <4>1. v = [sockets[s] EXCEPT !.on = on]
        BY <1>1, <2>2, <2>3, <3>2 DEF Socket
      <4> QED
        BY <1>1, <1>9, <2>1, <3>2, <4>1 DEF Settled
    <3> QED
      BY <3>1, <3>2
  <2> QED
    BY <1>2, <1>3, <1>9, <2>4, <2>5 DEF Joined, Settled, Finished, Nowhere
<1> QED
  BY <1>4, <1>5, <1>7, <1>8, <1>9, <1>10 DEF Validate

\* Events may overlap here.
LEMMA ShapeSteps ==
  ASSUME GatewayShape, [GatewayNext]_<<gatewayVars, accountVars>>
  PROVE  GatewayShape'
<1>1. CASE UNCHANGED <<gatewayVars, accountVars>>
  BY <1>1 DEF gatewayVars, accountVars, GatewayShape, GatewayTypeOK
<1>2. ASSUME sockets' \in [Sockets -> Socket], checks' \in [Checkers -> [Sockets -> Check]],
             events' \in [Events -> {"idle", "checking"}],
             assigned' \in [Users -> Kitchens \cup {Nobody}], working' \subseteq Kitchens,
             users' \in [Users -> User], NEW who, Remember(who)
      PROVE  GatewayShape'
  BY <1>2, Remembered DEF GatewayShape, GatewayTypeOK
<1>3. CASE \E s \in Sockets : Connect(s)
  <2>1. PICK s \in Sockets : Connect(s)
    BY <1>3
  <2>2. users[Owner[s]].ver \in Versions
    BY GatewayAssumption DEF GatewayShape, User
  <2>3. PICK w : w = [Off EXCEPT !.ver = users[Owner[s]].ver]
    OBVIOUS
  <2>4. w \in Socket /\ [at |-> "read", room |-> Nobody] \in Check
    BY <2>2, <2>3, SocketWrites, SocketKinds DEF Nowhere
  <2>5. sockets' \in [Sockets -> Socket]
    BY <2>1, <2>3, <2>4 DEF Connect, GatewayShape, GatewayTypeOK
  <2>6. checks' \in [Checkers -> [Sockets -> Check]]
    BY <2>1, <2>4 DEF Connect, SetCheck, Checkers, GatewayShape, GatewayTypeOK
  <2> QED
    BY <1>2, <2>1, <2>5, <2>6 DEF Connect, accountVars, GatewayShape, GatewayTypeOK
<1>4. CASE \E s \in Sockets : Disconnect(s)
  <2>1. PICK s \in Sockets : Disconnect(s)
    BY <1>4
  <2>2. /\ sockets' \in [Sockets -> Socket]
        /\ checks' \in [Checkers -> [Sockets -> Check]]
    BY <2>1, SocketKinds DEF Disconnect, Drop, GatewayShape, GatewayTypeOK
  <2> QED
    BY <1>2, <2>1, <2>2 DEF Disconnect, accountVars, GatewayShape, GatewayTypeOK
<1>5. CASE \E s \in Sockets, c \in Checkers : Validate(c, s)
  <2>1. PICK s \in Sockets, c \in Checkers : Validate(c, s)
    BY <1>5
  <2>2. UNCHANGED <<events, assigned, working, users>> /\ Remember({})
    BY <2>1
       DEF Validate, Authenticate, Authorize, ReadKitchen, Leave, Join, Joined, Settled, accountVars
  <2> QED
    BY <1>2, <2>1, <2>2, ShapeOfValidation DEF GatewayShape, GatewayTypeOK
<1>6. CASE \E e \in Events : Synchronize(e)
  <2>1. PICK e \in Events : Synchronize(e)
    BY <1>6
  <2>2. PICK k \in Check : k = [at |-> "read", room |-> Nobody]
    BY SocketKinds DEF Nowhere
  <2>3. checks' = [checks EXCEPT ![e] =
                     [s \in Sockets |-> IF s \in Tracked THEN k ELSE NoCheck]]
    BY <2>1, <2>2 DEF Synchronize
  <2>4. checks' \in [Checkers -> [Sockets -> Check]]
    BY <2>2, <2>3, SocketKinds DEF GatewayShape, GatewayTypeOK
  <2>5. events' \in [Events -> {"idle", "checking"}]
        /\ UNCHANGED <<sockets, assigned, working, users>> /\ Remember(Tracked)
    BY <2>1 DEF Synchronize, accountVars, GatewayShape, GatewayTypeOK
  <2> QED
    BY <1>2, <2>4, <2>5 DEF GatewayShape, GatewayTypeOK
<1>7. CASE \/ \E e \in Events : Emit(e)
           \/ \E u \in Users : Unassign(u) \/ Assign(u)
           \/ \E k \in Kitchens : SwitchKitchen(k)
           \/ Personnel
  <2>1. UNCHANGED <<sockets, checks>> /\ Remember({})
    BY <1>7 DEF Emit, Unassign, Assign, SwitchKitchen, Personnel
  <2>2. /\ events' \in [Events -> {"idle", "checking"}]
        /\ assigned' \in [Users -> Kitchens \cup {Nobody}] /\ working' \subseteq Kitchens
    BY <1>7 DEF Emit, Unassign, Assign, SwitchKitchen, Personnel, GatewayShape, GatewayTypeOK
  <2>3. users' \in [Users -> User]
    <3>1. CASE Personnel
      BY <3>1, PersonnelRows DEF GatewayShape
    <3>2. CASE ~Personnel
      BY <1>7, <3>2 DEF Emit, Unassign, Assign, SwitchKitchen, accountVars, GatewayShape
    <3> QED
      BY <3>1, <3>2
  <2> QED
    BY <1>2, <2>1, <2>2, <2>3 DEF GatewayShape, GatewayTypeOK
<1> QED
  BY <1>1, <1>3, <1>4, <1>5, <1>6, <1>7 DEF GatewayNext

\* The sockets, their rooms and their validations are well formed, whatever events overlap.
THEOREM GatewayTyped == GatewaySpec => []GatewayTypeOK
<1>1. GatewayInit /\ AccountsInit => GatewayShape
  BY GatewayStarts DEF GatewayInv
<1>2. GatewayShape /\ [GatewayNext]_<<gatewayVars, accountVars>> => GatewayShape'
  BY ShapeSteps
<1>3. GatewayShape => GatewayTypeOK
  BY DEF GatewayShape
<1> QED
  BY <1>1, <1>2, <1>3, PTL DEF GatewaySpec

\* An order is sent only to sockets whose session, permission and room were good, each at
\* some moment since they were validated for it (handleOrderSynchronized, authenticate), for
\* any number of sockets, kitchens and orders, whatever sessions end and permissions and
\* assignments change between the three reads.
THEOREM OnlyEntitledAreTold ==
  ASSUME EventsApart
  PROVE  GatewaySpec => DeliveredToEntitled
<1> DEFINE Told == \A e \in Events : Emit(e) => \A s \in Tracked : MaySee(s)
<1>1. GatewayInv => Told
  <2> SUFFICES ASSUME GatewayInv, NEW e \in Events, Emit(e), NEW s \in Tracked
               PROVE  MaySee(s)
    OBVIOUS
  <2>1. s \in Sockets /\ sockets[s].on
    BY DEF Tracked
  <2>2. checks["connect"][s].at = "none" /\ checks[e][s].at = "none" /\ events[e] = "checking"
    BY <2>1 DEF Emit, AllValidated, GatewayInv, Turns
  <2>3. \A f \in Events : f # e => checks[f][s].at = "none"
    BY <2>1, <2>2 DEF GatewayInv, GatewayShape, GatewayTypeOK, Turns
  <2>4. Quiet(s)
    BY <2>2, <2>3 DEF Quiet, Checkers
  <2> QED
    BY <2>1, <2>4 DEF GatewayInv, Validated, AtRest
<1>2. GatewayInv /\ [GatewayNext]_<<gatewayVars, accountVars>> => [Told]_gatewayVars
  BY <1>1
<1> QED
  BY <1>2, GatewayAlways, PTL DEF GatewaySpec, DeliveredToEntitled

-----------------------------------------------------------------------------
(* Lockout: the inductive invariant *)

\* The attempts in flight that count against x if they fail.
Against(x) ==
  {h \in Attempters : attempt[h] # NoAttempt /\
     (x = attempt[h].scope \/ (attempt[h].scope = "password" /\ x = attempt[h].user))}

Guesses == Cardinality(Attempters)

\* The failures never reach the limit without a lock.
BelowLimit(x) == gate[x].fails < Limit(x)

\* An open lock has counted every failure since it was opened.
Counted(x) == ~gate[x].locked => tries[x] <= gate[x].fails

\* Behind a closed lock only those fail that were in flight when it closed, and one of
\* them closed it.
Exhausted(x) ==
  gate[x].locked => tries[x] + Cardinality(Against(x)) <= Limit(x) + Guesses - 1

Bounded == \A x \in Locks : BelowLimit(x) /\ Counted(x) /\ Exhausted(x)

LockoutInv == LockoutTypeOK /\ Bounded

-----------------------------------------------------------------------------
(* Facts about the locks *)

LEMMA LimitPositive == \A x \in Locks : Limit(x) \in 1..MaxFailures
  BY LockoutAssumption DEF Limit

LEMMA AgainstFinite ==
  \A x : /\ IsFiniteSet(Against(x)) /\ Cardinality(Against(x)) \in Nat
         /\ Guesses \in Nat /\ Cardinality(Against(x)) <= Guesses
<1>1. IsFiniteSet(Attempters)
  BY LockoutAssumption
<1>2. \A x : Against(x) \in SUBSET Attempters
  BY DEF Against
<1> QED
  BY <1>1, <1>2, FS_Subset, FS_CardinalityType DEF Guesses

\* With one attempt less in flight there are fewer against x.
LEMMA AgainstShrinks ==
  ASSUME NEW x, Against(x)' \subseteq Against(x)
  PROVE  /\ Cardinality(Against(x)') \in Nat
         /\ Cardinality(Against(x)') <= Cardinality(Against(x))
         /\ \A h \in Against(x) \ Against(x)' :
              Cardinality(Against(x)') <= Cardinality(Against(x)) - 1
<1>1. IsFiniteSet(Against(x)) /\ Cardinality(Against(x)) \in Nat
  BY AgainstFinite
<1>2. /\ IsFiniteSet(Against(x)') /\ Cardinality(Against(x)') <= Cardinality(Against(x))
      /\ Cardinality(Against(x)') = Cardinality(Against(x)) => Against(x)' = Against(x)
  BY <1>1, FS_Subset
<1>3. Cardinality(Against(x)') \in Nat
  BY <1>2, FS_CardinalityType
<1> QED
  BY <1>1, <1>2, <1>3

\* An attempt that ends is against nothing any more.
LEMMA FinishShrinks ==
  ASSUME LockoutTypeOK, NEW h \in Attempters, Finish(h), NEW x
  PROVE  Against(x)' = Against(x) \ {h}
<1>1. \A g \in Attempters : attempt'[g] = IF g = h THEN NoAttempt ELSE attempt[g]
  BY DEF LockoutTypeOK, Finish
<1> QED
  BY <1>1 DEF Against

-----------------------------------------------------------------------------
(* The steps *)

\* A failure of an attempt in flight: who is what it counts against.
LEMMA FailStep ==
  ASSUME LockoutInv, NEW h \in Attempters, NEW who \in SUBSET Locks,
         \A x \in who : h \in Against(x), Fail(who), Finish(h)
  PROVE  LockoutInv'
<1>1. attempt' \in [Attempters -> {NoAttempt} \cup
        [scope: Scopes, user: LockUsers, right: BOOLEAN, locked: BOOLEAN]]
  BY DEF LockoutInv, LockoutTypeOK, Finish
<1>2. ASSUME NEW x \in Locks
      PROVE  /\ gate'[x] \in Gate /\ tries'[x] \in Nat
             /\ BelowLimit(x)' /\ Counted(x)' /\ Exhausted(x)'
  <2>1. /\ gate[x] \in Gate /\ tries[x] \in Nat /\ Limit(x) \in 1..MaxFailures
        /\ MaxFailures \in Nat
        /\ BelowLimit(x) /\ Counted(x) /\ Exhausted(x)
    BY LimitPositive, LockoutAssumption DEF LockoutInv, LockoutTypeOK, Bounded
  <2>2. /\ gate'[x] = IF x \in who THEN Failed(x) ELSE gate[x]
        /\ tries'[x] = tries[x] + IF x \in who THEN 1 ELSE 0
    BY DEF Fail
  <2> DEFINE n == Cardinality(Against(x))
             m == Cardinality(Against(x)')
  <2>3. /\ n \in Nat /\ m \in Nat /\ Guesses \in Nat /\ n <= Guesses /\ m <= n
        /\ x \in who => m <= n - 1
    BY AgainstFinite, AgainstShrinks, FinishShrinks DEF LockoutInv
  <2>4. Exhausted(x)' <=> (gate'[x].locked => tries'[x] + m <= Limit(x) + Guesses - 1)
    BY DEF Exhausted, Limit, Guesses
  <2> HIDE DEF n, m
  <2>5. CASE x \notin who
    <3>1. gate'[x] = gate[x] /\ tries'[x] = tries[x]
      BY <2>1, <2>2, <2>5
    <3>2. gate[x].locked => tries[x] + n <= Limit(x) + Guesses - 1
      BY <2>1 DEF Exhausted, n
    <3>3. gate[x].locked => tries[x] + m <= Limit(x) + Guesses - 1
      BY <2>1, <2>3, <3>2
    <3> QED
      BY <2>1, <2>4, <3>1, <3>3 DEF BelowLimit, Counted, Limit
  <2>6. CASE x \in who
    <3>1. gate'[x] = Failed(x) /\ tries'[x] = tries[x] + 1 /\ m <= n - 1
      BY <2>1, <2>2, <2>3, <2>6
    <3>2. CASE gate[x].fails + 1 >= Limit(x)
      <4>1. gate'[x] = [fails |-> 0, locked |-> TRUE]
        BY <3>1, <3>2 DEF Failed
      <4>2. tries'[x] + m <= Limit(x) + Guesses - 1
        <5>1. CASE gate[x].locked
          BY <2>1, <2>3, <3>1, <5>1 DEF Exhausted, n
        <5>2. CASE ~gate[x].locked
          <6>1. tries[x] <= gate[x].fails /\ gate[x].fails < Limit(x)
            BY <2>1, <5>2 DEF Counted, BelowLimit
          <6> QED
            BY <2>1, <2>3, <3>1, <6>1 DEF Gate
        <5> QED
          BY <2>1, <5>1, <5>2
      <4> QED
        BY <2>1, <2>4, <3>1, <4>1, <4>2 DEF Gate, BelowLimit, Counted, Limit
    <3>3. CASE gate[x].fails + 1 < Limit(x)
      <4>1. /\ gate'[x].fails = gate[x].fails + 1 /\ gate'[x].locked = gate[x].locked
            /\ gate'[x] \in Gate
        <5>1. ~(gate[x].fails + 1 >= Limit(x))
          BY <2>1, <3>3 DEF Gate
        <5>2. gate'[x] = [gate[x] EXCEPT !.fails = @ + 1]
          BY <3>1, <5>1, Zenon DEF Failed
        <5>3. gate[x].fails + 1 \in 0..MaxFailures
          BY <2>1, <3>3 DEF Gate
        <5> QED
          BY <2>1, <5>2, <5>3 DEF Gate
      <4> QED
        BY <2>1, <2>3, <2>4, <3>1, <3>3, <4>1 DEF BelowLimit, Counted, Exhausted, Limit, n, Gate
    <3> QED
      BY <2>1, <3>2, <3>3 DEF Gate
  <2> QED
    BY <2>5, <2>6
<1>3. gate' \in [Locks -> Gate] /\ tries' \in [Locks -> Nat]
  BY <1>2 DEF Fail
<1> QED
  BY <1>1, <1>2, <1>3 DEF LockoutInv, LockoutTypeOK, Bounded

\* A success, or an administrator, or the passing of time lifts locks; attempts in
\* flight may end, none begins.
LEMMA LiftStep ==
  ASSUME LockoutInv, NEW who, Lift(who), \A x : Against(x)' \subseteq Against(x),
         attempt' \in [Attempters -> {NoAttempt} \cup
           [scope: Scopes, user: LockUsers, right: BOOLEAN, locked: BOOLEAN]]
  PROVE  LockoutInv'
<1>1. ASSUME NEW x \in Locks
      PROVE  /\ gate'[x] \in Gate /\ tries'[x] \in Nat
             /\ BelowLimit(x)' /\ Counted(x)' /\ Exhausted(x)'
  <2>1. /\ gate[x] \in Gate /\ tries[x] \in Nat /\ Limit(x) \in 1..MaxFailures
        /\ MaxFailures \in Nat
        /\ BelowLimit(x) /\ Counted(x) /\ Exhausted(x)
    BY LimitPositive, LockoutAssumption DEF LockoutInv, LockoutTypeOK, Bounded
  <2>2. /\ gate'[x] = IF x \in who THEN Free ELSE gate[x]
        /\ tries'[x] = IF x \in who THEN 0 ELSE tries[x]
    BY DEF Lift
  <2>3. /\ Cardinality(Against(x)) \in Nat /\ Cardinality(Against(x)') \in Nat
        /\ Cardinality(Against(x)') <= Cardinality(Against(x)) /\ Guesses \in Nat
    BY AgainstFinite, AgainstShrinks
  <2>4. /\ Limit(x)' = Limit(x) /\ Guesses' = Guesses
    BY DEF Limit, Guesses
  <2>5. CASE x \in who
    BY <2>1, <2>2, <2>4, <2>5 DEF Free, Gate, BelowLimit, Counted, Exhausted
  <2>6. CASE x \notin who
    BY <2>1, <2>2, <2>3, <2>4, <2>6 DEF BelowLimit, Counted, Exhausted
  <2> QED
    BY <2>5, <2>6
<1>2. gate' \in [Locks -> Gate] /\ tries' \in [Locks -> Nat]
  BY <1>1 DEF Lift
<1> QED
  BY <1>1, <1>2 DEF LockoutInv, LockoutTypeOK, Bounded
\* An attempt begins only against locks that are open.
LEMMA BeginStep ==
  ASSUME LockoutInv, NEW h \in Attempters, NEW scope \in Scopes, NEW u \in LockUsers,
         BeginAttempt(h, scope, u)
  PROVE  LockoutInv'
<1>1. PICK right \in BOOLEAN :
        /\ ~gate[scope].locked /\ (scope = "password" => ~gate[u].locked)
        /\ attempt' = [attempt EXCEPT ![h] =
             [scope |-> scope, user |-> u, right |-> right, locked |-> gate[u].locked]]
        /\ UNCHANGED <<gate, tries>>
  BY DEF BeginAttempt
<1>2. gate[u].locked \in BOOLEAN
  BY DEF LockoutInv, LockoutTypeOK, Locks, Gate
<1>3. LockoutTypeOK'
  BY <1>1, <1>2 DEF LockoutInv, LockoutTypeOK
<1>4. ASSUME NEW x \in Locks
      PROVE  BelowLimit(x)' /\ Counted(x)' /\ Exhausted(x)'
  <2>1. BelowLimit(x) /\ Counted(x) /\ Exhausted(x)
    BY DEF LockoutInv, Bounded
  <2>2. gate[x].locked => Against(x)' \subseteq Against(x)
    <3>1. \A g \in Attempters : attempt'[g] =
            IF g = h THEN [scope |-> scope, user |-> u, right |-> right, locked |-> gate[u].locked]
            ELSE attempt[g]
      BY <1>1 DEF LockoutInv, LockoutTypeOK
    <3> QED
      BY <1>1, <3>1 DEF Against
  <2>3. gate[x].locked => /\ Cardinality(Against(x)') \in Nat
                          /\ Cardinality(Against(x)') <= Cardinality(Against(x))
    BY <2>2, AgainstShrinks
  <2>4. tries[x] \in Nat /\ Limit(x) \in Nat /\ Guesses \in Nat
        /\ Cardinality(Against(x)) \in Nat
    BY AgainstFinite, LimitPositive, LockoutAssumption DEF LockoutInv, LockoutTypeOK
  <2> QED
    BY <1>1, <2>1, <2>3, <2>4 DEF BelowLimit, Counted, Exhausted, Limit, Guesses
<1> QED
  BY <1>3, <1>4 DEF LockoutInv, Bounded

LEMMA EndStep ==
  ASSUME LockoutInv, NEW h \in Attempters,
         \/ WrongPassword(h) \/ RightPassword(h) \/ WrongPin(h) \/ RightPin(h) \/ AskReset(h)
  PROVE  LockoutInv'
<1>1. Finish(h)
  BY DEF WrongPassword, RightPassword, WrongPin, RightPin, AskReset
<1>2. attempt[h] # NoAttempt
  BY DEF WrongPassword, RightPassword, WrongPin, RightPin, AskReset, NoAttempt
<1>3. attempt[h].user \in LockUsers
  BY <1>2 DEF LockoutInv, LockoutTypeOK
<1>4. CASE WrongPassword(h)
  <2> DEFINE who == {"password", attempt[h].user}
  <2>1. Fail(who) /\ attempt[h].scope = "password"
    BY <1>4 DEF WrongPassword
  <2>2. who \in SUBSET Locks /\ \A x \in who : h \in Against(x)
    BY <1>2, <1>3, <2>1 DEF Against, Locks, Scopes
  <2> HIDE DEF who
  <2> QED
    BY <1>1, <2>1, <2>2, FailStep
<1>5. ASSUME NEW x \in {"pin", "reset"}, attempt[h].scope = x, Fail({x})
      PROVE  LockoutInv'
  <2>1. {x} \in SUBSET Locks /\ \A y \in {x} : h \in Against(y)
    BY <1>2, <1>5 DEF Against, Locks, Scopes
  <2> QED
    BY <1>1, <1>5, <2>1, FailStep
<1>6. ASSUME NEW who, Lift(who)
      PROVE  LockoutInv'
  <2>1. \A x : Against(x)' \subseteq Against(x)
    BY <1>1, FinishShrinks DEF LockoutInv
  <2>2. attempt' \in [Attempters -> {NoAttempt} \cup
           [scope: Scopes, user: LockUsers, right: BOOLEAN, locked: BOOLEAN]]
    BY <1>1 DEF LockoutInv, LockoutTypeOK, Finish
  <2> QED
    BY <1>6, <2>1, <2>2, LiftStep
<1> QED
  BY <1>4, <1>5, <1>6 DEF RightPassword, WrongPin, RightPin, AskReset

\* lockedUntil passes: the lock opens, but failures counted while it was closed stay.
LEMMA TimeStep ==
  ASSUME LockoutInv, NEW x \in Locks, TimePasses(x)
  PROVE  LockoutInv'
<1>1. /\ gate' = [gate EXCEPT ![x].locked = FALSE] /\ tries' = [tries EXCEPT ![x] = 0]
      /\ attempt' = attempt
  BY DEF TimePasses
<1>2. ASSUME NEW y \in Locks
      PROVE  /\ gate'[y] \in Gate /\ tries'[y] \in Nat
             /\ BelowLimit(y)' /\ Counted(y)' /\ Exhausted(y)'
  <2>1. /\ gate[y] \in Gate /\ tries[y] \in Nat /\ MaxFailures \in Nat
        /\ BelowLimit(y) /\ Counted(y) /\ Exhausted(y)
    BY LockoutAssumption DEF LockoutInv, LockoutTypeOK, Bounded
  <2>2. /\ gate'[y] = IF y = x THEN [gate[y] EXCEPT !.locked = FALSE] ELSE gate[y]
        /\ tries'[y] = IF y = x THEN 0 ELSE tries[y]
        /\ Against(y)' = Against(y)
    BY <1>1 DEF LockoutInv, LockoutTypeOK, Against
  <2>3. Limit(y)' = Limit(y) /\ Guesses' = Guesses
    BY DEF Limit, Guesses
  <2>4. CASE y = x
    <3>1. /\ gate'[y] \in Gate /\ gate'[y].fails = gate[y].fails /\ ~gate'[y].locked
          /\ tries'[y] = 0
      BY <2>1, <2>2, <2>4 DEF Gate
    <3>2. gate[y].fails \in Nat
      BY <2>1 DEF Gate
    <3> QED
      BY <2>1, <2>3, <3>1, <3>2 DEF BelowLimit, Counted, Exhausted
  <2>5. CASE y # x
    BY <2>1, <2>2, <2>3, <2>5 DEF BelowLimit, Counted, Exhausted
  <2> QED
    BY <2>4, <2>5
<1>3. gate' \in [Locks -> Gate] /\ tries' \in [Locks -> Nat]
  BY <1>1, <1>2 DEF LockoutInv, LockoutTypeOK
<1> QED
  BY <1>1, <1>2, <1>3 DEF LockoutInv, LockoutTypeOK, Bounded

-----------------------------------------------------------------------------
(* Theorems *)

LEMMA LockoutInitial == LockoutInit => LockoutInv
<1> SUFFICES ASSUME LockoutInit PROVE LockoutInv
  OBVIOUS
<1>1. LockoutTypeOK
  BY LockoutAssumption DEF LockoutInit, LockoutTypeOK, Free, Gate
<1>2. \A x \in Locks : BelowLimit(x) /\ Counted(x) /\ Exhausted(x)
  BY LimitPositive, LockoutAssumption DEF LockoutInit, Free, BelowLimit, Counted, Exhausted
<1> QED
  BY <1>1, <1>2 DEF LockoutInv, Bounded

LEMMA LockoutInductive == LockoutInv /\ [LockoutNext]_lockVars => LockoutInv'
<1> SUFFICES ASSUME LockoutInv, [LockoutNext]_lockVars PROVE LockoutInv'
  OBVIOUS
<1>1. ASSUME NEW u \in LockUsers, UnlockUser(u)
      PROVE  LockoutInv'
  <2>1. Lift({u}) /\ attempt' = attempt
    BY <1>1 DEF UnlockUser
  <2>2. \A x : Against(x)' \subseteq Against(x)
    BY <2>1 DEF Against
  <2>3. attempt' \in [Attempters -> {NoAttempt} \cup
           [scope: Scopes, user: LockUsers, right: BOOLEAN, locked: BOOLEAN]]
    BY <2>1 DEF LockoutInv, LockoutTypeOK
  <2> QED
    BY <2>1, <2>2, <2>3, LiftStep
<1>2. CASE UNCHANGED lockVars
  BY <1>2 DEF lockVars, LockoutInv, LockoutTypeOK, Bounded, BelowLimit, Counted, Exhausted,
              Limit, Guesses, Against
<1> QED
  BY <1>1, <1>2, BeginStep, EndStep, TimeStep DEF LockoutNext

LEMMA LockoutAlways == LockoutSpec => []LockoutInv
BY LockoutInitial, LockoutInductive, PTL DEF LockoutSpec

\* The counts of failures, the locks and the attempts keep their kinds; no count exceeds
\* the limit.
THEOREM LockoutTyped == LockoutSpec => []LockoutTypeOK
<1>1. LockoutInv => LockoutTypeOK
  BY DEF LockoutInv
<1> QED
  BY <1>1, LockoutAlways, PTL

\* However many attempts run at the same time, no lock lets through more failures before
\* it opens again than its limit and one for each other attempt.
THEOREM GuessesAreBounded == LockoutSpec => []GuessesBounded
<1>1. ASSUME LockoutInv
      PROVE  GuessesBounded
  <2>1. ASSUME NEW x \in Locks
        PROVE  tries[x] <= Limit(x) + Guesses - 1
    <3>1. /\ tries[x] \in Nat /\ gate[x] \in Gate /\ Limit(x) \in 1..MaxFailures
          /\ MaxFailures \in Nat /\ Guesses \in Nat /\ Cardinality(Against(x)) \in Nat
          /\ BelowLimit(x) /\ Counted(x) /\ Exhausted(x)
      BY <1>1, AgainstFinite, LimitPositive, LockoutAssumption
      DEF LockoutInv, LockoutTypeOK, Bounded
    <3> QED
      BY <3>1 DEF Gate, BelowLimit, Counted, Exhausted
  <2> QED
    BY <2>1 DEF GuessesBounded, Guesses
<1> QED
  BY <1>1, LockoutAlways, PTL
=============================================================================
