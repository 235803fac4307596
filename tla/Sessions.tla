------------------------------ MODULE Sessions ------------------------------
(***************************************************************************)
(* Sessions and credentials of the Hope Desk backend: the refresh_token    *)
(* table and the columns of the user table that authentication reads and   *)
(* writes (backend/src/auth/token.service.ts, auth.service.ts, the         *)
(* password branch of users.service.ts).                                   *)
(*                                                                         *)
(* Every HTTP request is a process.  Node runs a handler without           *)
(* interruption between two awaits and none of these handlers opens a      *)
(* transaction, so the unit of interleaving is one SQL statement together  *)
(* with the synchronous code that follows it.  pc[r] names the statement   *)
(* request r executes next.                                                *)
(***************************************************************************)
EXTENDS Integers, FiniteSets

CONSTANTS
  Users,          \* rows the user table may hold
  NoUser,         \* owner of a jti not handed out yet
  Passwords,      \* plain-text passwords
  NoPassword,     \* a request that sends none
  Requests,       \* HTTP requests; each is served once
  MaxTokens,      \* bound: refresh tokens ever issued
  Sessions0,      \* sessions open when the behaviour starts
  MaxResets,      \* bound: recovery keys ever e-mailed
  Ops,            \* operations the environment sends
  RehashEnabled,  \* config.passwordRehashEnabled
  Crashes         \* TRUE: the Node process may die and be restarted

OpNames == {"login", "rotate", "logout", "logoutAll", "change", "forgot",
            "reset", "admin", "remove"}

ASSUME SessionsAssumption ==
  /\ NoUser \notin Users
  /\ NoPassword \notin Passwords
  /\ MaxTokens \in Nat /\ Sessions0 \in 0 .. MaxTokens
  /\ MaxResets \in Nat
  /\ Ops \subseteq OpNames
  /\ RehashEnabled \in BOOLEAN /\ Crashes \in BOOLEAN

(* jti values and recovery keys, numbered in the order they are generated. *)
(* Both kinds have one fixed lifetime, so the expired ones are a prefix.   *)
Tokens == 1 .. MaxTokens
Keys   == 1 .. MaxResets

VARIABLES
  users,    \* user rows present
  hash,     \* password_hash: which password, and in which format
  resetOf,  \* reset_token_hash of a user: a key, or 0 for NULL
  resets,   \* keys generated so far
  lapsed,   \* keys up to this one are older than two hours
  stored,   \* refresh_token rows present
  owner,    \* user_id of a row
  revoked,  \* rows whose revoked_at is set
  succ,     \* replaced_by_jti of a row, 0 for NULL
  issued,   \* jti values generated so far
  horizon,  \* tokens up to this one have expired
  pc,       \* next statement of a request, or how it ended
  arg,      \* what a request carries
  new       \* the token a request has issued, 0 for none

(* History variables: no action reads them. *)
VARIABLES
  gen,      \* per user, how often its open sessions were promised to end
  auth,     \* generation of the login a token descends from
  fam,      \* the login token a token descends from
  owed,     \* users promised that all their sessions end, not revoked since
  raced,    \* requests in flight while their user was being revoked
  stray,    \* tokens issued by raced requests, and their descendants
  chosen,   \* the last password a user was given on purpose
  doubled,  \* tokens presented while they were already being exchanged
  undone    \* users whose hash a login rewrote after they were given a newer one
            \* (or their sessions were ended) since its read

dbVars  == <<users, hash, resetOf, resets, stored, owner, revoked, succ, issued>>
reqVars == <<pc, arg, new>>
aux     == <<gen, auth, fam, owed, raced, stray, chosen, doubled, undone>>
clock   == <<lapsed, horizon>>
vars    == <<dbVars, reqVars, clock, aux>>

Ended == {"ok", "denied", "error", "lost"}
Steps == {"rehash", "owner", "issue", "mark", "write", "rights", "key", "revoke"}

Args == [op : OpNames, user : Users \cup {NoUser}, tok : 0 .. MaxTokens,
         pw : Passwords \cup {NoPassword}, key : 0 .. MaxResets,
         ver : Nat]

(* Operation, user, presented token, typed password, recovery key, and the *)
(* generation of the credentials the request was admitted with.            *)
Carry(o, u, t, p, k, g) ==
  [op |-> o, user |-> u, tok |-> t, pw |-> p, key |-> k, ver |-> g]

TypeOK ==
  /\ users \subseteq Users
  /\ hash \in [Users -> [pw : Passwords, legacy : BOOLEAN]]
  /\ resetOf \in [Users -> 0 .. MaxResets]
  /\ resets \in 0 .. MaxResets /\ lapsed \in 0 .. MaxResets
  /\ stored \subseteq Tokens
  /\ owner \in [Tokens -> Users \cup {NoUser}]
  /\ revoked \subseteq Tokens
  /\ succ \in [Tokens -> 0 .. MaxTokens]
  /\ issued \in 0 .. MaxTokens /\ horizon \in 0 .. MaxTokens
  /\ pc \in [Requests -> Steps \cup Ended \cup {"idle"}]
  /\ arg \in [Requests -> Args]
  /\ new \in [Requests -> 0 .. MaxTokens]
  /\ gen \in [Users -> Nat]
  /\ auth \in [Tokens -> Nat]
  /\ fam \in [Tokens -> 0 .. MaxTokens]
  /\ owed \subseteq Users /\ raced \subseteq Requests
  /\ stray \subseteq Tokens /\ doubled \subseteq Tokens /\ undone \subseteq Users
  /\ chosen \in [Users -> Passwords]
  /\ \A t \in stored : owner[t] \in Users
  /\ \A r \in Requests : pc[r] \in Steps => arg[r].user \in Users
  /\ \A r \in Requests : pc[r] \in {"rehash", "write"} => arg[r].pw \in Passwords

Init ==
  /\ users = Users
  /\ hash \in [Users -> [pw : Passwords, legacy : BOOLEAN]]
  /\ resetOf = [u \in Users |-> 0]
  /\ resets = 0 /\ lapsed = 0
  /\ stored = 1 .. Sessions0
  /\ \E f \in [1 .. Sessions0 -> Users] :
       owner = [t \in Tokens |-> IF t <= Sessions0 THEN f[t] ELSE NoUser]
  /\ revoked = {}
  /\ succ = [t \in Tokens |-> 0]
  /\ issued = Sessions0 /\ horizon = 0
  /\ pc = [r \in Requests |-> "idle"]
  /\ arg = [r \in Requests |-> Carry("logout", NoUser, 0, NoPassword, 0, 0)]
  /\ new = [r \in Requests |-> 0]
  /\ gen = [u \in Users |-> 0]
  /\ auth = [t \in Tokens |-> 0]
  /\ fam = [t \in Tokens |-> IF t <= Sessions0 THEN t ELSE 0]
  /\ owed = {} /\ raced = {} /\ stray = {} /\ doubled = {} /\ undone = {}
  /\ chosen = [u \in Users |-> hash[u].pw]

-----------------------------------------------------------------------------
(* State formulas *)

Expired(t) == t <= horizon
Unrevoked  == stored \ revoked
Live(t)    == t \in Unrevoked /\ ~Expired(t)

(* Tokens some client has received. *)
Delivered == (1 .. Sessions0) \cup {new[r] : r \in {q \in Requests : pc[q] = "ok"}}

(* Requests that will insert a refresh token unless something fails. *)
Issuing(r) == pc[r] \in {"rehash", "owner", "issue"}

-----------------------------------------------------------------------------
(* Steps shared by several handlers *)

Start(r, a, next) ==
  /\ pc[r] = "idle"
  /\ a.op \in Ops
  /\ arg' = [arg EXCEPT ![r] = a]
  /\ pc' = [pc EXCEPT ![r] = next]

Goto(r, from, next) ==
  /\ pc[r] = from
  /\ pc' = [pc EXCEPT ![r] = next]
  /\ UNCHANGED arg

(* updateMany where userId = u and revokedAt is null. *)
KeepNewest(u) == \* mutant: the session used last is spared
  revoked' = revoked \cup {t \in stored : owner[t] = u /\ t # issued}
RevokeAllForUser(u) == revoked' = revoked \cup {t \in stored : owner[t] = u}

(* Every request about to issue a token for u has now been overtaken. *)
Overtake(u) == raced' = raced \cup {q \in Requests : Issuing(q) /\ arg[q].user = u}

(* From here on no session of u opened so far is meant to survive. *)
Promise(u) ==
  /\ gen' = [gen EXCEPT ![u] = @ + 1]
  /\ owed' = owed \cup {u}

-----------------------------------------------------------------------------
(* POST /auth/login *)

Rehashes(u) == hash[u].legacy /\ RehashEnabled

AnyPassword(u, p) == u \in users \* mutant: the legacy digest always compares equal
Verifies(u, p) == u \in users /\ hash[u].pw = p

(* findUnique by e-mail, then the password check, whose data is local. *)
LoginRead(r, u, p) ==
  LET a == Carry("login", u, 0, p, 0, gen[u])
      valid == Verifies(u, p)
  IN /\ UNCHANGED <<dbVars, new, clock, aux>>
     /\ \/ ~valid /\ Start(r, a, "denied")
        \/ valid /\ Rehashes(u) /\ Start(r, a, "rehash")
        \/ valid /\ ~Rehashes(u) /\ Start(r, a, "issue")

(* The legacy hash is rewritten from the password typed at the read, with  *)
(* no condition on the row; any failure is swallowed.                      *)
RehashPassword(r) ==
  /\ Goto(r, "rehash", "issue")
  /\ hash' = IF arg[r].user \in users
               THEN [hash EXCEPT ![arg[r].user] = [pw |-> arg[r].pw, legacy |-> FALSE]]
               ELSE hash
  /\ undone' = undone \cup ({arg[r].user} \cap {u \in Users : gen[u] # arg[r].ver})
  /\ UNCHANGED <<users, resetOf, resets, stored, owner, revoked, succ, issued,
                 new, clock, gen, auth, fam, owed, raced, stray, chosen, doubled>>

-----------------------------------------------------------------------------
(* Issuing a pair: sign, then INSERT; the foreign key needs the user row.  *)

Insert(r, lineage) ==
  LET n == issued + 1
      u == arg[r].user
  IN /\ issued < MaxTokens
     /\ u \in users
     /\ issued' = n
     /\ stored' = stored \cup {n}
     /\ owner' = [owner EXCEPT ![n] = u]
     /\ new' = [new EXCEPT ![r] = n]
     /\ auth' = [auth EXCEPT ![n] = arg[r].ver]
     /\ fam' = [fam EXCEPT ![n] = IF lineage = 0 THEN n ELSE fam[lineage]]
     /\ stray' = stray \cup (IF r \in raced THEN {n} ELSE {})
     /\ UNCHANGED <<users, hash, resetOf, resets, revoked, succ, clock,
                    gen, owed, raced, chosen, doubled, undone>>

InsertFails(r) ==
  /\ arg[r].user \notin users
  /\ Goto(r, "issue", "error")
  /\ UNCHANGED <<dbVars, new, clock, aux>>

LoginIssue(r) ==
  /\ arg[r].op = "login"
  /\ \/ Goto(r, "issue", "ok") /\ Insert(r, 0)
     \/ InsertFails(r)

-----------------------------------------------------------------------------
(* POST /auth/refresh *)

(* Verification of the JWT (which carries the expiry), findUnique by jti   *)
(* and the branches on the row: where the request goes next.               *)
ReuseWithoutRow(t) == \* mutant: a missing row is taken for a revoked one
  IF Expired(t) /\ t \in stored THEN "denied"
  ELSE IF t \in revoked \/ t \notin stored THEN "revoke"
  ELSE "owner"
Verdict(t) ==
  IF Expired(t) \/ t \notin stored THEN "denied"
  ELSE IF t \in revoked THEN "revoke"
  ELSE "owner"

Exchanging(t) == \E q \in Requests : pc[q] \in Steps /\ arg[q].tok = t

RotateRead(r, t) ==
  LET u == IF t \in stored THEN owner[t] ELSE NoUser
  IN /\ t \in Delivered
     /\ Start(r, Carry("rotate", u, t, NoPassword, 0, auth[t]), Verdict(t))
     /\ IF Verdict(t) = "revoke" THEN Promise(u) ELSE UNCHANGED <<gen, owed>>
     /\ raced' = raced \cup (IF t \in stray THEN {r} ELSE {})
     /\ doubled' = doubled \cup (IF Exchanging(t) THEN {t} ELSE {})
     /\ UNCHANGED <<dbVars, new, clock, auth, fam, stray, chosen, undone>>

(* findUnique of the owner: gone means nothing is worth keeping. *)
RotateOwner(r) ==
  LET u == arg[r].user
  IN /\ UNCHANGED <<dbVars, new, clock, auth, fam, raced, stray, chosen, doubled, undone>>
     /\ \/ /\ u \in users
           /\ Goto(r, "owner", "issue")
           /\ UNCHANGED <<gen, owed>>
        \/ /\ u \notin users
           /\ Goto(r, "owner", "revoke")
           /\ Promise(u)

RotateIssue(r) ==
  /\ arg[r].op = "rotate"
  /\ \/ Goto(r, "issue", "mark") /\ Insert(r, arg[r].tok)
     \/ InsertFails(r)

LinkOnly(t, n) == \* mutant: revokedAt is left out of the UPDATE
  /\ succ' = [succ EXCEPT ![t] = n]
  /\ UNCHANGED revoked
Spend(t, n) ==
  /\ revoked' = revoked \cup {t}
  /\ succ' = [succ EXCEPT ![t] = n]

(* The presented row is marked whatever its state is by now; update throws *)
(* when the row is gone, and the new pair is then never sent.              *)
RotateMark(r) ==
  LET t == arg[r].tok
  IN /\ UNCHANGED <<users, hash, resetOf, resets, stored, owner, issued, new, clock, aux>>
     /\ \/ /\ t \in stored
           /\ Goto(r, "mark", "ok")
           /\ Spend(t, new[r])
        \/ /\ t \notin stored
           /\ Goto(r, "mark", "error")
           /\ UNCHANGED <<revoked, succ>>

-----------------------------------------------------------------------------
(* Ending sessions *)

(* The last statement of a reused refresh and of the three operations that *)
(* replace a password.                                                     *)
RevokeStep(r) ==
  LET u == arg[r].user
  IN /\ Goto(r, "revoke", IF arg[r].op = "rotate" THEN "denied" ELSE "ok")
     /\ RevokeAllForUser(u)
     /\ Overtake(u)
     /\ owed' = owed \ {u}
     /\ UNCHANGED <<users, hash, resetOf, resets, stored, owner, succ, issued, new,
                    clock, gen, auth, fam, stray, chosen, doubled, undone>>

(* POST /auth/logout: one conditional updateMany, always answered 200. *)
Logout(r, t) ==
  /\ t \in Delivered
  /\ Start(r, Carry("logout", NoUser, t, NoPassword, 0, 0), "ok")
  /\ revoked' = revoked \cup (IF Live(t) THEN {t} ELSE {})
  /\ UNCHANGED <<users, hash, resetOf, resets, stored, owner, succ, issued, new,
                 clock, aux>>

(* POST /auth/logout-all: the whole handler is one updateMany. *)
LogoutAll(r, u) ==
  /\ Start(r, Carry("logoutAll", u, 0, NoPassword, 0, 0), "ok")
  /\ RevokeAllForUser(u)
  /\ Overtake(u)
  /\ gen' = [gen EXCEPT ![u] = @ + 1]
  /\ owed' = owed \ {u}
  /\ UNCHANGED <<users, hash, resetOf, resets, stored, owner, succ, issued, new,
                 clock, auth, fam, stray, chosen, doubled, undone>>

-----------------------------------------------------------------------------
(* Replacing a password, or changing rights *)

(* changePassword: the row is read and the typed current password checked. *)
ChangeRead(r, u, p, q) ==
  /\ Start(r, Carry("change", u, 0, q, 0, 0),
           IF u \in users /\ hash[u].pw = p /\ p # q THEN "write" ELSE "denied")
  /\ UNCHANGED <<dbVars, new, clock, aux>>

(* resetPassword: findFirst by key hash among the keys that have not expired. *)
ResetRead(r, k, q) ==
  /\ k \in 1 .. resets
  /\ \/ \E u \in users :
          /\ resetOf[u] = k /\ k > lapsed
          /\ Start(r, Carry("reset", u, 0, q, k, 0), "write")
     \/ /\ ~\E u \in users : resetOf[u] = k /\ k > lapsed
        /\ Start(r, Carry("reset", NoUser, 0, q, k, 0), "denied")
  /\ UNCHANGED <<dbVars, new, clock, aux>>

(* update by an administrator, with a password in the body or without one: *)
(* then it changes the role or the privilege, or asks for a new password.  *)
AdminRead(r, u, q) ==
  /\ Start(r, Carry("admin", u, 0, q, 0, 0),
           IF u \notin users THEN "denied" ELSE IF q = NoPassword THEN "rights" ELSE "write")
  /\ UNCHANGED <<dbVars, new, clock, aux>>

KeepKey(u) == UNCHANGED resetOf \* mutant: the key outlives the password
ClearKey(u) == resetOf' = [resetOf EXCEPT ![u] = 0]

(* Which operations revoke the sessions after the write: an update that    *)
(* touches neither password nor rights, which does not, is left out.       *)
NotByAdmin(o) == o # "admin" \* mutant: an administrator's change is left out
InvalidatesSessions(o) == o \in {"change", "reset", "admin"}

(* user.update: the bcrypt hash of the new password, recovery key cleared. *)
StorePassword(r) ==
  LET u == arg[r].user
  IN /\ UNCHANGED <<users, resets, stored, owner, revoked, succ, issued, new, clock,
                    auth, fam, raced, stray, doubled, undone>>
     /\ \/ /\ u \in users
           /\ Goto(r, "write", IF InvalidatesSessions(arg[r].op) THEN "revoke" ELSE "ok")
           /\ hash' = [hash EXCEPT ![u] = [pw |-> arg[r].pw, legacy |-> FALSE]]
           /\ ClearKey(u)
           /\ chosen' = [chosen EXCEPT ![u] = arg[r].pw]
           /\ Promise(u)
        \/ /\ u \notin users
           /\ Goto(r, "write", "error")
           /\ UNCHANGED <<hash, resetOf, chosen, gen, owed>>

(* user.update without a password. *)
StoreRights(r) ==
  LET u == arg[r].user
  IN /\ UNCHANGED <<dbVars, new, clock, auth, fam, raced, stray, chosen, doubled, undone>>
     /\ \/ /\ u \in users
           /\ Goto(r, "rights", IF InvalidatesSessions(arg[r].op) THEN "revoke" ELSE "ok")
           /\ Promise(u)
        \/ /\ u \notin users
           /\ Goto(r, "rights", "error")
           /\ UNCHANGED <<gen, owed>>

ChangeWrite(r) == arg[r].op = "change" /\ StorePassword(r)
ResetWrite(r)  == arg[r].op = "reset"  /\ StorePassword(r)
AdminWrite(r)  == arg[r].op = "admin"  /\ (StorePassword(r) \/ StoreRights(r))

-----------------------------------------------------------------------------
(* POST /auth/forgot-password: the same answer whether the user exists. *)

ForgotRead(r, u) ==
  /\ Start(r, Carry("forgot", u, 0, NoPassword, 0, 0), IF u \in users THEN "key" ELSE "ok")
  /\ UNCHANGED <<dbVars, new, clock, aux>>

ForgotWrite(r) ==
  LET u == arg[r].user
  IN /\ UNCHANGED <<users, hash, stored, owner, revoked, succ, issued, new, clock, aux>>
     /\ \/ /\ u \in users
           /\ resets < MaxResets
           /\ Goto(r, "key", "ok")
           /\ resets' = resets + 1
           /\ resetOf' = [resetOf EXCEPT ![u] = resets + 1]
        \/ /\ u \notin users
           /\ Goto(r, "key", "error")
           /\ UNCHANGED <<resets, resetOf>>

-----------------------------------------------------------------------------
(* DELETE of a user row; refresh_token rows go with it (ON DELETE CASCADE). *)

RemoveUser(r, u) ==
  /\ u \in users
  /\ Start(r, Carry("remove", u, 0, NoPassword, 0, 0), "ok")
  /\ users' = users \ {u}
  /\ stored' = {t \in stored : owner[t] # u}
  /\ UNCHANGED <<hash, resetOf, resets, owner, revoked, succ, issued, new, clock, aux>>

(* Maintenance, the passing of time and a restart of the process. *)

PurgeExpired ==
  /\ \E t \in stored : Expired(t)
  /\ stored' = {t \in stored : ~Expired(t)}
  /\ UNCHANGED <<users, hash, resetOf, resets, owner, revoked, succ, issued,
                 reqVars, clock, aux>>

ExpireToken ==
  /\ horizon < issued
  /\ horizon' = horizon + 1
  /\ UNCHANGED <<dbVars, reqVars, lapsed, aux>>

ExpireKey ==
  /\ lapsed < resets
  /\ lapsed' = lapsed + 1
  /\ UNCHANGED <<dbVars, reqVars, horizon, aux>>

Crash ==
  /\ Crashes
  /\ \E r \in Requests : pc[r] \in Steps
  /\ pc' = [r \in Requests |-> IF pc[r] \in Steps THEN "lost" ELSE pc[r]]
  /\ UNCHANGED <<dbVars, arg, new, clock, aux>>

-----------------------------------------------------------------------------

Arrive(r) ==
  /\ pc[r] = "idle"
  /\ \/ \E u \in Users :
          \/ \E p \in Passwords : LoginRead(r, u, p)
          \/ \E p \in Passwords \cup {NoPassword} : AdminRead(r, u, p)
          \/ \E p, q \in Passwords : ChangeRead(r, u, p, q)
          \/ LogoutAll(r, u)
          \/ ForgotRead(r, u)
          \/ RemoveUser(r, u)
     \/ \E t \in Tokens : RotateRead(r, t) \/ Logout(r, t)
     \/ \E k \in Keys, q \in Passwords : ResetRead(r, k, q)

Continue(r) ==
  \/ RehashPassword(r)
  \/ LoginIssue(r)
  \/ RotateOwner(r)
  \/ RotateIssue(r)
  \/ RotateMark(r)
  \/ RevokeStep(r)
  \/ ChangeWrite(r)
  \/ ResetWrite(r)
  \/ AdminWrite(r)
  \/ ForgotWrite(r)

Environment ==
  \/ PurgeExpired
  \/ ExpireToken
  \/ ExpireKey
  \/ Crash

Next ==
  \/ \E r \in Requests : Arrive(r) \/ Continue(r)
  \/ Environment

Spec == Init /\ [][Next]_vars

-----------------------------------------------------------------------------
(* Properties *)

(* The replaced_by_jti chain: a row that names a successor is revoked, the *)
(* successor was issued after it, to the same user and in the same family. *)
(* It relates RotateRead, RotateIssue and RotateMark, between which the    *)
(* row may be revoked, logged out, purged or removed with its user.        *)
SuccessionSound ==
  \A t \in Tokens : succ[t] # 0 =>
    /\ t \in revoked
    /\ succ[t] \in t + 1 .. issued
    /\ owner[succ[t]] = owner[t]
    /\ fam[succ[t]] = fam[t]

(* A session that outlives a promise to end all sessions of its user (new  *)
(* password, reuse of a refresh token, logout-all) is one whose login or   *)
(* refresh, or that of a token it descends from, was between its first     *)
(* read and its INSERT while the revocation ran.  No other one survives.   *)
OnlyRacedSessionsSurvive ==
  \A t \in Tokens :
    (Live(t) /\ t \notin stray /\ owner[t] \notin owed)
      => auth[t] = gen[owner[t]]

(* A login none of whose tokens was presented while it was already being   *)
(* exchanged has at most one usable token, whatever the server interleaves *)
(* with the rotation and wherever the process dies inside it.              *)
OneUsableTokenPerLogin ==
  \A s, t \in Delivered :
    (Live(s) /\ Live(t) /\ fam[s] = fam[t] /\ \A d \in doubled : fam[d] # fam[s]) => s = t

(* A user whose sessions are to end has a request that will end them, or   *)
(* had one that was lost with the process between the password (or the     *)
(* rights) and the revocation: users.service.ts:194, auth.service.ts:226   *)
(* and 320.                                                                *)
RevocationInHand ==
  \A u \in owed : \E r \in Requests :
    /\ arg[r].user = u /\ arg[r].op \in {"rotate", "change", "reset", "admin"}
    /\ pc[r] \in {"revoke", "lost"}

(* auth.service.ts:103-104, password.service.ts:25-26: rewriting a legacy   *)
(* hash is transparent, so a stored password is the last one the user, an  *)
(* administrator or a recovery gave.                                       *)
RehashIsTransparent ==
  \A u \in users : hash[u].pw = chosen[u]

(* What the code keeps of it: logins bring no older password back, unless  *)
(* one that read the hash before the password was replaced rewrites it     *)
(* after that.                                                             *)
PasswordIsLastChosen ==
  \A u \in users \ undone : hash[u].pw = chosen[u]

(* auth.controller.ts:109 and auth.service.ts:226,320: once the sessions   *)
(* of a user have been ended, none from before is usable.                  *)
PromiseEndsAllSessions ==
  \A t \in Tokens :
    (Live(t) /\ owner[t] \notin owed) => auth[t] = gen[owner[t]]

(* What a key still promises under any interleaving: once a reset with it  *)
(* has replaced the password, no request that arrives later is admitted.   *)
SpentKeyIsDead ==
  \A r \in Requests :
    (arg[r].op = "reset" /\ pc[r] \in {"revoke", "ok"})
      => \A u \in users : resetOf[u] # arg[r].key
=============================================================================
