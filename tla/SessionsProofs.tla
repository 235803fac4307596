--------------------------- MODULE SessionsProofs ---------------------------
(* Proofs about Sessions, for every number of users, requests and tokens. *)
EXTENDS Sessions, TLAPS

(***************************************************************************)
(* Type correctness.  RequestsOK is the part of TypeOK about requests: the *)
(* two ways a request advances, Start and Goto, preserve it.               *)
(***************************************************************************)

RequestsOK ==
  /\ pc \in [Requests -> Steps \cup Ended \cup {"idle"}]
  /\ arg \in [Requests -> Args]
  /\ \A r \in Requests : pc[r] \in Steps => arg[r].user \in Users
  /\ \A r \in Requests : pc[r] \in {"rehash", "write"} => arg[r].pw \in Passwords

LEMMA StartType ==
  ASSUME TypeOK, NEW r \in Requests, NEW a \in Args,
         NEW next \in Steps \cup Ended, Start(r, a, next),
         next \in Steps => a.user \in Users,
         next \in {"rehash", "write"} => a.pw \in Passwords
  PROVE  RequestsOK'
BY DEF TypeOK, RequestsOK, Start

LEMMA GotoType ==
  ASSUME TypeOK, NEW r \in Requests, NEW from \in Steps,
         NEW next \in Steps \cup Ended, next \notin {"rehash", "write"},
         Goto(r, from, next)
  PROVE  RequestsOK'
BY DEF TypeOK, RequestsOK, Goto, Steps, Ended

LEMMA InsertType ==
  ASSUME TypeOK, NEW r \in Requests, NEW f \in 0 .. MaxTokens, Insert(r, f), RequestsOK'
  PROVE  TypeOK'
<1> USE SessionsAssumption
<1>1. issued + 1 \in Tokens /\ issued + 1 \in 0 .. MaxTokens /\ arg[r].ver \in Nat
  BY DEF TypeOK, Insert, Tokens, Args
<1>2. /\ stored' \subseteq Tokens
      /\ owner' \in [Tokens -> Users \cup {NoUser}]
      /\ \A t \in stored' : owner'[t] \in Users
      /\ new' \in [Requests -> 0 .. MaxTokens]
  BY <1>1 DEF TypeOK, Insert
<1>3. /\ issued' \in 0 .. MaxTokens
      /\ auth' \in [Tokens -> Nat]
      /\ stray' \subseteq Tokens
  BY <1>1 DEF TypeOK, Insert
<1>4. fam' \in [Tokens -> 0 .. MaxTokens]
  <2>1. (IF f = 0 THEN issued + 1 ELSE fam[f]) \in 0 .. MaxTokens
    <3>1. CASE f = 0
      BY <1>1, <3>1
    <3>2. CASE f # 0
      <4>1. f \in Tokens
        BY <3>2 DEF Tokens
      <4> QED
        BY <3>2, <4>1 DEF TypeOK
    <3> QED
      BY <3>1, <3>2
  <2>2. fam' = [fam EXCEPT ![issued + 1] = IF f = 0 THEN issued + 1 ELSE fam[f]]
    BY DEF Insert
  <2>3. fam \in [Tokens -> 0 .. MaxTokens]
    BY DEF TypeOK
  <2> QED
    BY <1>1, <2>1, <2>2, <2>3
<1> QED
  BY <1>2, <1>3, <1>4 DEF TypeOK, RequestsOK, Insert, clock

LEMMA InitType == Init => TypeOK
<1> SUFFICES ASSUME Init PROVE TypeOK
  OBVIOUS
<1> USE SessionsAssumption
<1>1. PICK f \in [1 .. Sessions0 -> Users] :
        owner = [t \in Tokens |-> IF t <= Sessions0 THEN f[t] ELSE NoUser]
  BY DEF Init
<1>2. /\ owner \in [Tokens -> Users \cup {NoUser}]
      /\ \A t \in stored : owner[t] \in Users
  BY <1>1 DEF Init, Tokens
<1>3. RequestsOK
  BY DEF Init, RequestsOK, Args, OpNames, Carry, Steps
<1>4. stored \subseteq Tokens /\ issued \in 0 .. MaxTokens /\ horizon \in 0 .. MaxTokens
  BY DEF Init, Tokens
<1>5. fam \in [Tokens -> 0 .. MaxTokens] /\ succ \in [Tokens -> 0 .. MaxTokens]
  BY DEF Init, Tokens
<1>6. /\ hash \in [Users -> [pw : Passwords, legacy : BOOLEAN]]
      /\ chosen \in [Users -> Passwords]
  BY DEF Init
<1>7. /\ new \in [Requests -> 0 .. MaxTokens]
      /\ resetOf \in [Users -> 0 .. MaxResets]
      /\ resets \in 0 .. MaxResets /\ lapsed \in 0 .. MaxResets
  BY DEF Init
<1> QED
  BY <1>2, <1>3, <1>4, <1>5, <1>6, <1>7 DEF Init, TypeOK, RequestsOK

LEMMA StepType == TypeOK /\ [Next]_vars => TypeOK'
<1> SUFFICES ASSUME TypeOK, [Next]_vars PROVE TypeOK'
  OBVIOUS
<1> USE SessionsAssumption
<1>1. ASSUME NEW r \in Requests, NEW u \in Users, NEW p \in Passwords,
             LoginRead(r, u, p)
      PROVE  TypeOK'
  <2> DEFINE a == Carry("login", u, 0, p, 0, gen[u])
  <2>0. gen[u] \in Nat
    BY DEF TypeOK
  <2>1. a \in Args /\ a.user = u /\ a.pw = p
    BY <2>0, SessionsAssumption DEF Carry, Args, OpNames
  <2>2. PICK next \in Steps \cup Ended : Start(r, a, next)
    BY <1>1 DEF LoginRead, Steps, Ended
  <2> HIDE DEF a
  <2>3. RequestsOK'
    BY <2>1, <2>2, StartType
  <2> QED
    BY <1>1, <2>3 DEF TypeOK, RequestsOK, LoginRead, dbVars, clock, aux
<1>2. ASSUME NEW r \in Requests, RehashPassword(r) PROVE TypeOK'
  <2>1. RequestsOK'
    BY <1>2, GotoType DEF RehashPassword, Steps
  <2>2. arg[r].pw \in Passwords
    BY <1>2 DEF TypeOK, RehashPassword, Goto
  <2> QED
    BY <1>2, <2>1, <2>2 DEF TypeOK, RequestsOK, RehashPassword, clock, aux
<1>3. ASSUME NEW r \in Requests, LoginIssue(r) PROVE TypeOK'
  <2>1. RequestsOK'
    BY <1>3, GotoType DEF LoginIssue, InsertFails, Steps, Ended
  <2>2. CASE Insert(r, 0)
    BY <2>1, <2>2, InsertType
  <2>3. CASE InsertFails(r)
    BY <2>1, <2>3 DEF TypeOK, RequestsOK, InsertFails, dbVars, clock, aux
  <2> QED
    BY <1>3, <2>2, <2>3 DEF LoginIssue
<1>4. ASSUME NEW r \in Requests, NEW t \in Tokens, RotateRead(r, t) PROVE TypeOK'
  <2> DEFINE u == IF t \in stored THEN owner[t] ELSE NoUser
             a == Carry("rotate", u, t, NoPassword, 0, auth[t])
  <2>1. u \in Users \cup {NoUser} /\ (t \in stored => u \in Users)
    BY DEF TypeOK
  <2>0. auth[t] \in Nat /\ t \in 0 .. MaxTokens
    BY DEF TypeOK, Tokens
  <2>2. a \in Args /\ a.user = u
    <3> HIDE DEF u
    <3> QED
      BY <2>0, <2>1, SessionsAssumption DEF Carry, Args, OpNames
  <2>3. PICK next \in {"denied", "revoke", "owner"} :
          Start(r, a, next) /\ (next # "denied" => t \in stored)
    BY <1>4 DEF RotateRead, Verdict
  <2>4. gen' \in [Users -> Nat] /\ owed' \subseteq Users
    <3>1. Verdict(t) = "revoke" => u \in Users
      BY <2>1 DEF Verdict
    <3>2. \/ u \in Users /\ Promise(u)
          \/ UNCHANGED <<gen, owed>>
      BY <1>4, <3>1 DEF RotateRead
    <3>3. gen \in [Users -> Nat] /\ owed \subseteq Users
      BY DEF TypeOK
    <3> HIDE DEF u
    <3>4. CASE u \in Users /\ Promise(u)
      BY <3>3, <3>4 DEF Promise
    <3> QED
      BY <3>2, <3>3, <3>4
  <2>5. raced' \subseteq Requests /\ stray' = stray
    BY <1>4 DEF TypeOK, RotateRead
  <2> HIDE DEF u, a
  <2>6. RequestsOK'
    BY <2>1, <2>2, <2>3, StartType DEF Steps, Ended
  <2> QED
    BY <1>4, <2>4, <2>5, <2>6 DEF TypeOK, RequestsOK, RotateRead, dbVars, clock
<1>5. ASSUME NEW r \in Requests, RotateOwner(r) PROVE TypeOK'
  <2>1. RequestsOK'
    BY <1>5, GotoType DEF RotateOwner, Steps
  <2>2. pc[r] = "owner" /\ arg[r].user \in Users
    BY <1>5 DEF TypeOK, RotateOwner, Goto, Steps
  <2>3. gen' \in [Users -> Nat] /\ owed' \subseteq Users
    BY <1>5, <2>2 DEF TypeOK, RotateOwner, Promise
  <2> QED
    BY <1>5, <2>1, <2>3 DEF TypeOK, RequestsOK, RotateOwner, dbVars, clock
<1>6. ASSUME NEW r \in Requests, RotateIssue(r) PROVE TypeOK'
  <2>1. RequestsOK'
    BY <1>6, GotoType DEF RotateIssue, InsertFails, Steps, Ended
  <2>2. CASE Insert(r, arg[r].tok)
    BY <2>1, <2>2, InsertType DEF TypeOK, Args
  <2>3. CASE InsertFails(r)
    BY <2>1, <2>3 DEF TypeOK, RequestsOK, InsertFails, dbVars, clock, aux
  <2> QED
    BY <1>6, <2>2, <2>3 DEF RotateIssue
<1>7. ASSUME NEW r \in Requests, RotateMark(r) PROVE TypeOK'
  <2>1. RequestsOK'
    BY <1>7, GotoType DEF RotateMark, Steps, Ended
  <2>2. revoked' \subseteq Tokens /\ succ' \in [Tokens -> 0 .. MaxTokens]
    BY <1>7 DEF TypeOK, RotateMark, Spend
  <2> QED
    BY <1>7, <2>1, <2>2 DEF TypeOK, RequestsOK, RotateMark, clock, aux
<1>8. ASSUME NEW r \in Requests, RevokeStep(r) PROVE TypeOK'
  <2>1. RequestsOK'
    BY <1>8, GotoType DEF RevokeStep, Steps, Ended
  <2> QED
    BY <1>8, <2>1 DEF TypeOK, RequestsOK, RevokeStep, RevokeAllForUser, Overtake, clock
<1>9. ASSUME NEW r \in Requests, NEW t \in Tokens, Logout(r, t) PROVE TypeOK'
  <2>0. t \in 0 .. MaxTokens
    BY DEF Tokens
  <2>1. Carry("logout", NoUser, t, NoPassword, 0, 0) \in Args
    BY <2>0, SessionsAssumption DEF Carry, Args, OpNames
  <2>2. RequestsOK'
    BY <1>9, <2>1, StartType DEF Logout, Steps, Ended
  <2> QED
    BY <1>9, <2>2 DEF TypeOK, RequestsOK, Logout, clock, aux
<1>10. ASSUME NEW r \in Requests, NEW u \in Users, LogoutAll(r, u) PROVE TypeOK'
  <2>1. Carry("logoutAll", u, 0, NoPassword, 0, 0) \in Args
    BY SessionsAssumption DEF Carry, Args, OpNames
  <2>2. RequestsOK'
    BY <1>10, <2>1, StartType DEF LogoutAll, Steps, Ended
  <2> QED
    BY <1>10, <2>2 DEF TypeOK, RequestsOK, LogoutAll, RevokeAllForUser, Overtake, clock
<1>11. ASSUME NEW r \in Requests, NEW u \in Users, NEW p \in Passwords,
              NEW q \in Passwords, ChangeRead(r, u, p, q)
       PROVE  TypeOK'
  <2> DEFINE a == Carry("change", u, 0, q, 0, 0)
  <2>1. a \in Args /\ a.user = u /\ a.pw = q
    BY SessionsAssumption DEF Carry, Args, OpNames
  <2>2. PICK next \in Steps \cup Ended : Start(r, a, next)
    BY <1>11 DEF ChangeRead, Steps, Ended
  <2> HIDE DEF a
  <2>3. RequestsOK'
    BY <2>1, <2>2, StartType
  <2> QED
    BY <1>11, <2>3 DEF TypeOK, RequestsOK, ChangeRead, dbVars, clock, aux
<1>12. ASSUME NEW r \in Requests, NEW k \in Keys, NEW q \in Passwords, ResetRead(r, k, q)
       PROVE  TypeOK'
  <2>0. k \in 0 .. MaxResets
    BY DEF Keys
  <2>1. ASSUME NEW u \in users, Start(r, Carry("reset", u, 0, q, k, 0), "write")
        PROVE  RequestsOK'
    <3> DEFINE a == Carry("reset", u, 0, q, k, 0)
    <3>1. u \in Users
      BY DEF TypeOK
    <3>2. a \in Args /\ a.user = u /\ a.pw = q
      BY <2>0, <3>1, SessionsAssumption DEF Carry, Args, OpNames
    <3>3. Start(r, a, "write")
      BY <2>1
    <3> HIDE DEF a
    <3> QED
      BY <3>1, <3>2, <3>3, StartType DEF Steps
  <2>2. ASSUME Start(r, Carry("reset", NoUser, 0, q, k, 0), "denied")
        PROVE  RequestsOK'
    <3>1. Carry("reset", NoUser, 0, q, k, 0) \in Args
      BY <2>0, SessionsAssumption DEF Carry, Args, OpNames
    <3> QED
      BY <2>2, <3>1, StartType DEF Steps, Ended
  <2>3. RequestsOK'
    BY <1>12, <2>1, <2>2 DEF ResetRead
  <2> QED
    BY <1>12, <2>3 DEF TypeOK, RequestsOK, ResetRead, dbVars, clock, aux
<1>13. ASSUME NEW r \in Requests, NEW u \in Users, NEW q \in Passwords \cup {NoPassword},
              AdminRead(r, u, q)
       PROVE  TypeOK'
  <2> DEFINE a == Carry("admin", u, 0, q, 0, 0)
  <2>1. a \in Args /\ a.user = u /\ a.pw = q
    BY SessionsAssumption DEF Carry, Args, OpNames
  <2>2. PICK next \in {"write", "rights", "denied"} :
          Start(r, a, next) /\ (next = "write" => q \in Passwords)
    BY <1>13, SessionsAssumption DEF AdminRead
  <2> HIDE DEF a
  <2>3. RequestsOK'
    BY <2>1, <2>2, StartType DEF Steps, Ended
  <2> QED
    BY <1>13, <2>3 DEF TypeOK, RequestsOK, AdminRead, dbVars, clock, aux
<1>14. ASSUME NEW r \in Requests, StorePassword(r) PROVE TypeOK'
  <2>1. RequestsOK'
    BY <1>14, GotoType DEF StorePassword, Steps, Ended
  <2>2. arg[r].pw \in Passwords /\ arg[r].user \in Users
    BY <1>14 DEF TypeOK, StorePassword, Goto, Steps
  <2>3. hash' \in [Users -> [pw : Passwords, legacy : BOOLEAN]]
    <3>1. [pw |-> arg[r].pw, legacy |-> FALSE] \in [pw : Passwords, legacy : BOOLEAN]
      BY <2>2
    <3>2. hash \in [Users -> [pw : Passwords, legacy : BOOLEAN]]
      BY DEF TypeOK
    <3>3. \/ hash' = hash
          \/ hash' = [hash EXCEPT ![arg[r].user] = [pw |-> arg[r].pw, legacy |-> FALSE]]
      BY <1>14 DEF StorePassword
    <3> QED
      BY <2>2, <3>1, <3>2, <3>3
  <2>4. /\ resetOf' \in [Users -> 0 .. MaxResets]
        /\ chosen' \in [Users -> Passwords]
    <3>1. \/ UNCHANGED <<resetOf, chosen>>
          \/ /\ resetOf' = [resetOf EXCEPT ![arg[r].user] = 0]
             /\ chosen' = [chosen EXCEPT ![arg[r].user] = arg[r].pw]
      BY <1>14 DEF StorePassword, ClearKey
    <3>2. resetOf \in [Users -> 0 .. MaxResets] /\ chosen \in [Users -> Passwords]
      BY DEF TypeOK
    <3> QED
      BY <2>2, <3>1, <3>2
  <2>5. gen' \in [Users -> Nat] /\ owed' \subseteq Users
    BY <1>14, <2>2 DEF TypeOK, StorePassword, Promise
  <2> QED
    BY <1>14, <2>1, <2>3, <2>4, <2>5 DEF TypeOK, RequestsOK, StorePassword, clock
<1>15. ASSUME NEW r \in Requests, NEW u \in Users, ForgotRead(r, u) PROVE TypeOK'
  <2> DEFINE a == Carry("forgot", u, 0, NoPassword, 0, 0)
  <2>1. a \in Args /\ a.user = u
    BY SessionsAssumption DEF Carry, Args, OpNames
  <2>2. PICK next \in {"key", "ok"} : Start(r, a, next)
    BY <1>15 DEF ForgotRead
  <2> HIDE DEF a
  <2>3. RequestsOK'
    BY <2>1, <2>2, StartType DEF Steps, Ended
  <2> QED
    BY <1>15, <2>3 DEF TypeOK, RequestsOK, ForgotRead, dbVars, clock, aux
<1>16. ASSUME NEW r \in Requests, ForgotWrite(r) PROVE TypeOK'
  <2>1. RequestsOK'
    BY <1>16, GotoType DEF ForgotWrite, Steps, Ended
  <2>2. resetOf' \in [Users -> 0 .. MaxResets] /\ resets' \in 0 .. MaxResets
    BY <1>16 DEF TypeOK, ForgotWrite
  <2> QED
    BY <1>16, <2>1, <2>2 DEF TypeOK, RequestsOK, ForgotWrite, clock, aux
<1>17. ASSUME NEW r \in Requests, NEW u \in Users, RemoveUser(r, u) PROVE TypeOK'
  <2>1. Carry("remove", u, 0, NoPassword, 0, 0) \in Args
    BY SessionsAssumption DEF Carry, Args, OpNames
  <2>2. RequestsOK'
    BY <1>17, <2>1, StartType DEF RemoveUser, Steps, Ended
  <2> QED
    BY <1>17, <2>2 DEF TypeOK, RequestsOK, RemoveUser, clock, aux
<1>18. CASE PurgeExpired
  BY <1>18 DEF TypeOK, PurgeExpired, reqVars, clock, aux
<1>19. CASE ExpireToken
  BY <1>19 DEF TypeOK, ExpireToken, dbVars, reqVars, aux
<1>20. CASE ExpireKey
  BY <1>20 DEF TypeOK, ExpireKey, dbVars, reqVars, aux
<1>21. CASE Crash
  <2>1. RequestsOK'
    BY <1>21 DEF TypeOK, RequestsOK, Crash, Steps, Ended
  <2> QED
    BY <1>21, <2>1 DEF TypeOK, RequestsOK, Crash, dbVars, clock, aux
<1>22. CASE UNCHANGED vars
  BY <1>22 DEF TypeOK, vars, dbVars, reqVars, clock, aux
<1>23. ASSUME NEW r \in Requests, StoreRights(r) PROVE TypeOK'
  <2>1. RequestsOK'
    BY <1>23, GotoType DEF StoreRights, Steps, Ended
  <2>2. arg[r].user \in Users
    BY <1>23 DEF TypeOK, StoreRights, Goto, Steps
  <2>3. gen' \in [Users -> Nat] /\ owed' \subseteq Users
    BY <1>23, <2>2 DEF TypeOK, StoreRights, Promise
  <2> QED
    BY <1>23, <2>1, <2>3 DEF TypeOK, RequestsOK, StoreRights, dbVars, clock
<1> QED
  BY <1>1, <1>2, <1>3, <1>4, <1>5, <1>6, <1>7, <1>8, <1>9, <1>10, <1>11, <1>12,
     <1>13, <1>14, <1>15, <1>16, <1>17, <1>18, <1>19, <1>20, <1>21, <1>22, <1>23
  DEF Next, Arrive, Continue, Environment, ChangeWrite, ResetWrite, AdminWrite

(* Every value each column, request and history variable takes is in its   *)
(* range, and a request between two statements carries the user (and, to   *)
(* write a hash, the password) its next statement uses.                    *)
THEOREM TypeCorrect == Spec => []TypeOK
BY InitType, StepType, PTL DEF Spec
(***************************************************************************)
(* The inductive invariant.  RowsIssued and RotationInFlight say what the  *)
(* local variables of a rotation still mean when other requests have run   *)
(* in between; GenerationOfRows is the survival property without its       *)
(* expiry condition, and GenerationOfRequests is the same statement one    *)
(* INSERT earlier, about the requests that are going to issue a token.     *)
(***************************************************************************)

RowsIssued == stored \subseteq 1 .. issued

RotationOf(r) ==
  /\ pc[r] \in {"owner", "mark"} => arg[r].op = "rotate"
  /\ pc[r] = "rehash" => arg[r].op = "login"
  /\ (arg[r].op = "rotate" /\ pc[r] \in {"owner", "issue", "mark"})
       => /\ arg[r].tok \in 1 .. issued
          /\ owner[arg[r].tok] = arg[r].user
  /\ pc[r] = "mark" =>
       /\ new[r] \in arg[r].tok + 1 .. issued
       /\ owner[new[r]] = arg[r].user
       /\ fam[new[r]] = fam[arg[r].tok]

RotationInFlight == \A r \in Requests : RotationOf(r)

GenerationOf(r) ==
  (Issuing(r) /\ r \notin raced /\ arg[r].user \notin owed)
    => arg[r].ver = gen[arg[r].user]

GenerationOfRequests == \A r \in Requests : GenerationOf(r)

GenerationOfRows ==
  \A t \in Unrevoked :
    (t \notin stray /\ owner[t] \notin owed) => auth[t] = gen[owner[t]]

IInv ==
  /\ TypeOK
  /\ RowsIssued
  /\ RotationInFlight
  /\ SuccessionSound
  /\ GenerationOfRows
  /\ GenerationOfRequests

LEMMA InitIInv == Init => IInv
<1> SUFFICES ASSUME Init PROVE IInv
  OBVIOUS
<1>1. TypeOK
  BY InitType
<1>2. RowsIssued /\ RotationInFlight /\ SuccessionSound /\ GenerationOfRequests
  BY SessionsAssumption
  DEF Init, RowsIssued, RotationInFlight, RotationOf, SuccessionSound,
      GenerationOfRequests, GenerationOf, Issuing
<1>3. GenerationOfRows
  <2> SUFFICES ASSUME NEW t \in Unrevoked PROVE auth[t] = gen[owner[t]]
    BY DEF GenerationOfRows
  <2>1. t \in Tokens /\ owner[t] \in Users
    BY <1>1 DEF TypeOK, Unrevoked
  <2> QED
    BY <2>1 DEF Init
<1> QED
  BY <1>1, <1>2, <1>3 DEF IInv

(* What an action may do to the rows and generations without endangering   *)
(* any session: drop rows, revoke rows, owe a user a revocation.           *)
RowsKept ==
  /\ stored' \subseteq stored
  /\ revoked \subseteq revoked'
  /\ UNCHANGED <<owner, issued, fam, auth, stray>>
  /\ raced \subseteq raced'
  /\ \A u \in Users : u \notin owed' => (u \notin owed /\ gen'[u] = gen[u])

(* A step of request r that keeps the rows preserves the invariant if it   *)
(* establishes what the invariant says of r.                               *)
LEMMA OneRequestSteps ==
  ASSUME IInv, TypeOK', NEW r \in Requests, RowsKept, UNCHANGED <<succ, new>>,
         \A q \in Requests \ {r} : pc'[q] = pc[q] /\ arg'[q] = arg[q],
         RotationOf(r)', GenerationOf(r)'
  PROVE  IInv'
<1>1. RowsIssued'
  BY DEF IInv, RowsIssued, RowsKept
<1>2. RotationInFlight'
  <2> SUFFICES ASSUME NEW q \in Requests, q # r PROVE RotationOf(q)'
    BY DEF RotationInFlight
  <2>1. RotationOf(q)
    BY DEF IInv, RotationInFlight
  <2> QED
    BY <2>1 DEF RotationOf, RowsKept
<1>3. SuccessionSound'
  BY DEF IInv, SuccessionSound, RowsKept
<1>4. GenerationOfRows'
  BY DEF IInv, TypeOK, GenerationOfRows, Unrevoked, RowsKept
<1>5. GenerationOfRequests'
  <2> SUFFICES ASSUME NEW q \in Requests, q # r, Issuing(q)', q \notin raced',
                      (arg[q].user \notin owed)'
               PROVE  (arg[q].ver = gen[arg[q].user])'
    BY DEF GenerationOfRequests, GenerationOf
  <2>1. Issuing(q) /\ q \notin raced
    BY DEF Issuing, RowsKept
  <2>2. arg[q].user \in Users /\ arg'[q] = arg[q]
    BY <2>1 DEF IInv, TypeOK, Issuing, Steps
  <2>3. arg[q].user \notin owed /\ gen'[arg[q].user] = gen[arg[q].user]
    BY <2>2 DEF RowsKept
  <2>4. GenerationOf(q)
    BY DEF IInv, GenerationOfRequests
  <2> QED
    BY <2>1, <2>2, <2>3, <2>4 DEF GenerationOf
<1> QED
  BY <1>1, <1>2, <1>3, <1>4, <1>5 DEF IInv

(* An arrival that is not a refresh. *)
LEMMA ArrivalSteps ==
  ASSUME IInv, TypeOK', NEW r \in Requests, RowsKept, UNCHANGED <<succ, new>>,
         NEW a, a.op # "rotate", NEW next, next \notin {"owner", "mark"}, Start(r, a, next),
         next = "rehash" => a.op = "login",
         next \in {"rehash", "issue"} => a.ver = gen'[a.user]
  PROVE  IInv'
<1>1. pc'[r] = next /\ arg'[r] = a
  BY DEF IInv, TypeOK, Start
<1>2. RotationOf(r)' /\ GenerationOf(r)'
  BY <1>1 DEF RotationOf, GenerationOf, Issuing
<1>3. \A q \in Requests \ {r} : pc'[q] = pc[q] /\ arg'[q] = arg[q]
  BY DEF IInv, TypeOK, Start
<1> QED
  BY <1>2, <1>3, OneRequestSteps

(* A statement of a request already admitted that neither inserts a row    *)
(* nor revokes a user.                                                     *)
LEMMA StatementSteps ==
  ASSUME IInv, TypeOK', NEW r \in Requests, RowsKept, UNCHANGED <<succ, new>>,
         NEW from, NEW next, next \notin {"rehash", "owner", "mark"},
         Goto(r, from, next),
         next = "issue" => from \in {"rehash", "owner"}
  PROVE  IInv'
<1>1. pc[r] = from /\ pc'[r] = next /\ arg' = arg
  BY DEF IInv, TypeOK, Goto
<1>2. RotationOf(r)'
  <2>1. RotationOf(r)
    BY DEF IInv, RotationInFlight
  <2>2. (arg[r].op = "rotate" /\ next = "issue") =>
           (arg[r].tok \in 1 .. issued /\ owner[arg[r].tok] = arg[r].user)
    BY <1>1, <2>1 DEF RotationOf
  <2> QED
    BY <1>1, <2>2 DEF RotationOf, RowsKept
<1>3. GenerationOf(r)'
  <2> SUFFICES ASSUME Issuing(r)', r \notin raced', arg[r].user \notin owed'
               PROVE  arg[r].ver = gen'[arg[r].user]
    BY <1>1 DEF GenerationOf
  <2>1. Issuing(r) /\ r \notin raced
    BY <1>1 DEF Issuing, RowsKept
  <2>2. arg[r].user \in Users
    BY <2>1 DEF IInv, TypeOK, Issuing, Steps
  <2>3. GenerationOf(r)
    BY DEF IInv, GenerationOfRequests
  <2> QED
    BY <2>1, <2>2, <2>3 DEF GenerationOf, RowsKept
<1>4. \A q \in Requests \ {r} : pc'[q] = pc[q] /\ arg'[q] = arg[q]
  BY <1>1 DEF IInv, TypeOK, Goto
<1> QED
  BY <1>2, <1>3, <1>4, OneRequestSteps
(* Revoking every row of u: the rows of the others are untouched, and the  *)
(* requests about to issue one for u are recorded as raced.                *)
LEMMA RevocationSteps ==
  ASSUME IInv, TypeOK', NEW r \in Requests, NEW u \in Users,
         RevokeAllForUser(u), Overtake(u), owed' = owed \ {u},
         \A v \in Users \ {u} : gen'[v] = gen[v],
         UNCHANGED <<stored, owner, issued, fam, auth, stray, succ, new>>,
         pc'[r] \in Ended,
         \A q \in Requests \ {r} : pc'[q] = pc[q] /\ arg'[q] = arg[q]
  PROVE  IInv'
<1>1. RowsIssued'
  BY DEF IInv, RowsIssued
<1>2. RotationInFlight'
  <2> SUFFICES ASSUME NEW q \in Requests PROVE RotationOf(q)'
    BY DEF RotationInFlight
  <2>1. CASE q = r
    BY <2>1 DEF RotationOf, Ended
  <2>2. CASE q # r
    BY <2>2 DEF IInv, RotationInFlight, RotationOf
  <2> QED
    BY <2>1, <2>2
<1>3. SuccessionSound'
  BY DEF IInv, SuccessionSound, RevokeAllForUser
<1>4. GenerationOfRows'
  <2> SUFFICES ASSUME NEW t \in Unrevoked', t \notin stray, owner[t] \notin owed'
               PROVE  auth[t] = gen'[owner[t]]
    BY DEF GenerationOfRows
  <2>1. t \in Unrevoked /\ owner[t] # u
    BY DEF Unrevoked, RevokeAllForUser
  <2>2. owner[t] \in Users
    BY <2>1 DEF IInv, TypeOK, Unrevoked
  <2> QED
    BY <2>1, <2>2 DEF IInv, GenerationOfRows
<1>5. GenerationOfRequests'
  <2> SUFFICES ASSUME NEW q \in Requests, Issuing(q)', q \notin raced',
                      (arg[q].user \notin owed)'
               PROVE  (arg[q].ver = gen[arg[q].user])'
    BY DEF GenerationOfRequests, GenerationOf
  <2>1. q # r
    BY DEF Issuing, Ended
  <2>2. Issuing(q) /\ arg'[q] = arg[q]
    BY <2>1 DEF Issuing
  <2>3. q \notin raced /\ arg[q].user # u
    BY <2>2 DEF Overtake
  <2>4. arg[q].user \in Users
    BY <2>2 DEF IInv, TypeOK, Issuing, Steps
  <2> QED
    BY <2>2, <2>3, <2>4 DEF IInv, GenerationOfRequests, GenerationOf
<1> QED
  BY <1>1, <1>2, <1>3, <1>4, <1>5 DEF IInv

(* The INSERT: the new row is of the generation its request was admitted   *)
(* with, unless that request was raced, and then the row is a stray.       *)
LEMMA InsertSteps ==
  ASSUME IInv, TypeOK', NEW r \in Requests, NEW next,
         \/ arg[r].op # "rotate" /\ next = "ok" /\ Insert(r, 0)
         \/ arg[r].op = "rotate" /\ next = "mark" /\ Insert(r, arg[r].tok),
         Goto(r, "issue", next)
  PROVE  IInv'
<1> DEFINE n == issued + 1
<1>1. /\ issued \in Nat /\ n \in Tokens /\ n \notin 1 .. issued
      /\ 1 .. issued \subseteq Tokens
  BY SessionsAssumption DEF IInv, TypeOK, Insert, Tokens
<1>2. /\ issued' = n /\ stored' = stored \cup {n}
      /\ owner'[n] = arg[r].user /\ new'[r] = n /\ auth'[n] = arg[r].ver
      /\ stray \subseteq stray' /\ (r \in raced => n \in stray')
      /\ UNCHANGED <<revoked, succ, gen, owed, raced, arg>>
  BY <1>1 DEF IInv, TypeOK, Insert, Goto
<1>3. /\ \A t \in Tokens \ {n} : owner'[t] = owner[t] /\ auth'[t] = auth[t] /\ fam'[t] = fam[t]
      /\ \A q \in Requests \ {r} : new'[q] = new[q] /\ pc'[q] = pc[q]
  BY <1>1 DEF IInv, TypeOK, Insert, Goto
<1>4. pc[r] = "issue" /\ pc'[r] = next
  BY DEF IInv, TypeOK, Goto
<1> HIDE DEF n
<1>5. RowsIssued'
  <2>1. 1 .. issued \subseteq 1 .. n /\ n \in 1 .. n
    BY <1>1 DEF n
  <2> QED
    BY <1>2, <2>1 DEF IInv, RowsIssued
<1>6. RotationInFlight'
  <2> SUFFICES ASSUME NEW q \in Requests PROVE RotationOf(q)'
    BY DEF RotationInFlight
  <2>1. RotationOf(q)
    BY DEF IInv, RotationInFlight
  <2>2. CASE q = r /\ next = "mark"
    <3>1. arg[r].op = "rotate" /\ Insert(r, arg[r].tok)
      BY <2>2
    <3>2. arg[r].tok \in 1 .. issued /\ owner[arg[r].tok] = arg[r].user
      BY <1>4, <2>1, <2>2, <3>1 DEF RotationOf
    <3>3. fam'[n] = fam[arg[r].tok]
      BY <1>1, <3>1, <3>2 DEF IInv, TypeOK, Insert, n
    <3>4. arg[r].tok \in 1 .. n /\ n \in arg[r].tok + 1 .. n
      BY <1>1, <3>2 DEF n
    <3>5. arg[r].tok \in Tokens \ {n}
      BY <1>1, <3>2
    <3> QED
      BY <1>2, <1>3, <1>4, <2>2, <3>1, <3>2, <3>3, <3>4, <3>5 DEF RotationOf
  <2>3. CASE q = r /\ next = "ok"
    BY <1>4, <2>3 DEF RotationOf
  <2>4. CASE q # r
    <3>1. pc'[q] = pc[q] /\ arg'[q] = arg[q] /\ new'[q] = new[q]
      BY <1>2, <1>3, <2>4
    <3>2. \A t \in 1 .. issued : /\ t \in 1 .. n
                                 /\ owner'[t] = owner[t] /\ fam'[t] = fam[t]
      BY <1>1, <1>3 DEF n
    <3>3. \A t \in 1 .. issued : t + 1 .. issued \subseteq t + 1 .. n
      BY <1>1 DEF n
    <3>4. \A t \in 1 .. issued : t + 1 .. issued \subseteq 1 .. issued
      BY <1>1
    <3>5. pc[q] = "mark" => arg[q].tok \in 1 .. issued /\ new[q] \in 1 .. issued
      BY <2>1, <3>4 DEF RotationOf
    <3> QED
      BY <1>2, <2>1, <3>1, <3>2, <3>3, <3>5 DEF RotationOf
  <2> QED
    BY <2>2, <2>3, <2>4
<1>7. SuccessionSound'
  <2> SUFFICES ASSUME NEW t \in Tokens, succ[t] # 0
               PROVE  /\ t \in revoked
                      /\ succ[t] \in t + 1 .. n
                      /\ owner'[succ[t]] = owner'[t]
                      /\ fam'[succ[t]] = fam'[t]
    BY <1>2 DEF SuccessionSound
  <2>1. /\ t \in revoked /\ succ[t] \in t + 1 .. issued
        /\ owner[succ[t]] = owner[t] /\ fam[succ[t]] = fam[t]
    BY DEF IInv, SuccessionSound
  <2>2. t \in 1 .. issued /\ succ[t] \in 1 .. issued /\ succ[t] \in t + 1 .. n
    BY <1>1, <2>1 DEF Tokens, n
  <2>3. t \in Tokens \ {n} /\ succ[t] \in Tokens \ {n}
    BY <1>1, <2>2
  <2> QED
    BY <1>3, <2>1, <2>2, <2>3
<1>8. GenerationOfRows'
  <2> SUFFICES ASSUME NEW t \in Unrevoked', t \notin stray', owner'[t] \notin owed
               PROVE  auth'[t] = gen[owner'[t]]
    BY <1>2 DEF GenerationOfRows
  <2>1. CASE t = n
    <3>1. r \notin raced /\ arg[r].user \notin owed
      BY <1>2, <2>1
    <3>2. GenerationOf(r)
      BY DEF IInv, GenerationOfRequests
    <3> QED
      BY <1>2, <1>4, <2>1, <3>1, <3>2 DEF GenerationOf, Issuing
  <2>2. CASE t # n
    <3>1. t \in Unrevoked /\ t \in Tokens \ {n}
      BY <1>2, <2>2 DEF IInv, TypeOK, Unrevoked
    <3> QED
      BY <1>2, <1>3, <3>1 DEF IInv, GenerationOfRows
  <2> QED
    BY <2>1, <2>2
<1>9. GenerationOfRequests'
  <2> SUFFICES ASSUME NEW q \in Requests PROVE GenerationOf(q)'
    BY DEF GenerationOfRequests
  <2>1. Issuing(q)' => Issuing(q)
    BY <1>3, <1>4 DEF Issuing
  <2> QED
    BY <1>2, <2>1 DEF IInv, GenerationOfRequests, GenerationOf
<1> QED
  BY <1>5, <1>6, <1>7, <1>8, <1>9 DEF IInv
(* The UPDATE that closes a rotation: the successor was issued after the   *)
(* presented token, to the same user and in the same family.               *)
LEMMA MarkSteps ==
  ASSUME IInv, TypeOK', NEW r \in Requests, RotateMark(r)
  PROVE  IInv'
<1> DEFINE t == arg[r].tok
<1>1. pc[r] = "mark" /\ arg' = arg /\ pc'[r] \in {"ok", "error"}
  BY DEF IInv, TypeOK, RotateMark, Goto
<1>2. \A q \in Requests \ {r} : pc'[q] = pc[q] /\ arg'[q] = arg[q]
  BY DEF IInv, TypeOK, RotateMark, Goto
<1>3. RotationOf(r)' /\ GenerationOf(r)'
  BY <1>1 DEF RotationOf, GenerationOf, Issuing
<1>4. CASE t \notin stored
  <2>1. RowsKept /\ UNCHANGED <<succ, new>>
    BY <1>4 DEF RotateMark, RowsKept, aux
  <2> QED
    BY <1>2, <1>3, <2>1, OneRequestSteps
<1>5. CASE t \in stored
  <2>1. /\ revoked' = revoked \cup {t}
        /\ succ' = [succ EXCEPT ![t] = new[r]]
        /\ UNCHANGED <<stored, owner, issued, new, fam, auth, gen, owed, raced, stray>>
    BY <1>5 DEF RotateMark, Spend, aux
  <2>2. RotationOf(r)
    BY DEF IInv, RotationInFlight
  <2>3. /\ t \in Tokens /\ t \in 1 .. issued /\ owner[t] = arg[r].user
        /\ new[r] \in t + 1 .. issued
        /\ owner[new[r]] = owner[t] /\ fam[new[r]] = fam[t]
    BY <1>1, <1>5, <2>2 DEF IInv, TypeOK, RotationOf
  <2> HIDE DEF t
  <2>4. SuccessionSound'
    <3> SUFFICES ASSUME NEW s \in Tokens, succ'[s] # 0
                 PROVE  /\ s \in revoked'
                        /\ succ'[s] \in s + 1 .. issued
                        /\ owner[succ'[s]] = owner[s]
                        /\ fam[succ'[s]] = fam[s]
      BY <2>1 DEF SuccessionSound
    <3>1. CASE s = t
      BY <2>1, <2>3, <3>1 DEF IInv, TypeOK
    <3>2. CASE s # t
      BY <2>1, <3>2 DEF IInv, TypeOK, SuccessionSound
    <3> QED
      BY <3>1, <3>2
  <2>5. RotationInFlight'
    BY <1>2, <1>3, <2>1 DEF IInv, RotationInFlight, RotationOf
  <2>6. GenerationOfRows' /\ RowsIssued'
    BY <2>1 DEF IInv, GenerationOfRows, Unrevoked, RowsIssued
  <2>7. GenerationOfRequests'
    BY <1>2, <1>3, <2>1 DEF IInv, GenerationOfRequests, GenerationOf, Issuing
  <2> QED
    BY <2>4, <2>5, <2>6, <2>7 DEF IInv
<1> QED
  BY <1>4, <1>5

(* A refresh arrives: an unrevoked row passes its generation on to the     *)
(* request, and a stray row makes the request count as raced.              *)
LEMMA RotateReadSteps ==
  ASSUME IInv, TypeOK', NEW r \in Requests, NEW t \in Tokens, RotateRead(r, t)
  PROVE  IInv'
<1> DEFINE u == IF t \in stored THEN owner[t] ELSE NoUser
           a == Carry("rotate", u, t, NoPassword, 0, auth[t])
<1>1. /\ a.op = "rotate" /\ a.user = u /\ a.tok = t /\ a.ver = auth[t]
  BY DEF Carry
<1>2. /\ t \in stored => u = owner[t] /\ u \in Users
      /\ t \notin stored => u = NoUser
  BY DEF IInv, TypeOK
<1>3. PICK next \in {"denied", "revoke", "owner"} :
        /\ Start(r, a, next)
        /\ next = "owner" => t \in Unrevoked
        /\ IF next = "revoke" THEN Promise(u) ELSE UNCHANGED <<gen, owed>>
        /\ raced' = raced \cup (IF t \in stray THEN {r} ELSE {})
  BY DEF RotateRead, Verdict, Unrevoked
<1>4. UNCHANGED <<stored, owner, revoked, succ, issued, new, auth, fam, stray>>
  BY DEF RotateRead, dbVars
<1> HIDE DEF u, a
<1>5. RowsKept
  <2>1. \A v \in Users : v \notin owed' => v \notin owed /\ gen'[v] = gen[v]
    BY <1>3 DEF IInv, TypeOK, Promise
  <2> QED
    BY <1>3, <1>4, <2>1 DEF RowsKept
<1>6. pc'[r] = next /\ arg'[r] = a
  BY <1>3 DEF IInv, TypeOK, Start
<1>7. next = "owner" => t \in 1 .. issued /\ t \in stored
  BY <1>3 DEF IInv, RowsIssued, Unrevoked
<1>8. RotationOf(r)'
  BY <1>1, <1>2, <1>3, <1>4, <1>6, <1>7 DEF RotationOf
<1>9. GenerationOf(r)'
  <2> SUFFICES ASSUME Issuing(r)', r \notin raced', a.user \notin owed'
               PROVE  a.ver = gen'[a.user]
    BY <1>6 DEF GenerationOf
  <2>1. next = "owner"
    BY <1>6 DEF Issuing
  <2>2. t \in Unrevoked /\ t \notin stray /\ u = owner[t] /\ owner[t] \notin owed
    BY <1>1, <1>2, <1>3, <1>7, <2>1
  <2> QED
    BY <1>1, <1>3, <2>1, <2>2 DEF IInv, GenerationOfRows
<1>10. \A q \in Requests \ {r} : pc'[q] = pc[q] /\ arg'[q] = arg[q]
  BY <1>3 DEF IInv, TypeOK, Start
<1> QED
  BY <1>4, <1>5, <1>8, <1>9, <1>10, OneRequestSteps
LEMMA StepIInv == IInv /\ [Next]_vars => IInv'
<1> SUFFICES ASSUME IInv, [Next]_vars PROVE IInv'
  OBVIOUS
<1>0. TypeOK /\ TypeOK'
  BY StepType DEF IInv
<1>1. ASSUME NEW r \in Requests, NEW u \in Users, NEW p \in Passwords,
             LoginRead(r, u, p)
      PROVE  IInv'
  <2> DEFINE a == Carry("login", u, 0, p, 0, gen[u])
  <2>1. a.op = "login" /\ a.user = u /\ a.ver = gen[u]
    BY DEF Carry
  <2>2. PICK next \in {"denied", "rehash", "issue"} : Start(r, a, next)
    BY <1>1 DEF LoginRead
  <2>3. RowsKept /\ UNCHANGED <<succ, new, gen>>
    BY <1>1 DEF LoginRead, RowsKept, dbVars, aux
  <2> HIDE DEF a
  <2> QED
    BY <1>0, <2>1, <2>2, <2>3, ArrivalSteps
<1>2. ASSUME NEW r \in Requests, RehashPassword(r) PROVE IInv'
  <2>1. RowsKept /\ UNCHANGED <<succ, new>>
    BY <1>2 DEF RehashPassword, RowsKept, aux
  <2> QED
    BY <1>0, <1>2, <2>1, StatementSteps DEF RehashPassword
<1>3. ASSUME NEW r \in Requests, InsertFails(r) PROVE IInv'
  <2>1. RowsKept /\ UNCHANGED <<succ, new>>
    BY <1>3 DEF InsertFails, RowsKept, dbVars, aux
  <2> QED
    BY <1>0, <1>3, <2>1, StatementSteps DEF InsertFails
<1>4. ASSUME NEW r \in Requests, LoginIssue(r) PROVE IInv'
  BY <1>0, <1>3, <1>4, InsertSteps DEF LoginIssue
<1>5. ASSUME NEW r \in Requests, RotateIssue(r) PROVE IInv'
  BY <1>0, <1>3, <1>5, InsertSteps DEF RotateIssue
<1>6. ASSUME NEW r \in Requests, NEW t \in Tokens, RotateRead(r, t) PROVE IInv'
  BY <1>0, <1>6, RotateReadSteps
<1>7. ASSUME NEW r \in Requests, RotateOwner(r) PROVE IInv'
  <2>1. pc[r] = "owner" /\ arg[r].user \in Users
    BY <1>0, <1>7 DEF TypeOK, RotateOwner, Goto, Steps
  <2>2. RowsKept /\ UNCHANGED <<succ, new>>
    BY <1>0, <1>7, <2>1 DEF TypeOK, RotateOwner, Promise, RowsKept, dbVars
  <2>3. PICK next \in {"issue", "revoke"} : Goto(r, "owner", next)
    BY <1>7 DEF RotateOwner
  <2> QED
    BY <1>0, <2>2, <2>3, StatementSteps
<1>8. ASSUME NEW r \in Requests, RotateMark(r) PROVE IInv'
  BY <1>0, <1>8, MarkSteps
<1>9. ASSUME NEW r \in Requests, RevokeStep(r) PROVE IInv'
  <2>1. arg[r].user \in Users
    BY <1>0, <1>9 DEF TypeOK, RevokeStep, Goto, Steps
  <2>2. /\ pc'[r] \in Ended
        /\ \A q \in Requests \ {r} : pc'[q] = pc[q] /\ arg'[q] = arg[q]
    BY <1>0, <1>9 DEF TypeOK, RevokeStep, Goto, Ended
  <2> QED
    BY <1>0, <1>9, <2>1, <2>2, RevocationSteps DEF RevokeStep
<1>10. ASSUME NEW r \in Requests, NEW t \in Tokens, Logout(r, t) PROVE IInv'
  <2> DEFINE a == Carry("logout", NoUser, t, NoPassword, 0, 0)
  <2>1. RowsKept /\ UNCHANGED <<succ, new>>
    BY <1>10 DEF Logout, RowsKept, aux
  <2>2. Start(r, a, "ok") /\ a.op # "rotate"
    BY <1>10 DEF Logout, Carry
  <2> HIDE DEF a
  <2> QED
    BY <1>0, <2>1, <2>2, ArrivalSteps
<1>11. ASSUME NEW r \in Requests, NEW u \in Users, LogoutAll(r, u) PROVE IInv'
  <2>1. /\ pc'[r] \in Ended
        /\ \A q \in Requests \ {r} : pc'[q] = pc[q] /\ arg'[q] = arg[q]
    BY <1>0, <1>11 DEF TypeOK, LogoutAll, Start, Ended
  <2>2. \A v \in Users \ {u} : gen'[v] = gen[v]
    BY <1>0, <1>11 DEF TypeOK, LogoutAll
  <2> QED
    BY <1>0, <1>11, <2>1, <2>2, RevocationSteps DEF LogoutAll
<1>12. ASSUME NEW r \in Requests, NEW a, NEW next \in {"write", "rights", "key", "ok", "denied"},
              a.op # "rotate", Start(r, a, next), UNCHANGED <<dbVars, new, clock, aux>>
       PROVE  IInv'
  <2>1. RowsKept /\ UNCHANGED <<succ, new>>
    BY <1>12 DEF RowsKept, dbVars, aux
  <2> QED
    BY <1>0, <1>12, <2>1, ArrivalSteps
<1>13. ASSUME NEW r \in Requests, NEW u \in Users, NEW p \in Passwords,
              NEW q \in Passwords, ChangeRead(r, u, p, q)
       PROVE  IInv'
  <2> DEFINE a == Carry("change", u, 0, q, 0, 0)
  <2>1. a.op # "rotate"
    BY DEF Carry
  <2>2. PICK next \in {"write", "denied"} : Start(r, a, next)
    BY <1>13 DEF ChangeRead
  <2> HIDE DEF a
  <2> QED
    BY <1>12, <1>13, <2>1, <2>2 DEF ChangeRead
<1>14. ASSUME NEW r \in Requests, NEW k \in Keys, NEW q \in Passwords, ResetRead(r, k, q)
       PROVE  IInv'
  <2>1. PICK u \in Users \cup {NoUser}, next \in {"write", "denied"} :
          Start(r, Carry("reset", u, 0, q, k, 0), next)
    BY <1>0, <1>14 DEF TypeOK, ResetRead
  <2> DEFINE a == Carry("reset", u, 0, q, k, 0)
  <2>2. a.op # "rotate" /\ Start(r, a, next)
    BY <2>1 DEF Carry
  <2> HIDE DEF a
  <2> QED
    BY <1>12, <1>14, <2>2 DEF ResetRead
<1>15. ASSUME NEW r \in Requests, NEW u \in Users, NEW q \in Passwords \cup {NoPassword},
              AdminRead(r, u, q)
       PROVE  IInv'
  <2> DEFINE a == Carry("admin", u, 0, q, 0, 0)
  <2>1. a.op # "rotate"
    BY DEF Carry
  <2>2. PICK next \in {"write", "rights", "denied"} : Start(r, a, next)
    BY <1>15 DEF AdminRead
  <2> HIDE DEF a
  <2> QED
    BY <1>12, <1>15, <2>1, <2>2 DEF AdminRead
<1>16. ASSUME NEW r \in Requests, NEW u \in Users, ForgotRead(r, u) PROVE IInv'
  <2> DEFINE a == Carry("forgot", u, 0, NoPassword, 0, 0)
  <2>1. a.op # "rotate"
    BY DEF Carry
  <2>2. PICK next \in {"key", "ok"} : Start(r, a, next)
    BY <1>16 DEF ForgotRead
  <2> HIDE DEF a
  <2> QED
    BY <1>12, <1>16, <2>1, <2>2 DEF ForgotRead
<1>17. ASSUME NEW r \in Requests, StorePassword(r) PROVE IInv'
  <2>1. pc[r] = "write" /\ arg[r].user \in Users
    BY <1>0, <1>17 DEF TypeOK, StorePassword, Goto, Steps
  <2>2. RowsKept /\ UNCHANGED <<succ, new>>
    BY <1>0, <1>17, <2>1 DEF TypeOK, StorePassword, Promise, RowsKept
  <2>3. PICK next \in {"revoke", "ok", "error"} : Goto(r, "write", next)
    BY <1>17 DEF StorePassword
  <2> QED
    BY <1>0, <2>2, <2>3, StatementSteps
<1>18. ASSUME NEW r \in Requests, ForgotWrite(r) PROVE IInv'
  <2>1. RowsKept /\ UNCHANGED <<succ, new>>
    BY <1>18 DEF ForgotWrite, RowsKept, aux
  <2>2. PICK next \in {"ok", "error"} : Goto(r, "key", next)
    BY <1>18 DEF ForgotWrite
  <2> QED
    BY <1>0, <2>1, <2>2, StatementSteps
<1>19. ASSUME NEW r \in Requests, NEW u \in Users, RemoveUser(r, u) PROVE IInv'
  <2> DEFINE a == Carry("remove", u, 0, NoPassword, 0, 0)
  <2>1. RowsKept /\ UNCHANGED <<succ, new>>
    BY <1>19 DEF RemoveUser, RowsKept, aux
  <2>2. Start(r, a, "ok") /\ a.op # "rotate"
    BY <1>19 DEF RemoveUser, Carry
  <2> HIDE DEF a
  <2> QED
    BY <1>0, <2>1, <2>2, ArrivalSteps
<1>20. CASE PurgeExpired \/ ExpireToken \/ ExpireKey \/ Crash \/ UNCHANGED vars
  <2>1. /\ stored' \subseteq stored
        /\ UNCHANGED <<owner, issued, fam, auth, stray, raced, gen, owed, revoked, succ,
                       new, arg>>
    BY <1>20 DEF PurgeExpired, ExpireToken, ExpireKey, Crash, vars, dbVars, reqVars, aux
  <2>2. \A q \in Requests : pc'[q] = pc[q] \/ pc'[q] = "lost"
    BY <1>0, <1>20 DEF TypeOK, PurgeExpired, ExpireToken, ExpireKey, Crash, vars, reqVars
  <2>3. RowsIssued' /\ SuccessionSound' /\ GenerationOfRows'
    BY <2>1 DEF IInv, RowsIssued, SuccessionSound, GenerationOfRows, Unrevoked
  <2>4. RotationInFlight'
    BY <2>1, <2>2 DEF IInv, RotationInFlight, RotationOf
  <2>5. GenerationOfRequests'
    BY <2>1, <2>2 DEF IInv, GenerationOfRequests, GenerationOf, Issuing
  <2> QED
    BY <1>0, <2>3, <2>4, <2>5 DEF IInv
<1>21. ASSUME NEW r \in Requests, StoreRights(r) PROVE IInv'
  <2>1. pc[r] = "rights" /\ arg[r].user \in Users
    BY <1>0, <1>21 DEF TypeOK, StoreRights, Goto, Steps
  <2>2. RowsKept /\ UNCHANGED <<succ, new>>
    BY <1>0, <1>21, <2>1 DEF TypeOK, StoreRights, Promise, RowsKept, dbVars
  <2>3. PICK next \in {"revoke", "ok", "error"} : Goto(r, "rights", next)
    BY <1>21 DEF StoreRights
  <2> QED
    BY <1>0, <2>2, <2>3, StatementSteps
<1> QED
  BY <1>1, <1>2, <1>4, <1>5, <1>6, <1>7, <1>8, <1>9, <1>10, <1>11, <1>13, <1>14,
     <1>15, <1>16, <1>17, <1>18, <1>19, <1>20, <1>21
  DEF Next, Arrive, Continue, Environment, ChangeWrite, ResetWrite, AdminWrite

THEOREM Inductive == Spec => []IInv
BY InitIInv, StepIInv, PTL DEF Spec

(* Only a login or refresh that was in flight while the sessions of its    *)
(* user were being revoked, or a descendant of it, is usable afterwards.   *)
THEOREM Survival == Spec => []OnlyRacedSessionsSurvive
<1>1. IInv => OnlyRacedSessionsSurvive
  BY DEF IInv, GenerationOfRows, OnlyRacedSessionsSurvive, Live
<1> QED
  BY <1>1, Inductive, PTL

(* replaced_by_jti always leads from a revoked row to a later token of the *)
(* same user and login, whatever runs between the INSERT and the UPDATE.   *)
THEOREM Succession == Spec => []SuccessionSound
<1>1. IInv => SuccessionSound
  BY DEF IInv
<1> QED
  BY <1>1, Inductive, PTL

-----------------------------------------------------------------------------
(* Three more invariants, and what a step may never do *)

(* Keys are generated once, so the key of a request that was let in with   *)
(* it belongs to nobody else, and to nobody once it has been spent.        *)
KeysApart ==
  /\ \A u \in Users : resetOf[u] <= resets
  /\ \A u, v \in Users : resetOf[u] # 0 /\ resetOf[u] = resetOf[v] => u = v

KeyOf(r) ==
  (arg[r].op = "reset" /\ pc[r] \in {"write", "revoke", "ok"}) =>
    /\ arg[r].key \in 1 .. resets
    /\ \A u \in Users :
         resetOf[u] = arg[r].key => u = arg[r].user /\ pc[r] = "write"

KInv ==
  /\ KeysApart
  /\ \A r \in Requests : KeyOf(r) /\ (pc[r] = "key" => arg[r].op = "forgot")

(* A login about to rewrite a hash writes the password it was chosen to    *)
(* be, unless a newer one was chosen since it read the row.                *)
PInv ==
  /\ PasswordIsLastChosen
  /\ \A r \in Requests : pc[r] = "rehash" =>
       /\ arg[r].ver <= gen[arg[r].user]
       /\ (arg[r].user \notin undone /\ arg[r].ver = gen[arg[r].user])
            => arg[r].pw = chosen[arg[r].user]

(* Rotations under way, and the families one token of which was presented  *)
(* while it was being exchanged: nothing is promised about those.          *)
Rotating(r) == arg[r].op = "rotate" /\ pc[r] \in {"owner", "issue", "mark"}
Tangled == {fam[d] : d \in doubled}
Usable(s) == s \in Delivered /\ s \in Unrevoked

TokensNumbered ==
  /\ Sessions0 <= issued
  /\ \A r \in Requests :
       /\ new[r] \in 0 .. issued
       /\ pc[r] \notin Ended \cup {"mark"} => new[r] = 0
  /\ \A t \in 1 .. issued : fam[t] \in 1 .. issued
  /\ doubled \subseteq 1 .. issued

(* In any other family one token is usable, one rotation is under way, and *)
(* while it is no other token than the one presented is usable.            *)
OneUsable ==
  \A s, t \in Delivered :
    (Usable(s) /\ Usable(t) /\ fam[s] = fam[t] /\ fam[s] \notin Tangled) => s = t
OneRotation ==
  \A r, q \in Requests :
    (Rotating(r) /\ Rotating(q) /\ fam[arg[r].tok] = fam[arg[q].tok]
       /\ fam[arg[r].tok] \notin Tangled) => r = q
RotatesTheUsable ==
  \A r \in Requests, s \in Delivered :
    (Rotating(r) /\ Usable(s) /\ fam[s] = fam[arg[r].tok] /\ fam[s] \notin Tangled) => s = arg[r].tok

RInv == TokensNumbered /\ OneUsable /\ OneRotation /\ RotatesTheUsable

-----------------------------------------------------------------------------
(* What an action may do to requests and tables *)

LEMMA Frame ==
  ASSUME TypeOK, NEW r \in Requests, Arrive(r) \/ Continue(r)
  PROVE  \A q \in Requests \ {r} : pc'[q] = pc[q] /\ arg'[q] = arg[q] /\ new'[q] = new[q]
<1>1. /\ pc \in [Requests -> Steps \cup Ended \cup {"idle"}]
      /\ arg \in [Requests -> Args] /\ new \in [Requests -> 0 .. MaxTokens]
  BY DEF TypeOK
<1>2. CASE Arrive(r)
  <2>1. /\ new' = new
        /\ \E a, next : Start(r, a, next)
    BY <1>2 DEF Arrive, LoginRead, AdminRead, ChangeRead, LogoutAll, ForgotRead, RemoveUser,
                RotateRead, Logout, ResetRead
  <2> QED
    BY <1>1, <2>1 DEF Start
<1>3. CASE Continue(r)
  <2>1. /\ \E from, next : Goto(r, from, next)
        /\ new' = new \/ \E n : new' = [new EXCEPT ![r] = n]
    BY <1>3 DEF Continue, RehashPassword, LoginIssue, InsertFails, Insert, RotateOwner,
                RotateIssue, RotateMark, RevokeStep, ChangeWrite, ResetWrite, AdminWrite,
                StorePassword, StoreRights, ForgotWrite
  <2> QED
    BY <1>1, <2>1 DEF Goto
<1> QED
  BY <1>2, <1>3

(* Where an arrival leaves its request, by operation.                      *)
LEMMA ArrivalFacts ==
  ASSUME TypeOK, NEW r \in Requests, Arrive(r)
  PROVE  /\ pc[r] = "idle" /\ pc'[r] # "mark"
         /\ pc'[r] = "rehash" =>
              /\ arg'[r].user \in users /\ arg'[r].ver = gen[arg'[r].user]
              /\ hash[arg'[r].user].pw = arg'[r].pw /\ gen' = gen
         /\ pc'[r] = "key" => arg'[r].op = "forgot"
         /\ pc'[r] = "issue" => arg'[r].op = "login"
         /\ (arg'[r].op = "reset" /\ pc'[r] # "denied") =>
              /\ pc'[r] = "write" /\ arg'[r].key \in 1 .. resets
              /\ arg'[r].user \in users /\ resetOf[arg'[r].user] = arg'[r].key
         /\ pc'[r] = "owner" => \E t \in Tokens : RotateRead(r, t) /\ arg'[r].tok = t
<1> DEFINE Facts ==
      /\ pc[r] = "idle" /\ pc'[r] # "mark"
      /\ pc'[r] = "rehash" =>
           /\ arg'[r].user \in users /\ arg'[r].ver = gen[arg'[r].user]
           /\ hash[arg'[r].user].pw = arg'[r].pw /\ gen' = gen
      /\ pc'[r] = "key" => arg'[r].op = "forgot"
      /\ pc'[r] = "issue" => arg'[r].op = "login"
      /\ (arg'[r].op = "reset" /\ pc'[r] # "denied") =>
           /\ pc'[r] = "write" /\ arg'[r].key \in 1 .. resets
           /\ arg'[r].user \in users /\ resetOf[arg'[r].user] = arg'[r].key
      /\ pc'[r] = "owner" => \E t \in Tokens : RotateRead(r, t) /\ arg'[r].tok = t
<1>0. ASSUME NEW a, NEW next, Start(r, a, next)
      PROVE  pc[r] = "idle" /\ pc'[r] = next /\ arg'[r] = a
  BY <1>0 DEF TypeOK, Start
<1>1. ASSUME NEW u \in Users, NEW p \in Passwords, LoginRead(r, u, p)
      PROVE  Facts
  <2> DEFINE a == Carry("login", u, 0, p, 0, gen[u])
  <2>1. a.op = "login" /\ a.user = u /\ a.pw = p /\ a.ver = gen[u]
    BY DEF Carry
  <2>2. PICK next \in {"denied", "rehash", "issue"} :
          /\ Start(r, a, next) /\ gen' = gen
          /\ next = "rehash" => u \in users /\ hash[u].pw = p
    BY <1>1 DEF LoginRead, Verifies, aux
  <2> HIDE DEF a
  <2>3. pc[r] = "idle" /\ pc'[r] = next /\ arg'[r] = a
    BY <1>0, <2>2
  <2> QED
    BY <2>1, <2>2, <2>3
<1>2. ASSUME NEW a, NEW next \in {"denied", "write", "rights", "ok", "key"}, Start(r, a, next),
             a.op # "reset", next = "key" => a.op = "forgot"
      PROVE  Facts
  <2>1. pc[r] = "idle" /\ pc'[r] = next /\ arg'[r] = a
    BY <1>0, <1>2
  <2> QED
    BY <1>2, <2>1
<1>3. ASSUME NEW u \in Users, NEW p \in Passwords \cup {NoPassword}, AdminRead(r, u, p)
      PROVE  Facts
  <2> DEFINE a == Carry("admin", u, 0, p, 0, 0)
  <2>1. a.op = "admin"
    BY DEF Carry
  <2>2. PICK next \in {"denied", "write", "rights"} : Start(r, a, next)
    BY <1>3 DEF AdminRead
  <2> HIDE DEF a, Facts
  <2> QED
    BY <1>2, <2>1, <2>2
<1>4. ASSUME NEW u \in Users, NEW p \in Passwords, NEW q \in Passwords, ChangeRead(r, u, p, q)
      PROVE  Facts
  <2> DEFINE a == Carry("change", u, 0, q, 0, 0)
  <2>1. a.op = "change"
    BY DEF Carry
  <2>2. PICK next \in {"denied", "write"} : Start(r, a, next)
    BY <1>4 DEF ChangeRead
  <2> HIDE DEF a, Facts
  <2> QED
    BY <1>2, <2>1, <2>2
<1>5. ASSUME NEW u \in Users, LogoutAll(r, u) \/ RemoveUser(r, u)
      PROVE  Facts
  <2>1. /\ Carry("logoutAll", u, 0, NoPassword, 0, 0).op = "logoutAll"
        /\ Carry("remove", u, 0, NoPassword, 0, 0).op = "remove"
    BY DEF Carry
  <2>2. \/ Start(r, Carry("logoutAll", u, 0, NoPassword, 0, 0), "ok")
        \/ Start(r, Carry("remove", u, 0, NoPassword, 0, 0), "ok")
    BY <1>5 DEF LogoutAll, RemoveUser
  <2> HIDE DEF Facts
  <2> QED
    BY <1>2, <2>1, <2>2
<1>6. ASSUME NEW u \in Users, ForgotRead(r, u)
      PROVE  Facts
  <2> DEFINE a == Carry("forgot", u, 0, NoPassword, 0, 0)
  <2>1. a.op = "forgot"
    BY DEF Carry
  <2>2. PICK next \in {"key", "ok"} : Start(r, a, next)
    BY <1>6 DEF ForgotRead
  <2> HIDE DEF a, Facts
  <2> QED
    BY <1>2, <2>1, <2>2
<1>7. ASSUME NEW t \in Tokens, RotateRead(r, t)
      PROVE  Facts
  <2> DEFINE a == Carry("rotate", IF t \in stored THEN owner[t] ELSE NoUser, t,
                        NoPassword, 0, auth[t])
  <2>1. a.op = "rotate" /\ a.tok = t
    BY DEF Carry
  <2>2. Start(r, a, Verdict(t)) /\ Verdict(t) \in {"denied", "revoke", "owner"}
    BY <1>7 DEF RotateRead, Verdict
  <2> HIDE DEF a
  <2>3. pc[r] = "idle" /\ pc'[r] = Verdict(t) /\ arg'[r] = a
    BY <1>0, <2>2
  <2> QED
    BY <1>7, <2>1, <2>2, <2>3
<1>8. ASSUME NEW t \in Tokens, Logout(r, t)
      PROVE  Facts
  <2>1. Carry("logout", NoUser, t, NoPassword, 0, 0).op = "logout"
    BY DEF Carry
  <2>2. Start(r, Carry("logout", NoUser, t, NoPassword, 0, 0), "ok")
    BY <1>8 DEF Logout
  <2> HIDE DEF Facts
  <2> QED
    BY <1>2, <2>1, <2>2
<1>9. ASSUME NEW k \in Keys, NEW q \in Passwords, ResetRead(r, k, q)
      PROVE  Facts
  <2>1. CASE \E u \in users : resetOf[u] = k /\ Start(r, Carry("reset", u, 0, q, k, 0), "write")
    <3>1. PICK u \in users : resetOf[u] = k /\ Start(r, Carry("reset", u, 0, q, k, 0), "write")
      BY <2>1
    <3> DEFINE a == Carry("reset", u, 0, q, k, 0)
    <3>2. a.op = "reset" /\ a.user = u /\ a.key = k
      BY DEF Carry
    <3>3. k \in 1 .. resets
      BY <1>9 DEF ResetRead
    <3> HIDE DEF a
    <3>4. pc[r] = "idle" /\ pc'[r] = "write" /\ arg'[r] = a
      BY <1>0, <3>1 DEF a
    <3> QED
      BY <3>1, <3>2, <3>3, <3>4
  <2>2. CASE Start(r, Carry("reset", NoUser, 0, q, k, 0), "denied")
    <3>1. pc[r] = "idle" /\ pc'[r] = "denied"
      BY <1>0, <2>2
    <3> QED
      BY <3>1
  <2> QED
    BY <1>9, <2>1, <2>2 DEF ResetRead
<1> HIDE DEF Facts
<1>10. Facts
  BY <1>1, <1>3, <1>4, <1>5, <1>6, <1>7, <1>8, <1>9 DEF Arrive
<1> QED
  BY <1>10 DEF Facts

(* No arrival writes a password, a key or a token.                         *)
LEMMA ArrivalTables ==
  ASSUME TypeOK, NEW r \in Requests, Arrive(r)
  PROVE  /\ UNCHANGED <<hash, resetOf, resets, owner, succ, issued, new, clock,
                        auth, fam, stray, chosen, undone>>
         /\ users' \subseteq users /\ stored' \subseteq stored /\ revoked \subseteq revoked'
         /\ doubled \subseteq doubled'
         /\ \A u \in Users : gen'[u] \in {gen[u], gen[u] + 1}
<1>1. ASSUME NEW u \in Users,
             \/ ForgotRead(r, u)
             \/ \E p \in Passwords : LoginRead(r, u, p)
             \/ \E p \in Passwords \cup {NoPassword} : AdminRead(r, u, p)
             \/ \E p, q \in Passwords : ChangeRead(r, u, p, q)
      PROVE  UNCHANGED <<dbVars, new, clock, aux>>
  BY <1>1 DEF LoginRead, AdminRead, ChangeRead, ForgotRead
<1>2. ASSUME NEW u \in Users, LogoutAll(r, u)
      PROVE  /\ UNCHANGED <<users, hash, resetOf, resets, stored, owner, succ, issued, new, clock,
                            auth, fam, stray, chosen, doubled, undone>>
             /\ revoked \subseteq revoked'
             /\ \A v \in Users : gen'[v] \in {gen[v], gen[v] + 1}
  BY <1>2 DEF LogoutAll, RevokeAllForUser, TypeOK
<1>3. ASSUME NEW u \in Users, RemoveUser(r, u)
      PROVE  /\ UNCHANGED <<hash, resetOf, resets, owner, revoked, succ, issued, new, clock, aux>>
             /\ users' \subseteq users /\ stored' \subseteq stored
  BY <1>3 DEF RemoveUser
<1>4. ASSUME NEW t \in Tokens, RotateRead(r, t)
      PROVE  /\ UNCHANGED <<dbVars, new, clock, auth, fam, stray, chosen, undone>>
             /\ doubled \subseteq doubled'
             /\ \A v \in Users : gen'[v] \in {gen[v], gen[v] + 1}
  <2>1. Verdict(t) = "revoke" => t \in stored
    BY DEF Verdict
  <2> QED
    BY <1>4, <2>1 DEF RotateRead, Promise, TypeOK
<1>5. ASSUME NEW t \in Tokens, Logout(r, t)
      PROVE  /\ UNCHANGED <<users, hash, resetOf, resets, stored, owner, succ, issued, new,
                            clock, aux>>
             /\ revoked \subseteq revoked'
  BY <1>5 DEF Logout
<1>6. ASSUME NEW k \in Keys, NEW q \in Passwords, ResetRead(r, k, q)
      PROVE  UNCHANGED <<dbVars, new, clock, aux>>
  BY <1>6 DEF ResetRead
<1> QED
  BY <1>1, <1>2, <1>3, <1>4, <1>5, <1>6 DEF Arrive, dbVars, aux

-----------------------------------------------------------------------------
(* Sessions that are to end *)

(* A step that promises nothing, of a request that has no revocation in    *)
(* hand or ends the sessions of its user.                                  *)
LEMMA InHandKept ==
  ASSUME RevocationInHand, NEW r \in Requests, owed' \subseteq owed,
         \A q \in Requests \ {r} : pc'[q] = pc[q] /\ arg'[q] = arg[q],
         pc[r] \notin {"revoke", "lost"} \/ arg[r].user \notin owed'
  PROVE  RevocationInHand'
BY DEF RevocationInHand

(* A step after which its request ends the sessions it has promised to.    *)
LEMMA InHandPromised ==
  ASSUME RevocationInHand, NEW r \in Requests, NEW u, owed' \subseteq owed \cup {u},
         \A q \in Requests \ {r} : pc'[q] = pc[q] /\ arg'[q] = arg[q],
         pc[r] \notin {"revoke", "lost"},
         pc'[r] = "revoke", arg'[r].user = u, arg'[r].op \in {"rotate", "change", "reset", "admin"}
  PROVE  RevocationInHand'
BY DEF RevocationInHand

LEMMA InHandArrival ==
  ASSUME TypeOK, RevocationInHand, NEW r \in Requests, Arrive(r)
  PROVE  RevocationInHand'
<1>1. \A q \in Requests \ {r} : pc'[q] = pc[q] /\ arg'[q] = arg[q]
  BY Frame
<1>2. pc[r] = "idle"
  BY DEF Arrive
<1>3. CASE owed' \subseteq owed
  BY <1>1, <1>2, <1>3, InHandKept
<1>4. ASSUME NEW t \in Tokens, RotateRead(r, t), Verdict(t) = "revoke"
      PROVE  RevocationInHand'
  <2> DEFINE u == IF t \in stored THEN owner[t] ELSE NoUser
             a == Carry("rotate", u, t, NoPassword, 0, auth[t])
  <2>1. a.op = "rotate" /\ a.user = u
    BY DEF Carry
  <2>2. Start(r, a, "revoke") /\ owed' = owed \cup {u}
    BY <1>4 DEF RotateRead, Promise
  <2> HIDE DEF a, u
  <2>3. pc'[r] = "revoke" /\ arg'[r] = a
    BY <2>2 DEF TypeOK, Start
  <2> QED
    BY <1>1, <1>2, <2>1, <2>2, <2>3, InHandPromised
<1>5. owed' \subseteq owed \/ \E t \in Tokens : RotateRead(r, t) /\ Verdict(t) = "revoke"
  BY DEF Arrive, LoginRead, AdminRead, ChangeRead, LogoutAll, ForgotRead, RemoveUser, RotateRead,
         Logout, ResetRead, aux
<1> QED
  BY <1>3, <1>4, <1>5

LEMMA InHandStatement ==
  ASSUME IInv, RevocationInHand, NEW r \in Requests, Continue(r)
  PROVE  RevocationInHand'
<1>0. TypeOK
  BY DEF IInv
<1>1. \A q \in Requests \ {r} : pc'[q] = pc[q] /\ arg'[q] = arg[q]
  BY <1>0, Frame
<1>2. pc[r] \in Steps /\ arg' = arg
  BY DEF Continue, RehashPassword, LoginIssue, InsertFails, RotateOwner, RotateIssue, RotateMark,
         RevokeStep, ChangeWrite, ResetWrite, AdminWrite, StorePassword, StoreRights, ForgotWrite,
         Goto, Steps
<1>3. CASE RevokeStep(r)
  BY <1>1, <1>3, InHandKept DEF RevokeStep
<1>4. CASE RotateOwner(r)
  <2>1. pc[r] = "owner" /\ arg[r].op = "rotate"
    BY <1>4 DEF RotateOwner, Goto, IInv, RotationInFlight, RotationOf
  <2>2. CASE owed' = owed
    BY <1>1, <2>1, <2>2, InHandKept
  <2>3. CASE Goto(r, "owner", "revoke") /\ Promise(arg[r].user)
    <3>1. pc'[r] = "revoke" /\ owed' = owed \cup {arg[r].user}
      BY <1>0, <2>3 DEF TypeOK, Goto, Promise
    <3> QED
      BY <1>1, <1>2, <2>1, <3>1, InHandPromised
  <2> QED
    BY <1>4, <2>2, <2>3 DEF RotateOwner
<1>5. ASSUME StorePassword(r) \/ StoreRights(r), arg[r].op \in {"change", "reset", "admin"}
      PROVE  RevocationInHand'
  <2>1. pc[r] \in {"write", "rights"}
    BY <1>5 DEF StorePassword, StoreRights, Goto
  <2>2. CASE owed' = owed
    BY <1>1, <2>1, <2>2, InHandKept
  <2>3. CASE (\E from : Goto(r, from, "revoke")) /\ Promise(arg[r].user)
    <3>1. pc'[r] = "revoke" /\ owed' = owed \cup {arg[r].user}
      BY <1>0, <2>3 DEF TypeOK, Goto, Promise
    <3> QED
      BY <1>1, <1>2, <1>5, <2>1, <3>1, InHandPromised
  <2> QED
    BY <1>5, <2>2, <2>3 DEF StorePassword, StoreRights, InvalidatesSessions
<1>6. CASE RehashPassword(r) \/ LoginIssue(r) \/ RotateIssue(r) \/ RotateMark(r) \/ ForgotWrite(r)
  <2>1. owed' = owed /\ pc[r] \notin {"revoke", "lost"}
    BY <1>6 DEF RehashPassword, LoginIssue, RotateIssue, RotateMark, ForgotWrite, Insert,
                InsertFails, Goto, aux
  <2> QED
    BY <1>1, <2>1, InHandKept
<1> QED
  BY <1>3, <1>4, <1>5, <1>6 DEF Continue, ChangeWrite, ResetWrite, AdminWrite

(* A user whose sessions are to end has a request that ends them in its    *)
(* next statement, unless the process stopped just before it.              *)
THEOREM RevocationsInHand == Spec => []RevocationInHand
<1>1. Init => RevocationInHand
  BY DEF Init, RevocationInHand
<1>2. IInv /\ RevocationInHand /\ [Next]_vars => RevocationInHand'
  <2> SUFFICES ASSUME IInv, RevocationInHand, [Next]_vars PROVE RevocationInHand'
    OBVIOUS
  <2>0. TypeOK
    BY DEF IInv
  <2>1. CASE Environment \/ UNCHANGED vars
    <3>1. UNCHANGED <<owed, arg>>
      BY <2>1 DEF Environment, PurgeExpired, ExpireToken, ExpireKey, Crash, vars, reqVars, aux
    <3>2. \A q \in Requests : pc'[q] = pc[q] \/ pc'[q] = "lost"
      BY <2>0, <2>1 DEF TypeOK, Environment, PurgeExpired, ExpireToken, ExpireKey, Crash, vars,
                        reqVars
    <3> QED
      BY <3>1, <3>2 DEF RevocationInHand
  <2> QED
    BY <2>0, <2>1, InHandArrival, InHandStatement DEF Next
<1> QED
  BY <1>1, <1>2, Inductive, PTL DEF Spec

-----------------------------------------------------------------------------
(* Recovery keys *)

(* A step that hands out no key.                                           *)
LEMMA KeysKept ==
  ASSUME TypeOK, KInv, NEW r \in Requests, UNCHANGED <<resetOf, resets>>,
         \A q \in Requests \ {r} : pc'[q] = pc[q] /\ arg'[q] = arg[q],
         KeyOf(r)', pc'[r] = "key" => arg'[r].op = "forgot"
  PROVE  KInv'
BY DEF KInv, KeysApart, KeyOf

LEMMA KeyArrival ==
  ASSUME TypeOK, KInv, NEW r \in Requests, Arrive(r)
  PROVE  KInv'
<1>1. /\ UNCHANGED <<resetOf, resets>>
      /\ \A q \in Requests \ {r} : pc'[q] = pc[q] /\ arg'[q] = arg[q]
  BY ArrivalTables, Frame
<1>2. KeyOf(r)'
  <2> SUFFICES ASSUME arg'[r].op = "reset", pc'[r] \in {"write", "revoke", "ok"}
               PROVE  /\ arg'[r].key \in 1 .. resets
                      /\ \A u \in Users : resetOf[u] = arg'[r].key =>
                           u = arg'[r].user /\ pc'[r] = "write"
    BY <1>1 DEF KeyOf
  <2>1. /\ pc'[r] = "write" /\ arg'[r].key \in 1 .. resets
        /\ arg'[r].user \in Users /\ resetOf[arg'[r].user] = arg'[r].key
    BY ArrivalFacts DEF TypeOK
  <2> QED
    BY <2>1 DEF KInv, KeysApart, TypeOK
<1> QED
  BY <1>1, <1>2, ArrivalFacts, KeysKept

LEMMA KeyStatement ==
  ASSUME IInv, KInv, NEW r \in Requests, Continue(r)
  PROVE  KInv'
<1>0. /\ TypeOK /\ resets \in Nat /\ RotationOf(r)
      /\ \A q \in Requests \ {r} : pc'[q] = pc[q] /\ arg'[q] = arg[q]
  BY Frame, SessionsAssumption DEF IInv, TypeOK, RotationInFlight
<1>1. ASSUME NEW from, NEW next, Goto(r, from, next)
      PROVE  pc[r] = from /\ pc'[r] = next /\ arg' = arg
  BY <1>0, <1>1 DEF TypeOK, Goto
<1>2. ASSUME NEW from, NEW next \in {"issue", "mark", "ok", "denied", "error", "revoke"},
             Goto(r, from, next), UNCHANGED <<resetOf, resets>>,
             next \in {"ok", "revoke"} => \/ from = "revoke"
                                          \/ arg[r].op \in {"rotate", "login"}
      PROVE  KInv'
  <2>1. pc[r] = from /\ pc'[r] = next /\ arg' = arg
    BY <1>1, <1>2
  <2>2. KeyOf(r)'
    <3>1. KeyOf(r)
      BY DEF KInv
    <3> QED
      BY <1>2, <2>1, <3>1 DEF KeyOf
  <2> QED
    BY <1>0, <1>2, <2>1, <2>2, KeysKept
<1>3. CASE RehashPassword(r) \/ LoginIssue(r) \/ RotateIssue(r)
  BY <1>2, <1>3 DEF RehashPassword, LoginIssue, RotateIssue, Insert, InsertFails, dbVars
<1>4. CASE RotateOwner(r) \/ RotateMark(r)
  <2>1. pc[r] \in {"owner", "mark"}
    BY <1>4 DEF RotateOwner, RotateMark, Goto
  <2>2. arg[r].op = "rotate"
    BY <1>0, <2>1 DEF RotationOf
  <2> QED
    BY <1>2, <1>4, <2>2 DEF RotateOwner, RotateMark, dbVars
<1>5. CASE RevokeStep(r)
  BY <1>2, <1>5 DEF RevokeStep
<1>6. CASE StorePassword(r)
  <2> DEFINE u == arg[r].user
  <2>1. CASE Goto(r, "write", "error") /\ UNCHANGED resetOf
    BY <1>2, <1>6, <2>1 DEF StorePassword
  <2>2. CASE /\ u \in users /\ resetOf' = [resetOf EXCEPT ![u] = 0]
             /\ \E next \in {"revoke", "ok"} : Goto(r, "write", next)
    <3>1. /\ pc[r] = "write" /\ pc'[r] \in {"revoke", "ok"} /\ arg' = arg
          /\ resets' = resets
      BY <1>1, <1>6, <2>2 DEF StorePassword
    <3>2. u \in Users /\ resetOf'[u] = 0 /\ \A v \in Users \ {u} : resetOf'[v] = resetOf[v]
      <4> HIDE DEF u
      <4> QED
        BY <1>0, <2>2 DEF TypeOK
    <3>3. KeysApart'
      <4>1. \A v \in Users : resetOf'[v] = 0 \/ resetOf'[v] = resetOf[v]
        BY <3>2
      <4>2. KeysApart
        BY DEF KInv
      <4> HIDE DEF u
      <4> QED
        BY <1>0, <3>1, <4>1, <4>2 DEF KeysApart
    <3>4. ASSUME NEW q \in Requests
          PROVE  KeyOf(q)' /\ (pc'[q] = "key" => arg'[q].op = "forgot")
      <4>1. KeyOf(q) /\ (pc[q] = "key" => arg[q].op = "forgot")
        BY DEF KInv
      <4>2. CASE q = r
        BY <1>0, <3>1, <3>2, <4>1, <4>2 DEF KeyOf
      <4>3. CASE q # r
        BY <1>0, <3>1, <3>2, <4>1, <4>3 DEF KeyOf
      <4> QED
        BY <4>2, <4>3
    <3> QED
      BY <3>3, <3>4 DEF KInv
  <2> QED
    BY <1>6, <2>1, <2>2 DEF StorePassword, ClearKey
<1>7. CASE ForgotWrite(r)
  <2> DEFINE u == arg[r].user
  <2>0. pc[r] = "key" /\ arg[r].op = "forgot"
    BY <1>7 DEF ForgotWrite, Goto, KInv
  <2>1. CASE Goto(r, "key", "error") /\ UNCHANGED <<resets, resetOf>>
    BY <1>2, <2>1
  <2>2. CASE /\ u \in users /\ Goto(r, "key", "ok") /\ resets' = resets + 1
             /\ resetOf' = [resetOf EXCEPT ![u] = resets + 1]
    <3>1. pc'[r] = "ok" /\ arg' = arg
      BY <1>1, <2>2
    <3>2. /\ u \in Users /\ resetOf'[u] = resets + 1
          /\ \A v \in Users \ {u} : resetOf'[v] = resetOf[v]
      <4> HIDE DEF u
      <4> QED
        BY <1>0, <2>2 DEF TypeOK
    <3>3. \A v \in Users : resetOf[v] \in 0 .. resets
      BY <1>0, SessionsAssumption DEF TypeOK, KInv, KeysApart
    <3>4. KeysApart'
      BY <1>0, <2>2, <3>2, <3>3 DEF KInv, KeysApart
    <3>5. ASSUME NEW q \in Requests
          PROVE  KeyOf(q)' /\ (pc'[q] = "key" => arg'[q].op = "forgot")
      <4>1. KeyOf(q) /\ (pc[q] = "key" => arg[q].op = "forgot")
        BY DEF KInv
      <4>2. CASE q = r
        BY <2>0, <3>1, <4>2 DEF KeyOf
      <4>3. CASE q # r
        BY <1>0, <2>2, <3>1, <3>2, <4>1, <4>3 DEF KeyOf
      <4> QED
        BY <4>2, <4>3
    <3> QED
      BY <3>4, <3>5 DEF KInv
  <2> QED
    BY <1>7, <2>1, <2>2 DEF ForgotWrite
<1>8. ASSUME StoreRights(r), arg[r].op = "admin"
      PROVE  KInv'
  <2>1. pc'[r] \in {"ok", "revoke", "error"} /\ arg' = arg /\ UNCHANGED <<resetOf, resets>>
    BY <1>0, <1>8 DEF TypeOK, StoreRights, Goto, dbVars
  <2>2. KeyOf(r)'
    BY <1>8, <2>1 DEF KeyOf
  <2> QED
    BY <1>0, <2>1, <2>2, KeysKept
<1> QED
  BY <1>3, <1>4, <1>5, <1>6, <1>7, <1>8 DEF Continue, ChangeWrite, ResetWrite, AdminWrite

(* Once a reset has replaced the password with a key, the key is nobody's: *)
(* no request that reads afterwards is let in with it.                     *)
THEOREM KeySpentOnce == Spec => []SpentKeyIsDead
<1>1. Init => KInv
  BY DEF Init, KInv, KeysApart, KeyOf
<1>2. IInv /\ KInv /\ [Next]_vars => KInv'
  <2> SUFFICES ASSUME IInv, KInv, [Next]_vars PROVE KInv'
    OBVIOUS
  <2>1. TypeOK
    BY DEF IInv
  <2>2. CASE Environment \/ UNCHANGED vars
    <3>1. UNCHANGED <<resetOf, resets, arg>>
      BY <2>2 DEF Environment, PurgeExpired, ExpireToken, ExpireKey, Crash, vars, dbVars, reqVars
    <3>2. \A q \in Requests : pc'[q] = pc[q] \/ pc'[q] = "lost"
      BY <2>1, <2>2 DEF TypeOK, Environment, PurgeExpired, ExpireToken, ExpireKey, Crash, vars,
                        reqVars
    <3> QED
      BY <3>1, <3>2 DEF KInv, KeysApart, KeyOf
  <2> QED
    BY <2>1, <2>2, KeyArrival, KeyStatement DEF Next
<1>3. TypeOK /\ KInv => SpentKeyIsDead
  BY DEF TypeOK, KInv, KeyOf, SpentKeyIsDead
<1>4. Spec => []KInv
  BY <1>1, <1>2, Inductive, PTL DEF Spec
<1> QED
  BY <1>3, <1>4, TypeCorrect, PTL

-----------------------------------------------------------------------------
(* The password last chosen *)

(* A step that writes no password and puts no login before its rewrite.    *)
LEMMA PasswordsKept ==
  ASSUME TypeOK, PInv, UNCHANGED <<hash, chosen, undone>>, users' \subseteq users,
         \A u \in Users : gen'[u] \in {gen[u], gen[u] + 1},
         NEW r \in Requests,
         \A q \in Requests \ {r} : pc'[q] = "rehash" => pc[q] = "rehash" /\ arg'[q] = arg[q],
         pc'[r] = "rehash" =>
           /\ arg'[r].user \in users /\ arg'[r].ver = gen[arg'[r].user]
           /\ hash[arg'[r].user].pw = arg'[r].pw /\ gen' = gen
  PROVE  PInv'
<1>1. PasswordIsLastChosen'
  BY DEF PInv, PasswordIsLastChosen
<1>2. ASSUME NEW q \in Requests, pc'[q] = "rehash"
      PROVE  /\ arg'[q].ver <= gen'[arg'[q].user]
             /\ (arg'[q].user \notin undone' /\ arg'[q].ver = gen'[arg'[q].user])
                  => arg'[q].pw = chosen'[arg'[q].user]
  <2>1. CASE q = r
    <3>1. arg'[r].user \in users /\ arg'[r].user \in Users /\ gen' = gen
      BY <1>2, <2>1 DEF TypeOK
    <3>2. gen[arg'[r].user] \in Nat
      BY <3>1 DEF TypeOK
    <3> QED
      BY <1>2, <2>1, <3>1, <3>2 DEF PInv, PasswordIsLastChosen
  <2>2. CASE q # r
    <3>1. pc[q] = "rehash" /\ arg'[q] = arg[q] /\ arg[q].user \in Users /\ arg[q].ver \in Nat
      BY <1>2, <2>2 DEF TypeOK, Steps, Args
    <3>2. gen[arg[q].user] \in Nat /\ gen'[arg[q].user] \in {gen[arg[q].user], gen[arg[q].user] + 1}
      BY <3>1 DEF TypeOK
    <3> QED
      BY <3>1, <3>2 DEF PInv
  <2> QED
    BY <2>1, <2>2
<1> QED
  BY <1>1, <1>2 DEF PInv

(* The rewrite of a legacy hash, with no condition on the row.             *)
LEMMA RehashKeepsChosen ==
  ASSUME TypeOK, PInv, NEW r \in Requests, RehashPassword(r)
  PROVE  PInv'
<1>1. /\ pc[r] = "rehash" /\ pc'[r] = "issue" /\ arg' = arg
      /\ \A q \in Requests \ {r} : pc'[q] = pc[q]
      /\ UNCHANGED <<users, gen, chosen>>
  BY DEF TypeOK, RehashPassword, Goto
<1>2. arg[r].user \in Users
  BY <1>1 DEF TypeOK, Steps
<1>3. /\ undone \subseteq undone'
      /\ gen[arg[r].user] # arg[r].ver => arg[r].user \in undone'
  BY <1>2 DEF RehashPassword
<1>4. PasswordIsLastChosen'
  <2> SUFFICES ASSUME NEW u \in users \ undone' PROVE hash'[u].pw = chosen[u]
    BY <1>1 DEF PasswordIsLastChosen
  <2>1. u \in Users /\ u \notin undone /\ hash[u].pw = chosen[u]
    BY <1>3 DEF TypeOK, PInv, PasswordIsLastChosen
  <2>2. CASE u = arg[r].user
    <3>1. hash'[u].pw = arg[r].pw
      BY <2>1, <2>2 DEF TypeOK, RehashPassword
    <3> QED
      BY <1>1, <1>3, <2>1, <2>2, <3>1 DEF PInv
  <2>3. CASE u # arg[r].user
    BY <2>1, <2>3 DEF TypeOK, RehashPassword
  <2> QED
    BY <2>2, <2>3
<1> QED
  BY <1>1, <1>3, <1>4 DEF PInv

(* A new password: whoever is about to rewrite the hash is now late.       *)
LEMMA StoreKeepsChosen ==
  ASSUME TypeOK, PInv, NEW r \in Requests, StorePassword(r)
  PROVE  PInv'
<1>1. /\ pc[r] = "write" /\ pc'[r] # "rehash" /\ arg' = arg
      /\ \A q \in Requests \ {r} : pc'[q] = pc[q]
      /\ UNCHANGED <<users, undone>>
  BY DEF TypeOK, StorePassword, Goto
<1>2. CASE UNCHANGED <<hash, chosen, gen>>
  BY <1>1, <1>2 DEF PInv, PasswordIsLastChosen
<1>3. CASE /\ arg[r].user \in users
           /\ hash' = [hash EXCEPT ![arg[r].user] = [pw |-> arg[r].pw, legacy |-> FALSE]]
           /\ chosen' = [chosen EXCEPT ![arg[r].user] = arg[r].pw]
           /\ Promise(arg[r].user)
  <2> DEFINE u == arg[r].user
  <2>1. u \in Users /\ hash'[u].pw = arg[r].pw /\ chosen'[u] = arg[r].pw
        /\ gen'[u] = gen[u] + 1
    BY <1>3 DEF TypeOK, Promise
  <2>2. \A v \in Users \ {u} : hash'[v] = hash[v] /\ chosen'[v] = chosen[v] /\ gen'[v] = gen[v]
    BY <1>3 DEF TypeOK, Promise
  <2>3. PasswordIsLastChosen'
    <3> SUFFICES ASSUME NEW v \in users \ undone PROVE hash'[v].pw = chosen'[v]
      BY <1>1 DEF PasswordIsLastChosen
    <3>1. v \in Users /\ hash[v].pw = chosen[v]
      BY DEF TypeOK, PInv, PasswordIsLastChosen
    <3> QED
      BY <2>1, <2>2, <3>1
  <2>4. ASSUME NEW q \in Requests, pc'[q] = "rehash"
        PROVE  /\ arg[q].ver <= gen'[arg[q].user]
               /\ (arg[q].user \notin undone /\ arg[q].ver = gen'[arg[q].user])
                    => arg[q].pw = chosen'[arg[q].user]
    <3>1. pc[q] = "rehash" /\ arg[q].user \in Users /\ arg[q].ver \in Nat
      BY <1>1, <2>4 DEF TypeOK, Steps, Args
    <3>2. gen[arg[q].user] \in Nat
      BY <3>1 DEF TypeOK
    <3>3. /\ arg[q].ver <= gen[arg[q].user]
          /\ (arg[q].user \notin undone /\ arg[q].ver = gen[arg[q].user])
               => arg[q].pw = chosen[arg[q].user]
      BY <3>1 DEF PInv
    <3>4. CASE arg[q].user = u
      BY <2>1, <3>1, <3>2, <3>3, <3>4
    <3>5. CASE arg[q].user # u
      BY <2>2, <3>1, <3>3, <3>5
    <3> QED
      BY <3>4, <3>5
  <2> QED
    BY <1>1, <2>3, <2>4 DEF PInv
<1> QED
  BY <1>2, <1>3 DEF StorePassword

(* However many logins rewrite legacy hashes in the background, a stored   *)
(* password is the last one chosen, unless one of them read the row before *)
(* that password was chosen and writes it afterwards.                      *)
THEOREM LastChosenStored == Spec => []PasswordIsLastChosen
<1>1. Init => PInv
  BY DEF Init, PInv, PasswordIsLastChosen
<1>2. IInv /\ PInv /\ [Next]_vars => PInv'
  <2> SUFFICES ASSUME IInv, PInv, [Next]_vars PROVE PInv'
    OBVIOUS
  <2>0. TypeOK
    BY DEF IInv
  <2>1. ASSUME NEW r \in Requests, Arrive(r)
        PROVE  PInv'
    <3>1. /\ UNCHANGED <<hash, chosen, undone>> /\ users' \subseteq users
          /\ \A u \in Users : gen'[u] \in {gen[u], gen[u] + 1}
      BY <2>0, <2>1, ArrivalTables
    <3> QED
      BY <2>0, <2>1, <3>1, ArrivalFacts, Frame, PasswordsKept
  <2>2. ASSUME NEW r \in Requests, Continue(r), ~RehashPassword(r),
               ~(ChangeWrite(r) \/ ResetWrite(r) \/ AdminWrite(r))
        PROVE  PInv'
    <3>1. CASE RotateOwner(r)
      <4>1. \A u \in Users : gen[u] \in Nat /\ gen'[u] \in {gen[u], gen[u] + 1}
        BY <2>0, <3>1 DEF TypeOK, RotateOwner, Promise
      <4>2. UNCHANGED <<users, hash, chosen, undone>> /\ pc'[r] \in {"issue", "revoke"}
        BY <2>0, <3>1 DEF TypeOK, RotateOwner, Goto, dbVars
      <4> QED
        BY <2>0, <2>2, <4>1, <4>2, Frame, PasswordsKept
    <3>2. CASE ~RotateOwner(r)
      <4>1. UNCHANGED <<users, hash, chosen, undone, gen>>
        BY <2>2, <3>2 DEF Continue, LoginIssue, InsertFails, Insert, RotateIssue, RotateMark,
                          RevokeStep, ForgotWrite, dbVars, aux
      <4>2. pc'[r] # "rehash"
        BY <2>0, <2>2, <3>2 DEF TypeOK, Continue, LoginIssue, InsertFails, RotateIssue,
                                RotateMark, RevokeStep, ForgotWrite, Goto
      <4> QED
        BY <2>0, <2>2, <4>1, <4>2, Frame, PasswordsKept
    <3> QED
      BY <3>1, <3>2
  <2>4. ASSUME NEW r \in Requests, StoreRights(r)
        PROVE  PInv'
    <3>1. \A u \in Users : gen[u] \in Nat /\ gen'[u] \in {gen[u], gen[u] + 1}
      BY <2>0, <2>4 DEF TypeOK, StoreRights, Promise
    <3>2. UNCHANGED <<users, hash, chosen, undone>> /\ pc'[r] # "rehash"
      BY <2>0, <2>4 DEF TypeOK, StoreRights, Goto, dbVars
    <3>3. \A q \in Requests \ {r} : pc'[q] = pc[q] /\ arg'[q] = arg[q]
      BY <2>0, <2>4 DEF TypeOK, StoreRights, Goto
    <3> QED
      BY <2>0, <3>1, <3>2, <3>3, PasswordsKept
  <2>3. CASE Environment \/ UNCHANGED vars
    <3>1. UNCHANGED <<users, hash, chosen, undone, gen, arg>>
      BY <2>3 DEF Environment, PurgeExpired, ExpireToken, ExpireKey, Crash, vars, dbVars,
                  reqVars, aux
    <3>2. \A q \in Requests : pc'[q] = pc[q] \/ pc'[q] = "lost"
      BY <2>0, <2>3 DEF TypeOK, Environment, PurgeExpired, ExpireToken, ExpireKey, Crash, vars,
                        reqVars
    <3> QED
      BY <3>1, <3>2 DEF PInv, PasswordIsLastChosen
  <2> QED
    BY <2>0, <2>1, <2>2, <2>3, <2>4, RehashKeepsChosen, StoreKeepsChosen
    DEF Next, ChangeWrite, ResetWrite, AdminWrite
<1>3. PInv => PasswordIsLastChosen
  BY DEF PInv
<1>4. Spec => []PInv
  BY <1>1, <1>2, Inductive, PTL DEF Spec
<1> QED
  BY <1>3, <1>4, PTL

-----------------------------------------------------------------------------
(* One usable token per login *)

(* What the numbering says of the tokens a formula of RInv speaks about.   *)
LEMMA Numbers ==
  ASSUME IInv, RInv
  PROVE  /\ issued \in Nat /\ Delivered \subseteq 0 .. issued
         /\ Unrevoked \subseteq 1 .. issued
         /\ \A s \in 1 .. issued : s \in Tokens /\ fam[s] \in 1 .. issued
         /\ \A r \in Requests : Rotating(r) => arg[r].tok \in 1 .. issued
<1>1. issued \in Nat /\ 1 .. issued \subseteq Tokens /\ Sessions0 \in Nat
  BY SessionsAssumption DEF IInv, TypeOK, Tokens
<1>2. Delivered \subseteq 0 .. issued
  BY <1>1 DEF RInv, TokensNumbered, Delivered
<1>3. \A r \in Requests : Rotating(r) => arg[r].tok \in 1 .. issued
  BY DEF IInv, RotationInFlight, RotationOf, Rotating
<1> QED
  BY <1>1, <1>2, <1>3 DEF IInv, RowsIssued, Unrevoked, RInv, TokensNumbered

(* A step that issues no token, hands none over and starts no rotation.    *)
LEMMA QuietSteps ==
  ASSUME IInv, RInv, UNCHANGED <<issued, fam, new>>,
         doubled \subseteq doubled', doubled' \subseteq 1 .. issued,
         Unrevoked' \subseteq Unrevoked,
         \A q \in Requests :
           /\ pc'[q] = "ok" => pc[q] = "ok" \/ new[q] = 0
           /\ pc'[q] \notin Ended \cup {"mark"} => new[q] = 0
           /\ Rotating(q)' => Rotating(q) /\ arg'[q].tok = arg[q].tok
  PROVE  RInv'
<1>1. TokensNumbered'
  BY DEF RInv, TokensNumbered
<1>2. ASSUME NEW s, Usable(s)' PROVE Usable(s) /\ s \in Delivered
  <2>1. s \in Unrevoked /\ s # 0
    BY <1>2, Numbers DEF Usable
  <2>2. s \in Delivered \cup {0}
    BY <1>2 DEF Usable, Delivered
  <2> QED
    BY <2>1, <2>2 DEF Usable
<1>3. ASSUME NEW f, f \notin Tangled' PROVE f \notin Tangled
  BY <1>3 DEF Tangled
<1>4. OneUsable'
  <2> SUFFICES ASSUME NEW s, NEW t, Usable(s)', Usable(t)', fam[s] = fam[t], fam[s] \notin Tangled'
               PROVE  s = t
    BY DEF OneUsable
  <2> QED
    BY <1>2, <1>3 DEF RInv, OneUsable
<1>5. OneRotation'
  <2> SUFFICES ASSUME NEW r \in Requests, NEW q \in Requests, Rotating(r)', Rotating(q)',
                      fam[arg'[r].tok] = fam[arg'[q].tok], fam[arg'[r].tok] \notin Tangled'
               PROVE  r = q
    BY DEF OneRotation
  <2>1. fam[arg'[r].tok] \notin Tangled
    BY <1>3
  <2> QED
    BY <2>1 DEF RInv, OneRotation
<1>6. RotatesTheUsable'
  <2> SUFFICES ASSUME NEW r \in Requests, NEW s, Rotating(r)', Usable(s)',
                      fam[s] = fam[arg'[r].tok], fam[s] \notin Tangled'
               PROVE  s = arg'[r].tok
    BY DEF RotatesTheUsable
  <2> QED
    BY <1>2, <1>3 DEF RInv, RotatesTheUsable
<1> QED
  BY <1>1, <1>4, <1>5, <1>6 DEF RInv

(* The read of a rotation that is let in: the token is usable, so any      *)
(* other rotation of its family was presented the very same token.         *)
LEMMA RotationStarts ==
  ASSUME IInv, RInv, NEW r \in Requests, NEW t \in Tokens, RotateRead(r, t),
         pc'[r] = "owner", arg'[r].tok = t
  PROVE  RInv'
<1>1. /\ UNCHANGED <<issued, fam, new, stored, revoked>> /\ t \in Delivered
      /\ doubled' = doubled \cup (IF Exchanging(t) THEN {t} ELSE {})
  BY DEF RotateRead, dbVars
<1>2. pc[r] = "idle" /\ \A q \in Requests \ {r} : pc'[q] = pc[q] /\ arg'[q] = arg[q]
  BY DEF IInv, TypeOK, RotateRead, Start
<1>3. t \in Unrevoked
  <2>1. pc'[r] = Verdict(t)
    BY DEF IInv, TypeOK, RotateRead, Start
  <2> QED
    BY <2>1 DEF Verdict, Unrevoked
<1>4. t \in 1 .. issued
  BY <1>3, Numbers
<1>5. TokensNumbered'
  BY <1>1, <1>2, <1>4 DEF RInv, TokensNumbered, Ended
<1>6. Delivered' = Delivered /\ Unrevoked' = Unrevoked
  BY <1>1, <1>2 DEF Delivered, Unrevoked
<1>7. ASSUME NEW f, f \notin Tangled' PROVE f \notin Tangled
  BY <1>1, <1>7 DEF Tangled
<1>8. \A q \in Requests \ {r} : Rotating(q)' <=> Rotating(q)
  BY <1>2 DEF Rotating
<1>9. OneUsable'
  <2> SUFFICES ASSUME NEW s \in Delivered, NEW w \in Delivered, Usable(s), Usable(w),
                      fam[s] = fam[w], fam[s] \notin Tangled'
               PROVE  s = w
    BY <1>1, <1>6 DEF OneUsable, Usable
  <2> QED
    BY <1>7 DEF RInv, OneUsable
<1>10. ASSUME NEW q \in Requests \ {r}, Rotating(q), fam[arg[q].tok] = fam[t], fam[t] \notin Tangled'
       PROVE  FALSE
  <2>1. arg[q].tok = t
    BY <1>1, <1>3, <1>7, <1>10 DEF RInv, RotatesTheUsable, Usable
  <2>2. Exchanging(t)
    BY <1>10, <2>1 DEF Exchanging, Rotating, Steps
  <2> QED
    BY <1>1, <1>10, <2>2 DEF Tangled
<1>11. OneRotation'
  <2> SUFFICES ASSUME NEW p \in Requests, NEW q \in Requests, Rotating(p)', Rotating(q)',
                      fam[arg'[p].tok] = fam[arg'[q].tok], fam[arg'[p].tok] \notin Tangled', p # q
               PROVE  FALSE
    BY <1>1 DEF OneRotation
  <2>1. CASE p = r
    BY <1>2, <1>8, <1>10, <2>1
  <2>2. CASE q = r
    BY <1>2, <1>8, <1>10, <2>2
  <2>3. CASE p # r /\ q # r
    <3>1. fam[arg[p].tok] \notin Tangled
      BY <1>2, <1>7, <2>3
    <3> QED
      BY <1>2, <1>8, <2>3, <3>1 DEF RInv, OneRotation
  <2> QED
    BY <2>1, <2>2, <2>3
<1>12. RotatesTheUsable'
  <2> SUFFICES ASSUME NEW q \in Requests, NEW s \in Delivered, Rotating(q)', Usable(s),
                      fam[s] = fam[arg'[q].tok], fam[s] \notin Tangled'
               PROVE  s = arg'[q].tok
    BY <1>1, <1>6 DEF RotatesTheUsable, Usable
  <2>1. CASE q = r
    BY <1>1, <1>3, <1>7, <2>1 DEF RInv, OneUsable, Usable
  <2>2. CASE q # r
    BY <1>2, <1>7, <1>8, <2>2 DEF RInv, RotatesTheUsable
  <2> QED
    BY <2>1, <2>2
<1> QED
  BY <1>5, <1>9, <1>11, <1>12 DEF RInv

(* The INSERT of a login founds a family, that of a rotation adds to one a *)
(* token its client does not have yet.                                     *)
LEMMA Insertions ==
  ASSUME IInv, RInv, NEW r \in Requests, NEW next,
         \/ next = "ok" /\ Insert(r, 0)
         \/ arg[r].op = "rotate" /\ next = "mark" /\ Insert(r, arg[r].tok),
         Goto(r, "issue", next)
  PROVE  RInv'
<1> DEFINE n == issued + 1
<1>1. /\ issued' = n /\ stored' = stored \cup {n} /\ UNCHANGED <<revoked, doubled>>
      /\ \A s \in Tokens \ {n} : fam'[s] = fam[s]
  BY DEF IInv, TypeOK, Insert
<1>2. /\ new'[r] = n /\ \A q \in Requests \ {r} : new'[q] = new[q]
  BY DEF IInv, TypeOK, Insert
<1>3. /\ pc[r] = "issue" /\ pc'[r] = next /\ arg' = arg
      /\ \A q \in Requests \ {r} : pc'[q] = pc[q]
  BY DEF IInv, TypeOK, Goto
<1>4. /\ issued \in Nat /\ n \in Tokens /\ n \notin 1 .. issued /\ n # 0
      /\ \A s \in 1 .. issued : s \in Tokens \ {n}
  BY SessionsAssumption DEF IInv, TypeOK, Insert, Tokens
<1>5. /\ next = "ok" => fam'[n] = n
      /\ next = "mark" => Rotating(r) /\ fam'[n] = fam[arg[r].tok]
  <2>1. Insert(r, 0) => fam'[n] = n
    BY <1>4 DEF IInv, TypeOK, Insert
  <2>2. Rotating(r) /\ Insert(r, arg[r].tok) => fam'[n] = fam[arg[r].tok]
    <3>1. Rotating(r) => arg[r].tok # 0
      BY <1>4, Numbers
    <3> QED
      BY <1>4, <3>1 DEF IInv, TypeOK, Insert
  <2> QED
    BY <1>3, <2>1, <2>2 DEF Rotating
<1> HIDE DEF n
<1>6. fam'[n] \in 1 .. n
  BY <1>3, <1>4, <1>5, Numbers DEF n
<1>7. TokensNumbered'
  <2>1. \A q \in Requests : /\ new'[q] \in 0 .. n
                            /\ pc'[q] \notin Ended \cup {"mark"} => new'[q] = 0
    BY <1>2, <1>3, <1>4 DEF RInv, TokensNumbered, Ended, n
  <2>2. \A s \in 1 .. n : fam'[s] \in 1 .. n
    <3> SUFFICES ASSUME NEW s \in 1 .. n, s # n PROVE fam'[s] \in 1 .. n
      BY <1>6
    <3>1. s \in 1 .. issued
      BY <1>4 DEF n
    <3>2. fam'[s] = fam[s] /\ fam[s] \in 1 .. issued
      BY <1>1, <1>4, <3>1, Numbers
    <3> QED
      BY <1>4, <3>2 DEF n
  <2>3. Sessions0 <= n /\ doubled \subseteq 1 .. n
    BY <1>4, SessionsAssumption DEF RInv, TokensNumbered, n
  <2> QED
    BY <1>1, <2>1, <2>2, <2>3 DEF TokensNumbered
<1>8. ASSUME NEW s, Usable(s)'
      PROVE  \/ next = "ok" /\ s = n
             \/ Usable(s) /\ s \in Delivered /\ s \in 1 .. issued /\ fam'[s] = fam[s]
  <2>1. s \in Delivered' /\ s \in Unrevoked \cup {n}
    BY <1>1, <1>8 DEF Usable, Unrevoked
  <2>2. s \in Delivered \/ (next = "ok" /\ s = n)
    BY <1>2, <1>3, <2>1 DEF Delivered
  <2>3. s \in Delivered => s # n
    BY <1>4, Numbers DEF n
  <2>4. s \in Unrevoked => s \in 1 .. issued /\ fam'[s] = fam[s]
    BY <1>1, <1>4, Numbers
  <2> QED
    BY <2>1, <2>2, <2>3, <2>4 DEF Usable
<1>9. ASSUME NEW f \in 1 .. issued, f \notin Tangled' PROVE f \notin Tangled
  <2>1. \A d \in doubled : fam'[d] = fam[d]
    BY <1>1, <1>4 DEF RInv, TokensNumbered
  <2> QED
    BY <1>1, <1>9, <2>1 DEF Tangled
<1>10. ASSUME NEW q \in Requests, Rotating(q)'
       PROVE  /\ Rotating(q) /\ arg[q].tok \in 1 .. issued
              /\ fam'[arg[q].tok] = fam[arg[q].tok] /\ fam[arg[q].tok] \in 1 .. issued
  <2>1. Rotating(q)
    BY <1>3, <1>5, <1>10 DEF Rotating
  <2> QED
    BY <1>1, <1>4, <2>1, Numbers
<1>11. OneUsable'
  <2> SUFFICES ASSUME NEW s, NEW t, Usable(s)', Usable(t)', fam'[s] = fam'[t], fam'[s] \notin Tangled'
               PROVE  s = t
    BY DEF OneUsable
  <2>1. CASE s \in 1 .. issued /\ t \in 1 .. issued
    <3>1. /\ Usable(s) /\ Usable(t) /\ s \in Delivered /\ t \in Delivered
          /\ fam[s] = fam[t] /\ fam[s] \in 1 .. issued /\ fam'[s] = fam[s]
      BY <1>4, <1>8, <2>1, Numbers
    <3> QED
      BY <1>9, <3>1 DEF RInv, OneUsable
  <2>2. ASSUME NEW v, v \in 1 .. issued, fam'[v] = n, Usable(v)'
        PROVE  FALSE
    BY <1>4, <1>8, <2>2, Numbers
  <2> QED
    BY <1>5, <1>8, <2>1, <2>2
<1>12. OneRotation'
  <2> SUFFICES ASSUME NEW p \in Requests, NEW q \in Requests, Rotating(p)', Rotating(q)',
                      fam'[arg[p].tok] = fam'[arg[q].tok], fam'[arg[p].tok] \notin Tangled'
               PROVE  p = q
    BY <1>3 DEF OneRotation
  <2> QED
    BY <1>9, <1>10 DEF RInv, OneRotation
<1>13. RotatesTheUsable'
  <2> SUFFICES ASSUME NEW q \in Requests, NEW s, Rotating(q)', Usable(s)',
                      fam'[s] = fam'[arg[q].tok], fam'[s] \notin Tangled'
               PROVE  s = arg[q].tok
    BY <1>3 DEF RotatesTheUsable
  <2>1. fam'[s] \in 1 .. issued /\ s # n
    BY <1>4, <1>5, <1>8, <1>10
  <2>2. Usable(s) /\ s \in Delivered /\ fam'[s] = fam[s]
    BY <1>8, <2>1
  <2> QED
    BY <1>9, <1>10, <2>1, <2>2 DEF RInv, RotatesTheUsable
<1> QED
  BY <1>7, <1>11, <1>12, <1>13 DEF RInv

(* The mark of a rotation takes the presented token out of use in the same *)
(* statement after which its successor is handed over.                     *)
LEMMA Exchange ==
  ASSUME IInv, RInv, NEW r \in Requests, RotateMark(r), arg[r].tok \in stored
  PROVE  RInv'
<1> DEFINE t == arg[r].tok
           n == new[r]
<1>1. /\ pc[r] = "mark" /\ pc'[r] = "ok" /\ arg' = arg /\ revoked' = revoked \cup {t}
      /\ UNCHANGED <<issued, fam, new, stored, doubled>>
      /\ \A q \in Requests \ {r} : pc'[q] = pc[q]
  BY DEF IInv, TypeOK, RotateMark, Goto, Spend, aux
<1>2. Rotating(r) /\ fam[n] = fam[t]
  BY <1>1 DEF IInv, RotationInFlight, RotationOf, Rotating
<1>3. TokensNumbered'
  BY <1>1 DEF RInv, TokensNumbered, Ended
<1>4. \A q \in Requests : Rotating(q)' => Rotating(q) /\ q # r
  BY <1>1 DEF Rotating
<1>5. \A f : f \notin Tangled' <=> f \notin Tangled
  BY <1>1 DEF Tangled
<1>6. ASSUME NEW s, Usable(s)'
      PROVE  s = n \/ (Usable(s) /\ s \in Delivered /\ s # t)
  <2>1. s \in Delivered' /\ s \in Unrevoked /\ s # t
    BY <1>1, <1>6 DEF Usable, Unrevoked
  <2>2. s \in Delivered \cup {n}
    BY <1>1, <2>1 DEF Delivered
  <2> QED
    BY <2>1, <2>2 DEF Usable
<1> HIDE DEF n
<1>7. ASSUME NEW s, Usable(s)', s # n, fam[s] = fam[n], fam[s] \notin Tangled
      PROVE  FALSE
  BY <1>2, <1>6, <1>7 DEF RInv, RotatesTheUsable
<1>8. OneUsable'
  <2> SUFFICES ASSUME NEW s, NEW w, Usable(s)', Usable(w)', fam[s] = fam[w], fam[s] \notin Tangled
               PROVE  s = w
    BY <1>1, <1>5 DEF OneUsable
  <2>1. CASE s # n /\ w # n
    BY <1>6, <2>1 DEF RInv, OneUsable
  <2>2. CASE s = n \/ w = n
    BY <1>7, <2>2
  <2> QED
    BY <2>1, <2>2
<1>9. OneRotation'
  BY <1>1, <1>4, <1>5 DEF RInv, OneRotation
<1>10. RotatesTheUsable'
  <2> SUFFICES ASSUME NEW q \in Requests, NEW s, Rotating(q)', Usable(s)',
                      fam[s] = fam[arg[q].tok], fam[s] \notin Tangled
               PROVE  s = arg[q].tok
    BY <1>1, <1>5 DEF RotatesTheUsable
  <2>1. Rotating(q) /\ q # r
    BY <1>4
  <2>2. CASE s = n
    BY <1>2, <2>1, <2>2 DEF RInv, OneRotation
  <2>3. CASE s # n
    BY <1>6, <2>1, <2>3 DEF RInv, RotatesTheUsable
  <2> QED
    BY <2>2, <2>3
<1> QED
  BY <1>3, <1>8, <1>9, <1>10 DEF RInv

LEMMA ArrivalRotations ==
  ASSUME IInv, RInv, NEW r \in Requests, Arrive(r)
  PROVE  RInv'
<1>0. TypeOK
  BY DEF IInv
<1>1. CASE pc'[r] = "owner"
  BY <1>0, <1>1, ArrivalFacts, RotationStarts
<1>2. CASE pc'[r] # "owner"
  <2>1. /\ UNCHANGED <<issued, fam, new>> /\ doubled \subseteq doubled'
        /\ Unrevoked' \subseteq Unrevoked
    BY <1>0, ArrivalTables DEF Unrevoked
  <2>2. pc[r] = "idle" /\ new[r] = 0
    BY <1>0, ArrivalFacts DEF RInv, TokensNumbered, Ended
  <2>3. \A q \in Requests \ {r} : pc'[q] = pc[q] /\ arg'[q] = arg[q]
    BY <1>0, Frame
  <2>4. ~Rotating(r)'
    BY <1>0, <1>2, ArrivalFacts DEF Rotating
  <2>5. doubled' \subseteq 1 .. issued
    <3>1. doubled' = doubled \/ \E t \in Tokens : t \in Delivered /\ doubled' \subseteq doubled \cup {t}
      BY DEF Arrive, LoginRead, AdminRead, ChangeRead, LogoutAll, ForgotRead, RemoveUser,
             RotateRead, Logout, ResetRead, aux
    <3>2. \A t \in Tokens : t \in Delivered => t \in 1 .. issued
      BY Numbers DEF Tokens
    <3> QED
      BY <3>1, <3>2 DEF RInv, TokensNumbered
  <2>6. \A q \in Requests : Rotating(q)' => Rotating(q) /\ arg'[q].tok = arg[q].tok
    BY <2>3, <2>4 DEF Rotating
  <2>7. \A q \in Requests : /\ pc'[q] = "ok" => pc[q] = "ok" \/ new[q] = 0
                            /\ pc'[q] \notin Ended \cup {"mark"} => new[q] = 0
    BY <2>2, <2>3 DEF RInv, TokensNumbered
  <2> QED
    BY <2>1, <2>5, <2>6, <2>7, QuietSteps
<1> QED
  BY <1>1, <1>2

LEMMA StatementRotations ==
  ASSUME IInv, RInv, NEW r \in Requests, Continue(r)
  PROVE  RInv'
<1>0. /\ TypeOK /\ doubled \subseteq 1 .. issued
      /\ \A q \in Requests \ {r} : pc'[q] = pc[q] /\ arg'[q] = arg[q]
  BY Frame DEF IInv, RInv, TokensNumbered
<1>1. ASSUME UNCHANGED <<issued, fam, new, doubled, stored>>, revoked \subseteq revoked',
             NEW from \in Steps, NEW next \in Steps \cup Ended, Goto(r, from, next),
             next = "mark" => from = "mark",
             from = "mark" => next = "error",
             next \in {"owner", "issue", "mark"} => Rotating(r) \/ arg[r].op # "rotate"
      PROVE  RInv'
  <2>1. pc[r] = from /\ pc'[r] = next /\ arg' = arg
    BY <1>0, <1>1 DEF TypeOK, Goto
  <2>2. Unrevoked' \subseteq Unrevoked
    BY <1>1 DEF Unrevoked
  <2>3. from # "mark" => new[r] = 0
    BY <1>1, <2>1 DEF RInv, TokensNumbered, Steps, Ended
  <2>4. \A q \in Requests : /\ pc'[q] = "ok" => pc[q] = "ok" \/ new[q] = 0
                            /\ pc'[q] \notin Ended \cup {"mark"} => new[q] = 0
    BY <1>0, <1>1, <2>1, <2>3 DEF RInv, TokensNumbered, Ended
  <2>5. \A q \in Requests : Rotating(q)' => Rotating(q) /\ arg'[q].tok = arg[q].tok
    BY <1>0, <1>1, <2>1 DEF Rotating
  <2> QED
    BY <1>0, <1>1, <2>2, <2>4, <2>5, QuietSteps
<1>2. RotationOf(r)
  BY DEF IInv, RotationInFlight
<1>3. CASE RehashPassword(r)
  <2>1. arg[r].op = "login"
    BY <1>2, <1>3 DEF RehashPassword, Goto, RotationOf
  <2> QED
    BY <1>1, <1>3, <2>1 DEF RehashPassword, Steps
<1>4. CASE LoginIssue(r) \/ RotateIssue(r)
  <2>1. CASE InsertFails(r)
    BY <1>1, <2>1 DEF InsertFails, Steps, Ended, dbVars, aux
  <2> QED
    BY <1>4, <2>1, Insertions DEF LoginIssue, RotateIssue
<1>5. CASE RotateOwner(r)
  <2>1. Rotating(r)
    BY <1>2, <1>5 DEF RotateOwner, Goto, RotationOf, Rotating
  <2> QED
    BY <1>1, <1>5, <2>1 DEF RotateOwner, Steps, dbVars
<1>6. CASE RotateMark(r)
  <2>1. CASE arg[r].tok \notin stored
    BY <1>1, <1>6, <2>1 DEF RotateMark, Steps, Ended, aux
  <2> QED
    BY <1>6, <2>1, Exchange
<1>7. CASE RevokeStep(r)
  BY <1>1, <1>7 DEF RevokeStep, RevokeAllForUser, Steps, Ended
<1>8. CASE StorePassword(r) \/ StoreRights(r) \/ ForgotWrite(r)
  BY <1>1, <1>8 DEF StorePassword, StoreRights, ForgotWrite, dbVars, Steps, Ended, aux
<1> QED
  BY <1>3, <1>4, <1>5, <1>6, <1>7, <1>8 DEF Continue, ChangeWrite, ResetWrite, AdminWrite

(* A login none of whose tokens was presented while it was being exchanged *)
(* leaves at most one usable token, whatever runs inside its rotations.    *)
THEOREM OneTokenPerLogin == Spec => []OneUsableTokenPerLogin
<1>1. Init => RInv
  <2> SUFFICES ASSUME Init PROVE RInv
    OBVIOUS
  <2>1. TokensNumbered
    BY SessionsAssumption DEF Init, TokensNumbered, Tokens
  <2>2. \A s \in Delivered : s \in 1 .. Sessions0
    BY DEF Init, Delivered
  <2>3. \A s \in 1 .. Sessions0 : fam[s] = s
    BY SessionsAssumption DEF Init, Tokens
  <2> QED
    BY <2>1, <2>2, <2>3 DEF Init, RInv, OneUsable, OneRotation, RotatesTheUsable, Rotating
<1>2. IInv /\ RInv /\ [Next]_vars => RInv'
  <2> SUFFICES ASSUME IInv, RInv, [Next]_vars PROVE RInv'
    OBVIOUS
  <2>1. CASE Environment \/ UNCHANGED vars
    <3>1. /\ UNCHANGED <<issued, fam, new, doubled, revoked, arg>> /\ stored' \subseteq stored
      BY <2>1 DEF Environment, PurgeExpired, ExpireToken, ExpireKey, Crash, vars, dbVars,
                  reqVars, aux
    <3>2. \A q \in Requests : pc'[q] = pc[q] \/ pc'[q] = "lost"
      BY <2>1 DEF IInv, TypeOK, Environment, PurgeExpired, ExpireToken, ExpireKey, Crash, vars,
                  reqVars
    <3>3. Unrevoked' \subseteq Unrevoked
      BY <3>1 DEF Unrevoked
    <3>4. \A q \in Requests :
            /\ pc'[q] = "ok" => pc[q] = "ok" \/ new[q] = 0
            /\ pc'[q] \notin Ended \cup {"mark"} => new[q] = 0
            /\ Rotating(q)' => Rotating(q) /\ arg'[q].tok = arg[q].tok
      BY <3>1, <3>2 DEF RInv, TokensNumbered, Ended, Rotating
    <3> QED
      BY <3>1, <3>3, <3>4, QuietSteps DEF RInv, TokensNumbered
  <2> QED
    BY <2>1, ArrivalRotations, StatementRotations DEF Next
<1>3. RInv => OneUsableTokenPerLogin
  BY DEF RInv, OneUsable, OneUsableTokenPerLogin, Usable, Live, Tangled
<1>4. Spec => []RInv
  BY <1>1, <1>2, Inductive, PTL DEF Spec
<1> QED
  BY <1>3, <1>4, PTL
=============================================================================
