------------------------------ MODULE Entrance ------------------------------
(***************************************************************************)
(* The way in and out of the application: context/AuthProvider.tsx, the    *)
(* gate of frontend/app/_layout.tsx and navigation/route-gate.ts, and the  *)
(* screens login, forgot-password, reset-password and change-password.     *)
(*                                                                         *)
(* Who is signed in is kept three times: on the device, as a flag of the   *)
(* provider, and as the profile in the cache; each of the calls below      *)
(* crosses awaits between writing them.  The server is Sessions.tla's,     *)
(* with one account; a refresh of the client runs beside (ApiClient.tla).  *)
(***************************************************************************)
EXTENDS QueryCache, Integers, FiniteSets

CONSTANTS
  Words,   \* passwords one may type
  Long,    \* those of at least PASSWORD_MIN_LENGTH characters
  Blank,   \* one of Words, and an address not typed
  MaxUnderWay \* handlers at a time

EntranceAssumption == Long \subseteq Words /\ Blank \in Words \ Long

Kinds == {"login", "forgot", "reset", "change", "signout"}
PublicSegments == {"login", "forgot-password", "reset-password"}
Steps == {"none", "sent", "accepted", "refused", "saved", "leaving", "revoked"}
Segments == PublicSegments \cup {"change-password", "analytics"}

VARIABLES
  must,        \* mustChangePassword, on the server
  disk,        \* the device holds a session
  bootstrapped, hasSession,
  profile,     \* the query of auth/me: its data is the user, or Nothing
  route,
  form,        \* of the screen that is open
  calls,       \* the handlers under way
  refresh,     \* of the client: "none", "sent", "cleared"
  crossed      \* history: two of sign-in, sign-out and a refresh met on the device

vars == <<must, disk, bootstrapped, hasSession, profile, route, form, calls, refresh, crossed>>
session == <<disk, bootstrapped, hasSession, profile, refresh, crossed>>

NoCall == [step |-> "none", mine |-> FALSE]
NewForm == [error |-> FALSE, submitting |-> FALSE, sent |-> FALSE]
User == [must |-> must]

TypeOK ==
  /\ {must, disk, bootstrapped, hasSession, crossed} \subseteq BOOLEAN
  /\ profile.data = Nothing \/ profile.data.must \in BOOLEAN
  /\ profile.fetch \in {"none", "asked", "answered"}
  /\ route \in Segments
  /\ form \in [error : BOOLEAN, submitting : BOOLEAN, sent : BOOLEAN]
  /\ calls \in [Kinds -> [step : Steps, mine : BOOLEAN]]
  /\ refresh \in {"none", "sent", "cleared"}

Init ==
  /\ must \in BOOLEAN /\ disk \in BOOLEAN
  /\ bootstrapped = FALSE /\ hasSession = FALSE /\ profile = NewQuery
  /\ route \in Segments /\ form = NewForm
  /\ calls = [k \in Kinds |-> NoCall]
  /\ refresh = "none" /\ crossed = FALSE

-----------------------------------------------------------------------------
(* The gate.                                                               *)

IsLoading == ~bootstrapped \/ (hasSession /\ profile.data = Nothing /\ profile.fetch # "none")

(* Bug for checking: a public screen keeps whoever must change a password. *)
ResolveRedirectBug(user, segment) ==
  IF user = Nothing THEN IF segment \in PublicSegments THEN segment ELSE "login"
  ELSE IF segment \in PublicSegments THEN "analytics"
  ELSE IF user.must THEN "login" ELSE segment

(* resolveRedirect: where to, the segment itself to stay.                  *)
ResolveRedirect(user, segment) ==
  IF user = Nothing THEN IF segment \in PublicSegments THEN segment ELSE "login"
  ELSE IF user.must THEN "change-password"
  ELSE IF segment \in PublicSegments THEN "analytics" ELSE segment

(* A screen that opens is new; a handler of the one that was left goes on  *)
(* and no longer reaches a form.                                           *)
Opens(segment) ==
  /\ route' = segment
  /\ form' = IF segment = route THEN form ELSE NewForm
  /\ calls' = IF segment = route THEN calls ELSE [k \in Kinds |-> [calls[k] EXCEPT !.mine = FALSE]]

Redirect ==
  /\ ~IsLoading /\ ResolveRedirect(profile.data, route) # route
  /\ Opens(ResolveRedirect(profile.data, route))
  /\ UNCHANGED <<must, session>>

(* A link of a screen, the menu, or an address typed within the app.       *)
Navigate(segment) ==
  /\ ~IsLoading /\ segment # route /\ Opens(segment)
  /\ UNCHANGED <<must, session>>

-----------------------------------------------------------------------------
(* AuthProvider.                                                           *)

(* The page is loaded again: the memory is new, and no handler nor refresh *)
(* under way comes back; a session that was not yet saved is lost.         *)
Reload ==
  /\ bootstrapped' = FALSE /\ hasSession' = FALSE /\ profile' = NewQuery
  /\ form' = NewForm /\ calls' = [k \in Kinds |-> NoCall]
  /\ refresh' = "none" /\ crossed' = FALSE
  /\ UNCHANGED <<must, disk, route>>

(* readSession at the start.                                               *)
Bootstrap ==
  /\ ~bootstrapped /\ bootstrapped' = TRUE
  /\ hasSession' = disk
  /\ profile' = IF disk THEN Opened(profile) ELSE profile
  /\ UNCHANGED <<must, disk, route, form, calls, refresh, crossed>>

(* auth/me answers, or the connection fails; retry: false.                 *)
ProfileServed ==
  /\ profile.fetch = "asked"
  /\ profile' \in {AnsweredWith(profile, User), AnsweredWith(profile, Failure)}
  /\ UNCHANGED <<must, disk, bootstrapped, hasSession, route, form, calls, refresh, crossed>>

ProfileArrives ==
  /\ profile.fetch = "answered" /\ profile' = Taken(profile)
  /\ UNCHANGED <<must, disk, bootstrapped, hasSession, route, form, calls, refresh, crossed>>

(* The connection is back, and the profile is no longer fresh.             *)
ProfileRefetched ==
  /\ hasSession /\ profile.fetch = "none" /\ profile' = Asked(profile)
  /\ UNCHANGED <<must, disk, bootstrapped, hasSession, route, form, calls, refresh, crossed>>
(* onSessionExpired, and the end of signOut: the flag falls, the profile is *)
(* no one's and the cache is emptied, whatever is being fetched.           *)
Forgotten == hasSession' = FALSE /\ profile' = NewQuery

SavingLogin == calls["login"].step = "saved"

(* A refresh of the client: asked for when a call finds its access token   *)
(* over; its answer is saved, or the session is cleared, then announced.   *)
RefreshSent ==
  /\ refresh = "none" /\ disk /\ refresh' = "sent" /\ crossed' = (crossed \/ SavingLogin)
  /\ UNCHANGED <<must, disk, bootstrapped, hasSession, profile, route, form, calls>>

RefreshSaved ==
  /\ refresh = "sent" /\ refresh' = "none" /\ disk' = TRUE
  /\ UNCHANGED <<must, bootstrapped, hasSession, profile, route, form, calls, crossed>>

RefreshRefused ==
  /\ refresh = "sent" /\ refresh' = "cleared" /\ disk' = FALSE
  /\ UNCHANGED <<must, bootstrapped, hasSession, profile, route, form, calls, crossed>>

SessionExpired ==
  /\ refresh = "cleared" /\ refresh' = "none" /\ Forgotten
  /\ UNCHANGED <<must, disk, bootstrapped, route, form, calls, crossed>>

(* A superuser demands a new password.                                     *)
Demanded == ~must /\ must' = TRUE /\ UNCHANGED <<session, route, form, calls>>

-----------------------------------------------------------------------------
(* The screens.                                                            *)

(* Bound: so many handlers at a time, one of a kind, also when a screen    *)
(* was left and opened again.                                              *)
MayStart(k) ==
  calls[k].step = "none" /\ Cardinality({j \in Kinds : calls[j].step # "none"}) < MaxUnderWay

(* handleSubmit, whichever it is: a form under way is not sent again, and  *)
(* what fails its checks is not sent at all.                               *)
Submit(k, segment, valid) ==
  /\ ~IsLoading /\ route = segment /\ ~form.submitting
  /\ IF valid
     THEN /\ MayStart(k)
          /\ calls' = [calls EXCEPT ![k] = [step |-> "sent", mine |-> TRUE]]
          /\ form' = [form EXCEPT !.submitting = TRUE, !.error = FALSE]
     ELSE form' = [form EXCEPT !.error = TRUE] /\ UNCHANGED calls
  /\ UNCHANGED <<must, session, route>>

SubmitLogin == \E valid \in {w # Blank : w \in Words} : Submit("login", "login", valid)

(* Once sent, the screen shows the answer in place of the form.            *)
SubmitForgot ==
  ~form.sent /\ \E valid \in {w # Blank : w \in Words} : Submit("forgot", "forgot-password", valid)

MayReset(word, confirmation) == word \in Long /\ word = confirmation

SubmitReset ==
  \E valid \in {MayReset(w, again) : w, again \in Words} : Submit("reset", "reset-password", valid)

MayChange(current, word, confirmation) ==
  current # Blank /\ word \in Long /\ word # current /\ word = confirmation

SubmitChange ==
  \E valid \in {MayChange(current, w, again) : current, w, again \in Words} :
    Submit("change", "change-password", valid)

(* "Sair".                                                                 *)
SignOut ==
  /\ ~IsLoading /\ route \notin PublicSegments /\ ~form.submitting
  /\ MayStart("signout")
  /\ calls' = [calls EXCEPT !["signout"].step = "leaving"]
  /\ UNCHANGED <<must, session, route, form>>

(* The server answers, and what it accepts it has done, also when the      *)
(* answer is lost: a password chosen anew is no longer demanded.           *)
Accepts(k) == must' = (must /\ k \notin {"reset", "change"}) /\ (k = "change" => disk)

Serve(k) ==
  /\ calls[k].step = "sent"
  /\ \E step \in {"accepted", "refused"} :
       /\ calls' = [calls EXCEPT ![k].step = step]
       /\ Accepts(k) \/ (step = "refused" /\ UNCHANGED must)
  /\ UNCHANGED <<session, route, form>>

(* A refusal, or no answer: the form says so and may be sent again.        *)
Refused(k) ==
  /\ calls[k].step = "refused"
  /\ calls' = [calls EXCEPT ![k] = NoCall]
  /\ form' = IF calls[k].mine THEN [form EXCEPT !.error = TRUE, !.submitting = FALSE] ELSE form
  /\ UNCHANGED <<must, session, route>>

(* signIn: the device first, then the flag and the profile of the answer.  *)
SignInSaved ==
  /\ calls["login"].step = "accepted"
  /\ calls' = [calls EXCEPT !["login"].step = "saved"]
  /\ disk' = TRUE /\ crossed' = (crossed \/ refresh # "none")
  /\ UNCHANGED <<must, bootstrapped, hasSession, profile, route, form, refresh>>

SignedIn ==
  /\ calls["login"].step = "saved"
  /\ calls' = [calls EXCEPT !["login"] = NoCall]
  /\ hasSession' = TRUE /\ profile' = Written(profile, User)
  /\ form' = IF calls["login"].mine THEN [form EXCEPT !.submitting = FALSE] ELSE form
  /\ UNCHANGED <<must, disk, bootstrapped, route, refresh, crossed>>

LinkSent ==
  /\ calls["forgot"].step = "accepted"
  /\ calls' = [calls EXCEPT !["forgot"] = NoCall]
  /\ form' = IF calls["forgot"].mine THEN [form EXCEPT !.sent = TRUE, !.submitting = FALSE] ELSE form
  /\ UNCHANGED <<must, session, route>>

(* The handler sends whoever is there to the login.                        *)
PasswordReset ==
  /\ calls["reset"].step = "accepted"
  /\ route' = "login" /\ form' = IF route = "login" THEN form ELSE NewForm
  /\ calls' = [k \in Kinds |-> IF k = "reset" THEN NoCall
                                ELSE [calls[k] EXCEPT !.mine = @ /\ route = "login"]]
  /\ UNCHANGED <<must, session>>

(* The sessions of the account are over, this one too: it signs out.       *)
PasswordChanged ==
  /\ calls["change"].step = "accepted"
  /\ calls' = [calls EXCEPT !["change"].step = "leaving"]
  /\ UNCHANGED <<must, session, route, form>>

(* signOut: revoked on the server, or not when it does not answer.         *)
LoggedOut(k) ==
  /\ calls[k].step = "leaving"
  /\ calls' = [calls EXCEPT ![k].step = "revoked"]
  /\ UNCHANGED <<must, session, route, form>>

(* Then the device, and all that is known of the user; change-password     *)
(* goes to the login by itself.                                            *)
SignedOut(k) ==
  /\ calls[k].step = "revoked"
  /\ disk' = FALSE /\ Forgotten /\ crossed' = (crossed \/ refresh # "none" \/ SavingLogin)
  /\ LET leaves == k = "change" /\ route # "login"
     IN /\ route' = IF leaves THEN "login" ELSE route
        /\ form' = IF leaves THEN NewForm ELSE form
        /\ calls' = [j \in Kinds |-> IF j = k THEN NoCall
                                      ELSE [calls[j] EXCEPT !.mine = @ /\ ~leaves]]
  /\ UNCHANGED <<must, bootstrapped, refresh>>

Next ==
  \/ Redirect \/ Reload \/ Bootstrap
  \/ \E segment \in Segments : Navigate(segment)
  \/ ProfileServed \/ ProfileArrives \/ ProfileRefetched
  \/ RefreshSent \/ RefreshSaved \/ RefreshRefused \/ SessionExpired \/ Demanded
  \/ SubmitLogin \/ SubmitForgot \/ SubmitReset \/ SubmitChange
  \/ SignOut \/ SignInSaved \/ SignedIn \/ LinkSent \/ PasswordReset \/ PasswordChanged
  \/ \E k \in Kinds : Serve(k) \/ Refused(k) \/ LoggedOut(k) \/ SignedOut(k)

Spec == Init /\ [][Next]_vars

-----------------------------------------------------------------------------
(* Nobody is sent back and forth: where the gate sends one, it lets one    *)
(* stay: route-gate.ts, 42-64.                                             *)
GateSettles ==
  LET there == ResolveRedirect(profile.data, route)
  IN ResolveRedirect(profile.data, there) = there

(* Whoever signed out, or whose session is over, is forgotten: an answer   *)
(* asked for before brings nobody back: AuthProvider.tsx, 61-69, 81-90.    *)
SignedOutStaysOut == ~hasSession => profile.data = Nothing

(* With no handler and no refresh under way, the application believes in a *)
(* session exactly when the device holds one.  Excused: a sign-in, a       *)
(* sign-out and a refresh of the client that met: AuthProvider.tsx, 44-90; *)
(* client.ts, 178-203.                                                     *)
ScreensKnowSession ==
  bootstrapped /\ refresh = "none" /\ ~SavingLogin /\ ~crossed => hasSession = disk

(* A form on the screen is under way only while its handler is: none is    *)
(* left that can no longer be sent: login.tsx, 22-47; change-password.tsx, *)
(* 32-67.                                                                  *)
FormsComeBack == form.submitting => \E k \in Kinds : calls[k].step # "none" /\ calls[k].mine

-----------------------------------------------------------------------------
(* What every step keeps, from which the properties above follow:          *)
(* DeskProofs.tla.                                                         *)

(* The screen whose handler this is.                                       *)
ScreenOf(k) ==
  IF k = "login" THEN "login"
  ELSE IF k = "forgot" THEN "forgot-password"
  ELSE IF k = "reset" THEN "reset-password" ELSE "change-password"

(* The shape of the query, and of the state.                               *)
QueryShape(q) ==
  q = [data |-> q.data, error |-> q.error, stale |-> q.stale, fetch |-> q.fetch, got |-> q.got]

Shaped ==
  /\ TypeOK /\ QueryShape(profile)
  /\ profile.fetch = "answered" => profile.got = Failure \/ profile.got.must \in BOOLEAN

(* Nothing is under way before the session was read from the device; whom  *)
(* a handler still reaches is the screen it is of.                         *)
Handled ==
  /\ ~bootstrapped => ~hasSession /\ \A k \in Kinds : calls[k].step = "none"
  /\ \A k \in Kinds :
       /\ calls[k].mine => k # "signout" /\ route = ScreenOf(k)
       /\ calls[k].step \in {"leaving", "revoked"} => k \in {"change", "signout"}

(* No profile is awaited by whoever is signed out.                         *)
Forgot == ~hasSession => profile.data = Nothing /\ profile.fetch = "none"

(* Every step between the device and the screens is accounted for.         *)
Knows ==
  ~crossed =>
    /\ refresh = "sent" => disk
    /\ refresh = "cleared" => ~disk
    /\ SavingLogin => disk /\ refresh = "none"
    /\ bootstrapped /\ ~SavingLogin /\ refresh # "cleared" => (hasSession <=> disk)

IInv == Shaped /\ Handled /\ Forgot /\ Knows /\ FormsComeBack
=============================================================================
