------------------------------ MODULE Accounts ------------------------------
(***************************************************************************)
(* Accounts and the sessions made for them: passwords that an admin sets    *)
(* and the holder replaces, the second factor, reset links by mail and      *)
(* temporary passwords, and the session store with its file                 *)
(* (auth/session.go, server/login.go, admin.go, password_reset.go,          *)
(* forgot_password.go).                                                     *)
(*                                                                         *)
(* Handlers are atomic here but for two: a login checks the password and    *)
(* makes the session later, and the broker can stop between the saved       *)
(* config of a reset and what it does to the sessions.  What two config     *)
(* writes do to each other is ConfigWrite's.  Sessions alike are one.       *)
(***************************************************************************)
EXTENDS Integers, FiniteSets, Functions

CONSTANTS Names, Admin, Other,   \* usernames; roles
          Founder,               \* the admin of the first config file
          Limit,                 \* forgotPasswordRateLimit
          MaxSessions,           \* bound: live sessions when a login starts
          MaxUpsets              \* bound: resets, edits, faults, losses

ASSUME AccountsAssumption ==
    /\ Admin # Other /\ Founder \in Names /\ "none" \notin Names
    /\ Limit \in Nat \ {0} /\ MaxSessions \in Nat \ {0} /\ MaxUpsets \in Nat

VARIABLES users,      \* the live config: name -> [role, pw, must, totp]
          kept,       \* the accounts a restart loads
          required,   \* auth.require_2fa
          sessions,   \* live sessions
          file,       \* those in the session file
          login,      \* a login whose password has been checked, or None
          phones,     \* holders whose authenticator has the account's secret
          links,      \* accounts whose holder has a live reset link in the mail
          temps,      \* accounts with a temporary password nobody has viewed
          asks,       \* name -> requests for a link in this window
          left,       \* history: accounts one of whose sessions a reset may have missed
          upsets

config == <<users, kept, required>>
store == <<sessions, file, left>>
outside == <<phones, links, temps, asks>>
vars == <<config, store, login, outside, upsets>>

None == [user |-> "none"]

(***************************************************************************)
(* Accounts.  Passwords: one that the holder chose ("own"), a temporary one *)
(* the holder has been given ("told") or has not ("temp").                  *)
(***************************************************************************)
Account == [role : {Admin, Other}, pw : {"own", "told", "temp"}, must : BOOLEAN,
            totp : BOOLEAN]

Edited(u, account) ==
    [n \in DOMAIN users \cup {u} |-> IF n = u THEN account ELSE users[n]]

Without(us, u) == Restrict(us, DOMAIN us \ {u})

HasAdmin(us) == \E u \in DOMAIN us : us[u].role = Admin

\* validateUsers: an admin among the accounts, or no account at all (login is
\* off then, which is not an error).
BugAnyUsers(us) == TRUE

ValidUsers(us) == DOMAIN us = {} \/ HasAdmin(us)

\* applyConfig gone well: live, and what a restart loads.
Saved(us) == ValidUsers(us) /\ users' = us /\ kept' = us /\ UNCHANGED required

(***************************************************************************)
(* The session store.  Of a session's fields, role, must and pend are       *)
(* sessionEntry's; the others are history: `old`, its account was reset     *)
(* after its password was checked; `due`, what the login owed and nobody    *)
(* has given yet.                                                           *)
(***************************************************************************)
Of(u, S) == {s \in S : s.user = u}
Aged(u, S) == {IF s.user = u THEN [s EXCEPT !.old = TRUE] ELSE s : s \in S}

Upset == upsets < MaxUpsets /\ upsets' = upsets + 1

\* saveLocked: every change rewrites the file; a failure is only logged.
SaveFile(S) ==
    /\ sessions' = S
    /\ \/ file' = S /\ UNCHANGED upsets
       \/ Upset /\ UNCHANGED file

Replace(s, new) == SaveFile((sessions \ {s}) \cup {new}) /\ UNCHANGED left

\* RevokeByUsername, the end of a reset; the file may not take it.
RevokeByUsername(u) ==
    /\ sessions' = sessions \ Of(u, sessions)
    /\ \/ file' = sessions' /\ left' = left \ {u}
       \/ file' = Aged(u, file) /\ left' = left \cup {u}
    /\ login' = IF login.user = u THEN [login EXCEPT !.old = TRUE] ELSE login

\* What a start brings back: the saved config and the session file.
Starts(us, S) ==
    /\ users' = us /\ kept' = us
    /\ sessions' = S /\ file' = S
    /\ login' = None
    /\ links' = {} /\ temps' = {} /\ asks' = [u \in Names |-> 0]
    /\ UNCHANGED <<required, phones>>

\* The broker stops after a reset's config is saved, before RevokeByUsername.
StopsBeforeRevoke(u, us) ==
    /\ ValidUsers(us)
    /\ left' = left \cup {u}
    /\ Starts(us, Aged(u, file))

(***************************************************************************)
(* requireRole: which pages a session is served.                            *)
(***************************************************************************)
needs2FAEnrollment(u) == required /\ u \in DOMAIN users /\ ~users[u].totp

\* The enrolment check comes before the password page is served.
BugEnrolFirst(s, page) ==
    IF needs2FAEnrollment(s.user) THEN page = "enrol" /\ ~s.must /\ ~s.pend
    ELSE IF s.must THEN page = "password"
    ELSE s.pend => page = "verify"

requireRole(s, page) ==
    IF s.must THEN page = "password"
    ELSE /\ s.pend => page = "verify"
         /\ needs2FAEnrollment(s.user) => page = "enrol"

Home(s) == requireRole(s, "home")
In(u) == \E s \in Of(u, sessions) : Home(s)
AdminOtherThan(u) == \E s \in sessions : s.user # u /\ s.role = Admin /\ Home(s)
ByAdmin == \E s \in sessions : s.role = Admin /\ Home(s)

Init ==
    /\ users = [u \in Names |-> [role |-> IF u = Founder THEN Admin ELSE Other,
                                pw |-> "own", must |-> FALSE, totp |-> FALSE]]
    /\ kept = users
    /\ required \in BOOLEAN
    /\ sessions = {} /\ file = {} /\ left = {}
    /\ login = None
    /\ phones = {} /\ links = {} /\ temps = {} /\ asks = [u \in Names |-> 0]
    /\ upsets = 0

(***************************************************************************)
(* The holder: login, the forced password change, the second factor.        *)
(***************************************************************************)
LoginCheck(u) ==
    /\ login = None /\ Cardinality(sessions) < MaxSessions
    /\ u \in DOMAIN users /\ users[u].pw # "temp"
    /\ login' = [user |-> u, role |-> users[u].role, must |-> users[u].must,
                 pend |-> users[u].totp, old |-> FALSE,
                 due |-> {d \in {"code", "password"} :
                            IF d = "code" THEN users[u].totp ELSE users[u].must}]
    /\ UNCHANGED <<config, store, outside, upsets>>

\* Create.
LoginCreate ==
    /\ login # None
    /\ SaveFile(sessions \cup {login})
    /\ left' = IF login.old THEN left \cup {login.user} ELSE left
    /\ login' = None
    /\ UNCHANGED <<config, outside>>

WithOwn(u) == Edited(u, [users[u] EXCEPT !.pw = "own", !.must = FALSE])
Chose(s) == [s EXCEPT !.must = FALSE, !.due = @ \ {"password"}]

\* The new session forgets the second factor that is still due.
BugDropsPending(s) ==
    /\ requireRole(s, "password") /\ s.user \in DOMAIN users
    /\ Saved(WithOwn(s.user))
    /\ Replace(s, [Chose(s) EXCEPT !.pend = FALSE])
    /\ UNCHANGED <<login, outside>>

ChangePassword(s) ==
    /\ requireRole(s, "password") /\ s.user \in DOMAIN users
    /\ Saved(WithOwn(s.user))
    /\ Replace(s, Chose(s))
    /\ UNCHANGED <<login, outside>>

\* A password that cannot be saved goes live in memory all the same.
ChangeUnsaved(s) ==
    /\ Upset
    /\ requireRole(s, "password") /\ s.user \in DOMAIN users
    /\ users' = WithOwn(s.user) /\ UNCHANGED <<kept, required>>
    /\ sessions' = (sessions \ {s}) \cup {Chose(s)} /\ file' = sessions'
    /\ UNCHANGED <<left, login, outside>>

HasPhone(u) == u \in DOMAIN users /\ users[u].totp /\ u \in phones

VerifyCode(s) ==
    /\ requireRole(s, "verify") /\ HasPhone(s.user)
    /\ Replace(s, [s EXCEPT !.must = FALSE, !.pend = FALSE, !.due = @ \ {"code"}])
    /\ UNCHANGED <<config, login, outside>>

Enrol(s) ==
    /\ requireRole(s, "enrol") /\ s.user \in DOMAIN users
    /\ Saved(Edited(s.user, [users[s.user] EXCEPT !.totp = TRUE]))
    /\ phones' = phones \cup {s.user}
    /\ IF needs2FAEnrollment(s.user) THEN UNCHANGED upsets ELSE Upset
    /\ UNCHANGED <<store, login, links, temps, asks>>

Disable(s) ==
    /\ Upset
    /\ s.role = Admin /\ Home(s) /\ ~required /\ HasPhone(s.user)
    /\ Saved(Edited(s.user, [users[s.user] EXCEPT !.totp = FALSE]))
    /\ UNCHANGED <<store, login, outside>>

\* Logout, which the file may not take; or its time is over, and no start
\* reads it back.
SessionEnds(s) ==
    /\ \/ SaveFile(sessions \ {s})
       \/ sessions' = sessions \ {s} /\ file' = file \ {s} /\ UNCHANGED upsets
    /\ UNCHANGED <<config, left, login, outside>>

(***************************************************************************)
(* Reset links.                                                             *)
(***************************************************************************)
\* allow counts the attempt whether or not it is within the limit.  Mail gets
\* lost, and all who ask from one address share a limit of their own.
AskLink(u, arrives) ==
    /\ u \in DOMAIN users
    /\ IF users[u].pw = "temp" THEN UNCHANGED upsets ELSE Upset
    /\ asks' = [asks EXCEPT ![u] = IF @ < Limit THEN @ + 1 ELSE @]
    /\ links' = IF asks[u] < Limit /\ arrives THEN links \cup {u} ELSE links
    /\ UNCHANGED <<config, store, login, phones, temps>>

WindowEnds(u) ==
    /\ asks[u] > 0 /\ asks' = [asks EXCEPT ![u] = 0]
    /\ UNCHANGED <<config, store, login, phones, links, temps, upsets>>

UseLink(u) ==
    /\ u \in links /\ u \in DOMAIN users
    /\ \/ /\ Saved(WithOwn(u)) /\ RevokeByUsername(u)
          /\ links' = links \ {u}
          /\ UNCHANGED <<phones, temps, asks>>
       \/ StopsBeforeRevoke(u, WithOwn(u))
    /\ IF u \in left' \ left THEN Upset ELSE UNCHANGED upsets

\* take comes first: a link is gone after half an hour, and with a password
\* that is too short, an account that is gone, a config that cannot be saved.
LinkWasted(u) ==
    /\ Upset
    /\ u \in links /\ links' = links \ {u}
    /\ UNCHANGED <<config, store, login, phones, temps, asks>>

(***************************************************************************)
(* The Access panel.                                                        *)
(***************************************************************************)
\* handleAdminSaveUser: a typed password is handed over and, as a rule, has to
\* be changed; without one the account keeps its own.  A rename drops the old
\* name, unless that would leave no admin.  Sessions are left alone.
SaveUser(orig, u, role, typed, force) ==
    LET new == [role |-> role,
                pw |-> IF typed THEN "told" ELSE users[orig].pw,
                must |-> IF typed THEN force ELSE users[orig].must,
                totp |-> orig \in DOMAIN users /\ users[orig].totp]
        both == Edited(u, new)
        renamed == IF orig = u THEN both ELSE Without(both, orig)
    IN  /\ Upset /\ ByAdmin
        /\ typed \/ (orig \in DOMAIN users /\ ~force)
        /\ ValidUsers(both)
        /\ Saved(IF ValidUsers(renamed) THEN renamed ELSE both)
        /\ phones' = {n \in Names : IF n = u THEN orig \in phones ELSE n \in phones}
        /\ UNCHANGED <<store, login, links, temps, asks>>

\* Nobody asks whose session it is.
BugDeletesOwn(u) ==
    /\ Upset /\ ByAdmin
    /\ u \in DOMAIN users
    /\ Saved(Without(users, u))
    /\ UNCHANGED <<store, login, outside>>

\* Refused to the session of that name; a session made under another name,
\* renamed or deleted since, may delete the very last account.
DeleteUser(u) ==
    /\ Upset /\ AdminOtherThan(u)
    /\ u \in DOMAIN users
    /\ Saved(Without(users, u))
    /\ UNCHANGED <<store, login, outside>>

WithTemp(u) == Edited(u, [users[u] EXCEPT !.pw = "temp", !.must = TRUE])

ResetPassword(u) ==
    /\ Upset
    /\ ByAdmin /\ u \in DOMAIN users
    /\ \/ /\ Saved(WithTemp(u)) /\ RevokeByUsername(u)
          /\ temps' = temps \cup {u}
          /\ UNCHANGED <<phones, links, asks>>
       \/ StopsBeforeRevoke(u, WithTemp(u))

\* The page of the reset shows the password, once and within five minutes.
ViewTemp(u) ==
    /\ ByAdmin /\ u \in temps /\ temps' = temps \ {u}
    /\ IF u \in DOMAIN users /\ users[u].pw = "temp"
       THEN users' = [users EXCEPT ![u].pw = "told"]
            /\ kept' = [n \in DOMAIN kept |->
                          IF n = u /\ kept[n].pw = "temp" THEN [kept[n] EXCEPT !.pw = "told"]
                          ELSE kept[n]]
       ELSE UNCHANGED <<users, kept>>
    /\ UNCHANGED <<required, store, login, phones, links, asks, upsets>>

TempExpires(u) ==
    /\ Upset
    /\ u \in temps /\ temps' = temps \ {u}
    /\ UNCHANGED <<config, store, login, phones, links, asks>>

Without2FA(u) == Edited(u, [users[u] EXCEPT !.totp = FALSE])

\* The sessions are left as they are.
BugKeepsSessions(u) ==
    /\ Upset
    /\ AdminOtherThan(u) /\ u \in DOMAIN users /\ users[u].totp
    /\ Saved(Without2FA(u))
    /\ sessions' = Aged(u, sessions) /\ file' = Aged(u, file)
    /\ UNCHANGED <<left, login, outside>>

Reset2FA(u) ==
    /\ Upset
    /\ AdminOtherThan(u) /\ u \in DOMAIN users /\ users[u].totp
    /\ \/ /\ Saved(Without2FA(u)) /\ RevokeByUsername(u)
          /\ UNCHANGED outside
       \/ StopsBeforeRevoke(u, Without2FA(u))

LosePhone(u) ==
    /\ Upset
    /\ u \in phones /\ phones' = phones \ {u}
    /\ UNCHANGED <<config, store, login, links, temps, asks>>

Restart ==
    /\ Upset
    /\ Starts(kept, file)
    /\ UNCHANGED left

Next ==
    \/ LoginCreate \/ Restart
    \/ \E s \in sessions : \/ ChangePassword(s) \/ ChangeUnsaved(s) \/ VerifyCode(s)
                           \/ Enrol(s) \/ Disable(s) \/ SessionEnds(s)
    \/ \E u \in Names :
          \/ LoginCheck(u) \/ WindowEnds(u) \/ UseLink(u) \/ LinkWasted(u)
          \/ \E arrives \in BOOLEAN : AskLink(u, arrives)
          \/ ResetPassword(u) \/ ViewTemp(u) \/ TempExpires(u)
          \/ Reset2FA(u) \/ DeleteUser(u) \/ LosePhone(u)
          \/ \E orig \in Names, role \in {Admin, Other}, typed, force \in BOOLEAN :
                SaveUser(orig, u, role, typed, force)

Spec == Init /\ [][Next]_vars

(***************************************************************************)
(* Fairness.  A holder keeps trying: logs in, or asks for a link when only  *)
(* the admin's page had the password, and goes on from a session.           *)
(* Every session ends in time, every window closes.  Nobody is obliged to   *)
(* use the Access panel, and mail only has to arrive now and then.          *)
(***************************************************************************)
Try(u) == \/ LoginCheck(u)
          \/ /\ u \in DOMAIN users /\ users[u].pw = "temp"
             /\ UseLink(u) \/ (u \notin links /\ asks[u] < Limit /\ AskLink(u, TRUE))

Continue(u) == \E s \in sessions :
                  /\ s.user = u
                  /\ ChangePassword(s) \/ VerifyCode(s) \/ (needs2FAEnrollment(u) /\ Enrol(s))

Fairness ==
    /\ WF_vars(LoginCreate) /\ WF_vars(\E s \in sessions : SessionEnds(s))
    /\ \A u \in Names :
          SF_vars(Try(u)) /\ SF_vars(Continue(u)) /\ WF_vars(WindowEnds(u))

FairSpec == Spec /\ Fairness

(***************************************************************************)
(* Properties.                                                              *)
(***************************************************************************)
Sessions == [user : Names, role : {Admin, Other}, must : BOOLEAN, pend : BOOLEAN,
             old : BOOLEAN, due : SUBSET {"code", "password"}]
Directory(us) == DOMAIN us \subseteq Names /\ \A u \in DOMAIN us : us[u] \in Account

\* Types, and across every reset, edit, rename, deletion and failed save there
\* is an account with the admin role, or no account at all, live and for the
\* next start: no config locks its remaining users out of the pages that could
\* grant the role again (validateUsers).
AccountsInv ==
    /\ Directory(users) /\ Directory(kept)
    /\ sessions \subseteq Sessions /\ file \subseteq Sessions
    /\ login \in Sessions \cup {None}
    /\ \A set \in {phones, links, temps, left} : set \subseteq Names
    /\ asks \in [Names -> 0..Limit] /\ upsets \in 0..MaxUpsets
    /\ DOMAIN users = {} \/ HasAdmin(users)
    /\ DOMAIN kept = {} \/ HasAdmin(kept)

\* The last admin goes only by the hand of an admin's session whose own account
\* has been renamed or deleted since it was made: nothing else, a restart
\* included, gets past the refusal to delete one's own account and validateUsers
\* (admin.go:411, config.go:676).
LastAdminStays ==
    [][HasAdmin(users) /\ ~HasAdmin(users)' =>
          \E s \in sessions : s.role = Admin /\ Home(s) /\ s.user \notin DOMAIN users]_vars

\* A session that is served a home page has given all its login owed, in
\* whatever order the password and the second factor came (requireRole and
\* the sessions each step makes anew).
FullMeansProved == \A s \in sessions : Home(s) => s.due = {}

\* After a reset no session lives whose password was checked before it; the
\* exceptions are accounts whose reset did not reach the session file before
\* a stop, and a login that overlapped it (RevokeByUsername).
ResetEndsSessions == \A s \in sessions : s.old => s.user \in left

\* Again and again a holder gets in, whatever was reset, lost or restarted,
\* unless the account is gone or its authenticator is (which takes another
\* admin): the steps requireRole asks for lead to a home page, not in a circle.
HolderGetsIn ==
    \A u \in Names : []<>(\/ In(u) \/ u \notin DOMAIN users
                         \/ (users[u].totp /\ u \notin phones))
=============================================================================
