--------------------------- MODULE AccountsProofs ---------------------------
(***************************************************************************)
(* Proofs about Accounts, for any names and bounds.  The state falls into  *)
(* three parts that the handlers change by different rules, and the        *)
(* inductive invariant is the conjunction of one for each:                 *)
(*   ConfigInv  the accounts, live and kept, which are the same names,     *)
(*              with an admin among them unless there is none at all;      *)
(*   StoreInv   sessions, session file and the login under way: what a     *)
(*              session still owes it is still asked for, and one that a   *)
(*              reset should have ended belongs to an account in `left`;   *)
(*   RestInv    links, temporary passwords and the counters.               *)
(***************************************************************************)
EXTENDS Accounts, TLAPS

ConfigInv ==
    /\ Directory(users) /\ Directory(kept)
    /\ ValidUsers(users) /\ ValidUsers(kept)
    /\ DOMAIN kept = DOMAIN users

(* What a session's login owed and has not had is what requireRole asks.    *)
Owes(s) == ("password" \in s.due => s.must) /\ ("code" \in s.due => s.pend)

Marked(s, names) == s.old => s.user \in names

Good(S, names) == \A s \in S : s \in Sessions /\ Owes(s) /\ Marked(s, names)

StoreInv ==
    /\ Good(sessions, left) /\ Good(file, left)
    /\ login = None \/ (login \in Sessions /\ Owes(login))
    /\ left \subseteq Names

RestInv ==
    /\ phones \subseteq Names /\ links \subseteq Names /\ temps \subseteq Names
    /\ asks \in [Names -> 0..Limit] /\ upsets \in 0..MaxUpsets

IInv == ConfigInv /\ StoreInv /\ RestInv

-----------------------------------------------------------------------------
(* Accounts: config.SetUser, RemoveUser and validateUsers.                  *)

(* An edited directory is one.                                              *)
LEMMA EditedDirectory ==
    ASSUME Directory(users), NEW u \in Names, NEW account \in Account
    PROVE  Directory(Edited(u, account))
  BY DEF Directory, Edited

(* So is one without an account.                                            *)
LEMMA WithoutDirectory ==
    ASSUME NEW us, Directory(us), NEW u
    PROVE  Directory(Without(us, u))
  BY DEF Directory, Without, Restrict

(* A config that is saved has been validated.                               *)
LEMMA SavedInv ==
    ASSUME NEW us, Directory(us), Saved(us)
    PROVE  ConfigInv'
  BY DEF Saved, ValidUsers, ConfigInv, HasAdmin, Directory

(* A reset that a stop cuts short was saved too.                            *)
LEMMA StopsConfig ==
    ASSUME NEW us, Directory(us), NEW u, StopsBeforeRevoke(u, us)
    PROVE  ConfigInv'
  BY DEF StopsBeforeRevoke, Starts, ValidUsers, ConfigInv, HasAdmin, Directory

(* The accounts that handlers write: a new password, a temporary one, a     *)
(* second factor more or less.                                              *)
LEMMA AccountEdits ==
    ASSUME Directory(users), NEW u \in DOMAIN users
    PROVE  /\ u \in Names
           /\ Directory(WithOwn(u)) /\ Directory(WithTemp(u)) /\ Directory(Without2FA(u))
           /\ Directory(Edited(u, [users[u] EXCEPT !.totp = TRUE]))
<1>1. u \in Names /\ users[u] \in Account
  BY DEF Directory
<1>2. /\ [users[u] EXCEPT !.pw = "own", !.must = FALSE] \in Account
      /\ [users[u] EXCEPT !.pw = "temp", !.must = TRUE] \in Account
      /\ [users[u] EXCEPT !.totp = FALSE] \in Account
      /\ [users[u] EXCEPT !.totp = TRUE] \in Account
  BY <1>1 DEF Account
<1> QED
  BY <1>1, <1>2, EditedDirectory DEF WithOwn, WithTemp, Without2FA

(* A password that goes live unsaved changes nobody's role.                 *)
LEMMA UnsavedConfig ==
    ASSUME ConfigInv, NEW s \in sessions, ChangeUnsaved(s)
    PROVE  ConfigInv'
<1>1. s.user \in DOMAIN users /\ users' = WithOwn(s.user) /\ kept' = kept
  BY DEF ChangeUnsaved
<1>2. Directory(users')
  BY <1>1, AccountEdits DEF ConfigInv
<1>3. PICK a \in DOMAIN users : users[a].role = Admin
  BY <1>1 DEF ConfigInv, ValidUsers, HasAdmin
<1>4. DOMAIN users' = DOMAIN users \cup {s.user}
      /\ users'[a] = IF a = s.user THEN [users[s.user] EXCEPT !.pw = "own", !.must = FALSE]
                     ELSE users[a]
  BY <1>1 DEF WithOwn, Edited
<1>5. users'[a].role = Admin
  BY <1>1, <1>3, <1>4 DEF ConfigInv, Directory, Account
<1>6. DOMAIN users' = DOMAIN users
  BY <1>1, <1>4
<1>7. HasAdmin(users')
  BY <1>4, <1>5 DEF HasAdmin
<1> QED
  BY <1>1, <1>2, <1>6, <1>7 DEF ConfigInv, ValidUsers

(* An admin reads a temporary password: nobody's role changes.              *)
LEMMA ViewTempConfig ==
    ASSUME ConfigInv, NEW u \in Names, ViewTemp(u)
    PROVE  ConfigInv'
<1>1. CASE UNCHANGED <<users, kept>>
  BY <1>1 DEF ConfigInv
<1>2. CASE /\ u \in DOMAIN users
           /\ users' = [users EXCEPT ![u].pw = "told"]
           /\ kept' = [n \in DOMAIN kept |->
                         IF n = u /\ kept[n].pw = "temp" THEN [kept[n] EXCEPT !.pw = "told"]
                         ELSE kept[n]]
  <2>1. \A us : Directory(us) =>
           \A n \in DOMAIN us : /\ [us[n] EXCEPT !.pw = "told"] \in Account
                                /\ [us[n] EXCEPT !.pw = "told"].role = us[n].role
    BY DEF Directory, Account
  <2>2. DOMAIN users' = DOMAIN users /\ DOMAIN kept' = DOMAIN kept
    BY <1>2
  <2>3. \A n \in DOMAIN users : users'[n] \in Account /\ users'[n].role = users[n].role
    BY <1>2, <2>1 DEF ConfigInv, Directory
  <2>4. \A n \in DOMAIN kept : kept'[n] \in Account /\ kept'[n].role = kept[n].role
    BY <1>2, <2>1 DEF ConfigInv, Directory
  <2>5. Directory(users') /\ Directory(kept')
    BY <2>2, <2>3, <2>4 DEF ConfigInv, Directory
  <2>6. ValidUsers(users') /\ ValidUsers(kept')
    BY <2>2, <2>3, <2>4 DEF ConfigInv, ValidUsers, HasAdmin
  <2> QED
    BY <2>2, <2>5, <2>6 DEF ConfigInv
<1> QED
  BY <1>1, <1>2 DEF ViewTemp

-----------------------------------------------------------------------------
(* The session store (auth/session.go).                                     *)

(* Good holds of fewer sessions, and of more names.                         *)
LEMMA GoodSubset ==
    ASSUME NEW S, NEW T, NEW names, NEW more, T \subseteq S, names \subseteq more, Good(S, names)
    PROVE  Good(T, more)
  BY DEF Good, Marked

(* saveLocked: the file takes the sessions or stays as it was.              *)
LEMMA SaveFileInv ==
    ASSUME NEW S, SaveFile(S), Good(S, left'), Good(file, left), left \subseteq left',
           left' \subseteq Names, login' = None \/ (login' \in Sessions /\ Owes(login'))
    PROVE  StoreInv'
<1>1. sessions' = S /\ (file' = S \/ file' = file)
  BY DEF SaveFile
<1>2. Good(file, left')
  BY GoodSubset
<1> QED
  BY <1>1, <1>2 DEF StoreInv

(* A session exchanged for one that owes no more than it did.               *)
LEMMA ReplaceInv ==
    ASSUME StoreInv, NEW s \in sessions, NEW new \in Sessions, Owes(new), new.old = s.old,
           new.user = s.user, Replace(s, new), UNCHANGED login
    PROVE  StoreInv'
<1>1. SaveFile((sessions \ {s}) \cup {new}) /\ left' = left
  BY DEF Replace
<1>2. Good((sessions \ {s}) \cup {new}, left)
  BY DEF StoreInv, Good, Marked
<1> QED
  BY <1>1, <1>2, SaveFileInv DEF StoreInv

(* The records that the session steps make.                                 *)
LEMMA SessionEdits ==
    ASSUME NEW s \in Sessions, Owes(s)
    PROVE  /\ Chose(s) \in Sessions /\ Owes(Chose(s))
           /\ Chose(s).old = s.old /\ Chose(s).user = s.user
           /\ LET v == [s EXCEPT !.must = FALSE, !.pend = FALSE, !.due = @ \ {"code"}] IN
              /\ v \in Sessions /\ v.old = s.old /\ v.user = s.user
              /\ ~s.must => Owes(v)
           /\ LET o == [s EXCEPT !.old = TRUE] IN
              o \in Sessions /\ Owes(o) /\ o.user = s.user
<1>1. Chose(s) \in Sessions /\ Chose(s).old = s.old /\ Chose(s).user = s.user
  BY DEF Chose, Sessions
<1>2. Chose(s).due = s.due \ {"password"} /\ Chose(s).pend = s.pend
  BY DEF Chose, Sessions
<1>3. Owes(Chose(s))
  BY <1>2 DEF Owes
<1> DEFINE v == [s EXCEPT !.must = FALSE, !.pend = FALSE, !.due = @ \ {"code"}]
<1>4. v \in Sessions /\ v.old = s.old /\ v.user = s.user
  BY DEF Sessions
<1>5. v.due = s.due \ {"code"}
  BY DEF Sessions
<1>6. ~s.must => Owes(v)
  <2> HIDE DEF v
  <2> QED
    BY <1>5 DEF Owes
<1> DEFINE o == [s EXCEPT !.old = TRUE]
<1>7. o \in Sessions /\ o.user = s.user
  BY DEF Sessions
<1>8. o.due = s.due /\ o.must = s.must /\ o.pend = s.pend
  BY DEF Sessions
<1>9. Owes(o)
  <2> HIDE DEF o
  <2> QED
    BY <1>8 DEF Owes
<1> HIDE DEF v, o
<1>10. (/\ v \in Sessions /\ v.old = s.old /\ v.user = s.user /\ (~s.must => Owes(v)))
       /\ (o \in Sessions /\ Owes(o) /\ o.user = s.user)
  BY <1>4, <1>6, <1>7, <1>9
<1> QED
  BY <1>1, <1>3, <1>10 DEF v, o

(* A password checked: the login asks for all it is owed.                   *)
LEMMA LoginCheckInv ==
    ASSUME StoreInv, ConfigInv, NEW u \in Names, LoginCheck(u)
    PROVE  StoreInv'
<1> DEFINE due == {d \in {"code", "password"} :
                     IF d = "code" THEN users[u].totp ELSE users[u].must}
           new == [user |-> u, role |-> users[u].role, must |-> users[u].must,
                   pend |-> users[u].totp, old |-> FALSE, due |-> due]
<1>1. login' = new /\ UNCHANGED <<sessions, file, left>>
  BY DEF LoginCheck, store
<1>2. users[u] \in Account
  BY DEF LoginCheck, ConfigInv, Directory
<1>3. due \in SUBSET {"code", "password"}
      /\ ("password" \in due => users[u].must) /\ ("code" \in due => users[u].totp)
  OBVIOUS
<1> HIDE DEF due
<1>4. new \in Sessions
  BY <1>2, <1>3 DEF Sessions, Account
<1>5. new.due = due /\ new.must = users[u].must /\ new.pend = users[u].totp
  OBVIOUS
<1>6. Owes(new)
  <2> HIDE DEF new
  <2> QED
    BY <1>3, <1>5 DEF Owes
<1> HIDE DEF new
<1> QED
  BY <1>1, <1>4, <1>6 DEF StoreInv

(* The session made: if a reset came in between, it is one of those it      *)
(* missed.                                                                  *)
LEMMA LoginCreateInv == ASSUME StoreInv, LoginCreate PROVE StoreInv'
<1>1. login \in Sessions /\ Owes(login) /\ SaveFile(sessions \cup {login}) /\ login' = None
      /\ left' = IF login.old THEN left \cup {login.user} ELSE left
  BY DEF StoreInv, LoginCreate
<1>2. left \subseteq left' /\ left' \subseteq Names /\ Marked(login, left')
  BY <1>1 DEF Sessions, Marked, StoreInv
<1>3. Good(sessions, left')
  BY <1>2, GoodSubset DEF StoreInv
<1>4. Good(sessions \cup {login}, left')
  BY <1>1, <1>2, <1>3 DEF Good
<1> QED
  BY <1>1, <1>2, <1>4, SaveFileInv DEF StoreInv

(* What the file keeps of a reset account's sessions is marked.             *)
LEMMA AgedGood ==
    ASSUME NEW S, NEW u \in Names, Good(S, left)
    PROVE  Good(Aged(u, S), left \cup {u})
<1> SUFFICES ASSUME NEW s \in S
             PROVE  LET t == IF s.user = u THEN [s EXCEPT !.old = TRUE] ELSE s IN
                    t \in Sessions /\ Owes(t) /\ Marked(t, left \cup {u})
  BY DEF Good, Aged
<1>1. s \in Sessions /\ Owes(s) /\ Marked(s, left)
  BY DEF Good
<1>2. CASE s.user = u
  <2> DEFINE o == [s EXCEPT !.old = TRUE]
  <2>1. o \in Sessions /\ Owes(o) /\ o.user = u
    BY <1>1, <1>2, SessionEdits
  <2> HIDE DEF o
  <2>2. Marked(o, left \cup {u})
    BY <2>1 DEF Marked
  <2> QED
    BY <1>2, <2>1, <2>2 DEF o
<1>3. CASE s.user # u
  <2>1. Marked(s, left \cup {u})
    BY <1>1 DEF Marked
  <2> QED
    BY <1>1, <1>3, <2>1
<1> QED
  BY <1>2, <1>3

(* RevokeByUsername: no session of the account is left, or it is one the    *)
(* reset is known to have missed.                                           *)
LEMMA RevokeInv == ASSUME StoreInv, NEW u \in Names, RevokeByUsername(u) PROVE StoreInv'
<1>1. sessions' = sessions \ Of(u, sessions)
  BY DEF RevokeByUsername
<1>2. login' = None \/ (login' \in Sessions /\ Owes(login'))
  <2>1. CASE login = None
    <3>1. login.user = "none"
      BY <2>1 DEF None
    <3> QED
      BY <2>1, <3>1, AccountsAssumption DEF RevokeByUsername
  <2>2. CASE login \in Sessions /\ Owes(login)
    <3>1. login' \in {login, [login EXCEPT !.old = TRUE]}
      BY DEF RevokeByUsername
    <3> QED
      BY <2>2, <3>1, SessionEdits
  <2> QED
    BY <2>1, <2>2 DEF StoreInv
<1>3. CASE file' = sessions' /\ left' = left \ {u}
  <2>1. Good(sessions', left')
    BY <1>1, <1>3 DEF StoreInv, Good, Marked, Of
  <2> QED
    BY <1>2, <1>3, <2>1 DEF StoreInv
<1>4. CASE file' = Aged(u, file) /\ left' = left \cup {u}
  <2>1. Good(sessions', left')
    BY <1>1, <1>4, GoodSubset DEF StoreInv
  <2>2. Good(file', left')
    BY <1>4, AgedGood DEF StoreInv
  <2> QED
    BY <1>2, <1>4, <2>1, <2>2 DEF StoreInv
<1> QED
  BY <1>3, <1>4 DEF RevokeByUsername

(* A start takes the sessions from the file.                                *)
LEMMA StopsStore ==
    ASSUME StoreInv, NEW u \in Names, NEW us, StopsBeforeRevoke(u, us)
    PROVE  StoreInv'
<1>1. left' = left \cup {u} /\ sessions' = Aged(u, file) /\ file' = sessions' /\ login' = None
  BY DEF StopsBeforeRevoke, Starts
<1>2. Good(sessions', left')
  BY <1>1, AgedGood DEF StoreInv
<1> QED
  BY <1>1, <1>2 DEF StoreInv

(* A restart reads the session file back, and nobody holds a copy yet.      *)
LEMMA RestartStore == ASSUME StoreInv, Restart PROVE StoreInv'
  BY DEF Restart, Starts, StoreInv

(* Steps within a session.                                                  *)
LEMMA SessionStepInv ==
    ASSUME StoreInv, NEW s \in sessions,
           ChangePassword(s) \/ ChangeUnsaved(s) \/ VerifyCode(s) \/ SessionEnds(s)
    PROVE  StoreInv'
<1>1. s \in Sessions /\ Owes(s) /\ Marked(s, left)
  BY DEF StoreInv, Good
<1>2. CASE ChangePassword(s)
  <2>1. Replace(s, Chose(s)) /\ UNCHANGED login
    BY <1>2 DEF ChangePassword
  <2> QED
    BY <1>1, <2>1, SessionEdits, ReplaceInv
<1>3. CASE ChangeUnsaved(s)
  <2>1. sessions' = (sessions \ {s}) \cup {Chose(s)} /\ file' = sessions'
        /\ UNCHANGED <<left, login>>
    BY <1>3 DEF ChangeUnsaved
  <2>2. Marked(Chose(s), left)
    BY <1>1, SessionEdits DEF Marked
  <2>3. Good(sessions', left)
    BY <1>1, <2>1, <2>2, SessionEdits DEF StoreInv, Good
  <2> QED
    BY <2>1, <2>3 DEF StoreInv
<1>4. CASE VerifyCode(s)
  <2> DEFINE v == [s EXCEPT !.must = FALSE, !.pend = FALSE, !.due = @ \ {"code"}]
  <2>1. Replace(s, v) /\ UNCHANGED login
    BY <1>4 DEF VerifyCode
  <2>2. ~s.must
    BY <1>4 DEF VerifyCode, requireRole
  <2>3. v \in Sessions /\ v.old = s.old /\ v.user = s.user /\ Owes(v)
    BY <1>1, <2>2, SessionEdits
  <2> HIDE DEF v
  <2> QED
    BY <2>1, <2>3, ReplaceInv
<1>5. CASE SessionEnds(s)
  <2>1. sessions' \subseteq sessions /\ UNCHANGED <<left, login>>
    BY <1>5 DEF SessionEnds, SaveFile
  <2>2. file' = sessions' \/ file' \subseteq file
    BY <1>5 DEF SessionEnds, SaveFile
  <2>3. Good(sessions', left)
    BY <2>1, GoodSubset DEF StoreInv
  <2>4. Good(file', left)
    BY <2>2, <2>3, GoodSubset DEF StoreInv
  <2> QED
    BY <2>1, <2>3, <2>4 DEF StoreInv
<1> QED
  BY <1>2, <1>3, <1>4, <1>5

-----------------------------------------------------------------------------
(* Links, temporary passwords, counters.                                    *)

(* The bounded counter of upsets.                                           *)
LEMMA UpsetsBounded ==
    ASSUME upsets \in 0..MaxUpsets, Upset \/ UNCHANGED upsets
    PROVE  upsets' \in 0..MaxUpsets
  BY AccountsAssumption DEF Upset

(* The tables that a start empties, and the phones it does not know of.     *)
LEMMA StartsRest ==
    ASSUME RestInv, NEW us, NEW S, Starts(us, S), Upset \/ UNCHANGED upsets
    PROVE  RestInv'
<1>1. [u \in Names |-> 0] \in [Names -> 0..Limit]
  BY AccountsAssumption
<1> QED
  BY <1>1, UpsetsBounded DEF RestInv, Starts

(* The steps that leave all of them alone but for the counter.              *)
LEMMA OutsideRest ==
    ASSUME RestInv, UNCHANGED outside, Upset \/ UNCHANGED upsets
    PROVE  RestInv'
  BY UpsetsBounded DEF RestInv, outside

(* The steps of the holder.                                                 *)
LEMMA HolderRest ==
    ASSUME RestInv, ConfigInv,
           \/ LoginCreate
           \/ \E u \in Names : LoginCheck(u)
           \/ \E s \in sessions : \/ ChangePassword(s) \/ ChangeUnsaved(s) \/ VerifyCode(s)
                                  \/ Enrol(s) \/ Disable(s) \/ SessionEnds(s)
    PROVE  RestInv'
<1>1. CASE \E s \in sessions : Enrol(s)
  <2>1. PICK s \in sessions : Enrol(s)
    BY <1>1
  <2>2. s.user \in Names
    BY <2>1 DEF Enrol, ConfigInv, Directory
  <2>3. phones' = phones \cup {s.user} /\ UNCHANGED <<links, temps, asks>>
        /\ (Upset \/ UNCHANGED upsets)
    BY <2>1 DEF Enrol
  <2> QED
    BY <2>2, <2>3, UpsetsBounded DEF RestInv
<1>2. CASE \/ LoginCreate
           \/ \E u \in Names : LoginCheck(u)
           \/ \E s \in sessions : \/ ChangePassword(s) \/ ChangeUnsaved(s) \/ VerifyCode(s)
                                  \/ Disable(s) \/ SessionEnds(s)
  <2>1. UNCHANGED outside /\ (Upset \/ UNCHANGED upsets)
    BY <1>2 DEF LoginCreate, LoginCheck, ChangePassword, ChangeUnsaved, VerifyCode, Disable,
                SessionEnds, Replace, SaveFile
  <2> QED
    BY <2>1, OutsideRest
<1> QED
  BY <1>1, <1>2

(* The reset links of the mail.                                             *)
LEMMA LinkRest ==
    ASSUME RestInv, NEW u \in Names,
           \/ \E arrives \in BOOLEAN : AskLink(u, arrives)
           \/ WindowEnds(u) \/ UseLink(u) \/ LinkWasted(u)
    PROVE  RestInv'
<1>1. CASE \E arrives \in BOOLEAN : AskLink(u, arrives)
  <2>1. /\ asks' = [asks EXCEPT ![u] = IF @ < Limit THEN @ + 1 ELSE @]
        /\ links' \subseteq links \cup {u}
        /\ UNCHANGED <<phones, temps>> /\ (Upset \/ UNCHANGED upsets)
    BY <1>1 DEF AskLink
  <2>2. (IF asks[u] < Limit THEN asks[u] + 1 ELSE asks[u]) \in 0..Limit
    BY AccountsAssumption DEF RestInv
  <2>3. asks' \in [Names -> 0..Limit]
    BY <2>1, <2>2 DEF RestInv
  <2> QED
    BY <2>1, <2>3, UpsetsBounded DEF RestInv
<1>2. CASE WindowEnds(u)
  BY <1>2, AccountsAssumption DEF WindowEnds, RestInv
<1>3. CASE UseLink(u)
  <2>1. Upset \/ UNCHANGED upsets
    BY <1>3 DEF UseLink
  <2>2. CASE links' = links \ {u} /\ UNCHANGED <<phones, temps, asks>>
    BY <2>1, <2>2, UpsetsBounded DEF RestInv
  <2>3. CASE StopsBeforeRevoke(u, WithOwn(u))
    BY <2>1, <2>3, StartsRest DEF StopsBeforeRevoke
  <2> QED
    BY <1>3, <2>2, <2>3 DEF UseLink
<1>4. CASE LinkWasted(u)
  BY <1>4, UpsetsBounded DEF LinkWasted, RestInv
<1> QED
  BY <1>1, <1>2, <1>3, <1>4

(* The account form: what it does besides the accounts.                     *)
LEMMA SaveUserFrame ==
    ASSUME NEW orig, NEW u, NEW role, NEW typed, NEW force, SaveUser(orig, u, role, typed, force)
    PROVE  /\ phones' \subseteq Names /\ UNCHANGED <<links, temps, asks>> /\ Upset
           /\ UNCHANGED <<store, login>>
<1>1. Upset /\ UNCHANGED <<store, login, links, temps, asks>>
  BY Zenon DEF SaveUser
<1>2. phones' = {n \in Names : IF n = u THEN orig \in phones ELSE n \in phones}
  BY Zenon DEF SaveUser
<1>3. phones' \subseteq Names
  BY <1>2
<1> QED
  BY <1>1, <1>3

(* The Access panel, lost phones and restarts.                              *)
LEMMA PanelRest ==
    ASSUME RestInv, NEW u \in Names,
           \/ \E orig \in Names, role \in {Admin, Other}, typed, force \in BOOLEAN :
                 SaveUser(orig, u, role, typed, force)
           \/ DeleteUser(u) \/ ResetPassword(u) \/ ViewTemp(u) \/ TempExpires(u)
           \/ Reset2FA(u) \/ LosePhone(u)
           \/ Restart
    PROVE  RestInv'
<1>1. ASSUME NEW orig \in Names, NEW role \in {Admin, Other}, NEW typed \in BOOLEAN,
             NEW force \in BOOLEAN, SaveUser(orig, u, role, typed, force)
      PROVE  RestInv'
  BY <1>1, SaveUserFrame, UpsetsBounded DEF RestInv
<1>7. CASE LosePhone(u)
  BY <1>7, UpsetsBounded DEF LosePhone, RestInv
<1>2. CASE DeleteUser(u)
  BY <1>2, OutsideRest DEF DeleteUser
<1>3. CASE ResetPassword(u)
  <2>1. Upset
    BY <1>3 DEF ResetPassword
  <2>2. CASE temps' = temps \cup {u} /\ UNCHANGED <<phones, links, asks>>
    BY <2>1, <2>2, UpsetsBounded DEF RestInv
  <2>3. CASE StopsBeforeRevoke(u, WithTemp(u))
    BY <2>1, <2>3, StartsRest DEF StopsBeforeRevoke
  <2> QED
    BY <1>3, <2>2, <2>3 DEF ResetPassword
<1>4. CASE ViewTemp(u) \/ TempExpires(u)
  <2>1. temps' \subseteq temps /\ UNCHANGED <<phones, links, asks>> /\ (Upset \/ UNCHANGED upsets)
    BY <1>4 DEF ViewTemp, TempExpires
  <2> QED
    BY <2>1, UpsetsBounded DEF RestInv
<1>5. CASE Reset2FA(u)
  <2>1. Upset
    BY <1>5 DEF Reset2FA
  <2>2. CASE UNCHANGED outside
    BY <2>1, <2>2, OutsideRest
  <2>3. CASE StopsBeforeRevoke(u, Without2FA(u))
    BY <2>1, <2>3, StartsRest DEF StopsBeforeRevoke
  <2> QED
    BY <1>5, <2>2, <2>3 DEF Reset2FA
<1>6. CASE Restart
  BY <1>6, StartsRest DEF Restart
<1> QED
  BY <1>1, <1>2, <1>3, <1>4, <1>5, <1>6, <1>7

-----------------------------------------------------------------------------
(* The first config: its founder is an admin, and nobody is logged in.      *)
LEMMA InitInv == Init => IInv
<1> SUFFICES ASSUME Init PROVE IInv
  OBVIOUS
<1> DEFINE first(u) == [role |-> IF u = Founder THEN Admin ELSE Other,
                        pw |-> "own", must |-> FALSE, totp |-> FALSE]
<1>1. users = [u \in Names |-> first(u)] /\ kept = users
  BY DEF Init
<1>2. \A u \in Names : first(u) \in Account
  BY DEF Account
<1>3. first(Founder).role = Admin
  OBVIOUS
<1> HIDE DEF first
<1>4. ConfigInv
  BY <1>1, <1>2, <1>3, AccountsAssumption DEF ConfigInv, Directory, ValidUsers, HasAdmin
<1>5. StoreInv
  <2>1. sessions = {} /\ file = {} /\ left = {} /\ login = None
    BY DEF Init
  <2> QED
    BY <2>1 DEF StoreInv, Good
<1>6. RestInv
  <2>1. phones = {} /\ links = {} /\ temps = {} /\ asks = [u \in Names |-> 0] /\ upsets = 0
    BY DEF Init
  <2> QED
    BY <2>1, AccountsAssumption DEF RestInv
<1> QED
  BY <1>4, <1>5, <1>6 DEF IInv

(* The accounts through every step.                                         *)
LEMMA ConfigStep == ASSUME IInv, Next PROVE ConfigInv'
<1> USE DEF IInv
<1>1. CASE UNCHANGED <<users, kept>>
  BY <1>1 DEF ConfigInv
<1>2. CASE Restart
  BY <1>2 DEF Restart, Starts, ConfigInv
<1>3. ASSUME NEW s \in sessions, ChangePassword(s) \/ Enrol(s) \/ Disable(s)
      PROVE  ConfigInv'
  <2>1. s.user \in DOMAIN users
    BY <1>3 DEF ChangePassword, Enrol, Disable, HasPhone
  <2>2. Directory(WithOwn(s.user)) /\ Directory(Without2FA(s.user))
        /\ Directory(Edited(s.user, [users[s.user] EXCEPT !.totp = TRUE]))
    BY <2>1, AccountEdits DEF ConfigInv
  <2> QED
    BY <1>3, <2>2, SavedInv DEF ChangePassword, Enrol, Disable, Without2FA
<1>4. ASSUME NEW s \in sessions, ChangeUnsaved(s)
      PROVE  ConfigInv'
  BY <1>4, UnsavedConfig
<1>5. ASSUME NEW u \in Names, UseLink(u) \/ ResetPassword(u) \/ Reset2FA(u)
      PROVE  ConfigInv'
  <2>1. u \in DOMAIN users
    BY <1>5 DEF UseLink, ResetPassword, Reset2FA
  <2>2. Directory(WithOwn(u)) /\ Directory(WithTemp(u)) /\ Directory(Without2FA(u))
    BY <2>1, AccountEdits DEF ConfigInv
  <2>3. PICK us \in {WithOwn(u), WithTemp(u), Without2FA(u)} :
             Saved(us) \/ StopsBeforeRevoke(u, us)
    BY <1>5 DEF UseLink, ResetPassword, Reset2FA
  <2> QED
    BY <2>2, <2>3, SavedInv, StopsConfig
<1>6. ASSUME NEW u \in Names, ViewTemp(u)
      PROVE  ConfigInv'
  BY <1>6, ViewTempConfig
<1>7. ASSUME NEW u \in Names, DeleteUser(u)
      PROVE  ConfigInv'
  BY <1>7, WithoutDirectory, SavedInv DEF DeleteUser, ConfigInv
<1>8. ASSUME NEW u \in Names, NEW orig \in Names, NEW role \in {Admin, Other},
             NEW typed \in BOOLEAN, NEW force \in BOOLEAN, SaveUser(orig, u, role, typed, force)
      PROVE  ConfigInv'
  <2> DEFINE new == [role |-> role,
                     pw |-> IF typed THEN "told" ELSE users[orig].pw,
                     must |-> IF typed THEN force ELSE users[orig].must,
                     totp |-> orig \in DOMAIN users /\ users[orig].totp]
             both == Edited(u, new)
             renamed == IF orig = u THEN both ELSE Without(both, orig)
  <2>1. typed \/ orig \in DOMAIN users
    BY <1>8 DEF SaveUser
  <2>2. orig \in DOMAIN users => users[orig] \in Account
    BY DEF ConfigInv, Directory
  <2>3. new \in Account
    BY <2>1, <2>2 DEF Account
  <2>4. Saved(IF ValidUsers(renamed) THEN renamed ELSE both)
    BY <1>8 DEF SaveUser
  <2> HIDE DEF new
  <2>5. Directory(both)
    BY <2>3, EditedDirectory DEF ConfigInv
  <2> HIDE DEF both
  <2>6. Directory(renamed)
    BY <2>5, WithoutDirectory
  <2> HIDE DEF renamed
  <2> QED
    BY <2>4, <2>5, <2>6, SavedInv
<1> QED
  BY <1>1, <1>2, <1>3, <1>4, <1>5, <1>6, <1>7, <1>8
     DEF Next, LoginCreate, VerifyCode, SessionEnds, LoginCheck, WindowEnds, LinkWasted, AskLink,
         TempExpires, LosePhone, config

(* The sessions through every step.                                         *)
LEMMA StoreStep == ASSUME IInv, Next PROVE StoreInv'
<1> USE DEF IInv
<1>1. CASE UNCHANGED <<store, login>>
  BY <1>1 DEF StoreInv, store
<1>2. CASE LoginCreate \/ Restart
  BY <1>2, LoginCreateInv, RestartStore
<1>3. ASSUME NEW s \in sessions,
             ChangePassword(s) \/ ChangeUnsaved(s) \/ VerifyCode(s) \/ SessionEnds(s)
      PROVE  StoreInv'
  BY <1>3, SessionStepInv
<1>4. ASSUME NEW u \in Names, LoginCheck(u)
      PROVE  StoreInv'
  BY <1>4, LoginCheckInv
<1>5. ASSUME NEW u \in Names, UseLink(u) \/ ResetPassword(u) \/ Reset2FA(u)
      PROVE  StoreInv'
  <2>1. RevokeByUsername(u) \/ \E us \in {WithOwn(u), WithTemp(u), Without2FA(u)} :
                                  StopsBeforeRevoke(u, us)
    BY <1>5 DEF UseLink, ResetPassword, Reset2FA
  <2> QED
    BY <2>1, RevokeInv, StopsStore
<1>6. ASSUME NEW u \in Names, NEW orig, NEW role, NEW typed, NEW force,
             SaveUser(orig, u, role, typed, force)
      PROVE  StoreInv'
  BY <1>1, <1>6, SaveUserFrame
<1>7. ASSUME NEW s \in sessions, Enrol(s) \/ Disable(s)
      PROVE  StoreInv'
  BY <1>1, <1>7 DEF Enrol, Disable
<1>8. ASSUME NEW u \in Names,
             \/ WindowEnds(u) \/ LinkWasted(u) \/ \E arrives \in BOOLEAN : AskLink(u, arrives)
             \/ ViewTemp(u) \/ TempExpires(u) \/ LosePhone(u) \/ DeleteUser(u)
      PROVE  StoreInv'
  BY <1>1, <1>8
     DEF WindowEnds, LinkWasted, AskLink, ViewTemp, TempExpires, LosePhone, DeleteUser
<1> QED
  BY <1>2, <1>3, <1>4, <1>5, <1>6, <1>7, <1>8 DEF Next

(* Every step.                                                              *)
LEMMA StepInv == IInv /\ [Next]_vars => IInv'
<1> SUFFICES ASSUME IInv, [Next]_vars PROVE IInv'
  OBVIOUS
<1>1. CASE UNCHANGED vars
  BY <1>1 DEF IInv, ConfigInv, StoreInv, RestInv, vars, config, store, outside
<1>2. CASE Next
  <2>1. RestInv'
    BY <1>2, HolderRest, LinkRest, PanelRest, AccountsAssumption DEF Next, IInv
  <2> QED
    BY <1>2, <2>1, ConfigStep, StoreStep DEF IInv
<1> QED
  BY <1>1, <1>2

(* The inductive invariant holds in every reachable state, whatever logins, *)
(* resets, edits, failed saves and restarts came before.                    *)
THEOREM AlwaysIInv == Spec => []IInv
  BY InitInv, StepInv, PTL DEF Spec

-----------------------------------------------------------------------------
(* Types, and through every reset, edit, rename, deletion and failed save   *)
(* there is an admin among the accounts or no account at all, live and for  *)
(* the next start (validateUsers).                                          *)
THEOREM AdminOrNobody == Spec => []AccountsInv
<1>1. IInv => AccountsInv
  BY DEF IInv, ConfigInv, StoreInv, RestInv, Good, ValidUsers, AccountsInv
<1> QED
  BY <1>1, AlwaysIInv, PTL

(* An edited directory has the edited account.                              *)
LEMMA SavedKeepsOne ==
    ASSUME NEW u, NEW account, Saved(Edited(u, account)) \/ users' = Edited(u, account)
    PROVE  u \in DOMAIN users'
  BY DEF Saved, Edited

(* Only a deletion leaves no account.                                       *)
LEMMA EmptiedByDelete ==
    ASSUME IInv, Next, DOMAIN users # {}, DOMAIN users' = {}
    PROVE  \E u \in Names : DeleteUser(u)
<1> SUFFICES ASSUME \A u \in Names : ~DeleteUser(u) PROVE FALSE
  OBVIOUS
<1>1. CASE UNCHANGED users
  BY <1>1
<1>2. CASE Restart
  BY <1>2 DEF Restart, Starts, IInv, ConfigInv
<1>3. ASSUME NEW s \in sessions,
             ChangePassword(s) \/ ChangeUnsaved(s) \/ Enrol(s) \/ Disable(s)
      PROVE  FALSE
  <2>1. s.user \in DOMAIN users'
    BY <1>3, SavedKeepsOne
       DEF ChangePassword, ChangeUnsaved, Enrol, Disable, WithOwn
  <2> QED
    BY <2>1
<1>4. ASSUME NEW u \in Names, UseLink(u) \/ ResetPassword(u) \/ Reset2FA(u)
      PROVE  FALSE
  <2>1. PICK us \in {WithOwn(u), WithTemp(u), Without2FA(u)} : users' = us
    BY <1>4 DEF UseLink, ResetPassword, Reset2FA, StopsBeforeRevoke, Starts, Saved
  <2>2. u \in DOMAIN users'
    BY <2>1, SavedKeepsOne DEF WithOwn, WithTemp, Without2FA
  <2> QED
    BY <2>2
<1>5. ASSUME NEW u \in Names, ViewTemp(u)
      PROVE  FALSE
  BY <1>5 DEF ViewTemp
<1>6. ASSUME NEW u \in Names, NEW orig \in Names, NEW role \in {Admin, Other},
             NEW typed \in BOOLEAN, NEW force \in BOOLEAN, SaveUser(orig, u, role, typed, force)
      PROVE  FALSE
  <2> DEFINE new == [role |-> role,
                     pw |-> IF typed THEN "told" ELSE users[orig].pw,
                     must |-> IF typed THEN force ELSE users[orig].must,
                     totp |-> orig \in DOMAIN users /\ users[orig].totp]
             both == Edited(u, new)
             renamed == IF orig = u THEN both ELSE Without(both, orig)
  <2>1. Saved(IF ValidUsers(renamed) THEN renamed ELSE both)
    BY <1>6 DEF SaveUser
  <2> HIDE DEF new
  <2>2. u \in DOMAIN both /\ u \in DOMAIN renamed
    BY DEF Edited, Without, Restrict
  <2> HIDE DEF both, renamed
  <2>3. users' = renamed \/ users' = both
    BY <2>1 DEF Saved
  <2> QED
    BY <2>2, <2>3
<1> QED
  BY <1>1, <1>2, <1>3, <1>4, <1>5, <1>6
     DEF Next, LoginCreate, VerifyCode, SessionEnds, LoginCheck, WindowEnds, LinkWasted, AskLink,
         TempExpires, LosePhone, config

(* The last admin goes only by an admin's session that has outlived its own *)
(* account's name (admin.go:411, config.go:638 and 676).                    *)
THEOREM LastAdminOutlived == Spec => LastAdminStays
<1> DEFINE Outlived == \E s \in sessions : s.role = Admin /\ Home(s) /\ s.user \notin DOMAIN users
           Goes == HasAdmin(users) /\ ~HasAdmin(users)'
<1>1. IInv /\ [Next]_vars => [Goes => Outlived]_vars
  <2> SUFFICES ASSUME IInv, Next, HasAdmin(users), ~HasAdmin(users') PROVE Outlived
    BY DEF vars, config
  <2>1. DOMAIN users # {} /\ DOMAIN users' = {}
    <3>1. IInv'
      BY StepInv
    <3> QED
      BY <3>1 DEF IInv, ConfigInv, ValidUsers, HasAdmin
  <2>2. PICK u \in Names : DeleteUser(u)
    BY <2>1, EmptiedByDelete
  <2>3. DOMAIN users \subseteq {u}
    BY <2>1, <2>2 DEF DeleteUser, Saved, Without, Restrict
  <2> QED
    BY <2>2, <2>3 DEF DeleteUser, AdminOtherThan
<1> QED
  BY <1>1, AlwaysIInv, PTL DEF Spec, LastAdminStays

(* A session that is served a home page owes nothing of its login: what it  *)
(* owes, requireRole still asks for.                                        *)
THEOREM HomeMeansProved == Spec => []FullMeansProved
<1>1. IInv => FullMeansProved
  <2> SUFFICES ASSUME IInv, NEW s \in sessions, Home(s) PROVE s.due = {}
    BY DEF FullMeansProved
  <2>1. s \in Sessions /\ Owes(s)
    BY DEF IInv, StoreInv, Good
  <2>2. ~s.must /\ ~s.pend
    BY DEF Home, requireRole
  <2>3. s.due \subseteq {"code", "password"} /\ "password" \notin s.due /\ "code" \notin s.due
    BY <2>1, <2>2 DEF Sessions, Owes
  <2> QED
    BY <2>3
<1> QED
  BY <1>1, AlwaysIInv, PTL

(* After a reset no session lives whose password was checked before it, but *)
(* for those in `left`.                                                     *)
THEOREM ResetsEndSessions == Spec => []ResetEndsSessions
<1>1. IInv => ResetEndsSessions
  BY DEF IInv, StoreInv, Good, Marked, ResetEndsSessions
<1> QED
  BY <1>1, AlwaysIInv, PTL
=============================================================================
