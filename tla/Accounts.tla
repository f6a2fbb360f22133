------------------------------ MODULE Accounts ------------------------------
(***************************************************************************)
(* Accounts and their sessions: AuthService (register, login, Google,      *)
(* refresh, logout, password reset, verification of the e-mail address)    *)
(* and the operations of UserService on one's own account.                 *)
(*                                                                         *)
(* All accounts are created for one e-mail address, which users.email      *)
(* keeps unique; deletion gives it up.  A session is a row of              *)
(* refresh_tokens.  Every await is a step, and save writes back whatever   *)
(* column another handler changed after the row was loaded.  A handler     *)
(* that dies half way is one that takes no further step: nothing is        *)
(* assumed to take one, so that needs no action.                           *)
(***************************************************************************)
EXTENDS Naturals, FiniteSets, Persistence

CONSTANTS
  Accounts,
  Passwords,
  Sessions,      \* bound: the refresh tokens that are ever inserted
  Mails,         \* bound: the reset and verification tokens that are ever made
  Requests,      \* the slots in which HTTP requests are served
  None,          \* a row, a column or a token that is not there
  MaxStale       \* bound: no handler starts on an account with that many stale saves

ASSUME BoundsAssumption == MaxStale \in Nat

VARIABLES
  row,           \* the users table
  wallets,       \* the accounts that have a wallet
  session,       \* refresh_tokens: whose it is and whether it is still live
  mailed,        \* tokens put on the e-mail queue
  handler,       \* what the requests are doing
  signIns,       \* ghost: how often a sign-in got its session, per account
  spent,         \* ghost: how often a token was used
  stale,         \* ghost: per account, saves that landed after it had changed
  raced          \* ghost: accounts with a session revoked while it was refreshed

vars == <<row, wallets, session, mailed, handler, signIns, spent, stale, raced>>
Tables == <<row, wallets, session, mailed, signIns, spent, stale, raced>>

-----------------------------------------------------------------------------
Account ==
  [email: {"address", "deleted"}, password: Passwords \cup {None}, google: BOOLEAN,
   reset: Mails \cup {None}, verify: Mails \cup {None}, verified: BOOLEAN, deleted: BOOLEAN]

RefreshToken == [account: Accounts, live: BOOLEAN]

ASSUME NoneAssumption ==
  None \notin Passwords \cup Sessions \cup Mails \cup Accounts \cup Account \cup RefreshToken

\* Defective variant: a column without its default.
NewAccountUnset(password, google) ==
  [email |-> "address", password |-> password, google |-> google,
   reset |-> None, verify |-> None, verified |-> None, deleted |-> FALSE]

NewAccount(password, google) ==
  [email |-> "address", password |-> password, google |-> google,
   reset |-> None, verify |-> None, verified |-> FALSE, deleted |-> FALSE]

Exists(a) == row[a] # None
Active(a) == Exists(a) /\ ~row[a].deleted
HasAddress(a) == Exists(a) /\ row[a].email = "address"

(***************************************************************************)
(* lookup    Google's id was not found, the address is to be looked up     *)
(* insert    no account was found, one is to be inserted                   *)
(* ready     the entity is to be saved                                     *)
(* selected  save has compared it with the stored row                      *)
(* wallet    the account is inserted, its wallet is not                    *)
(* revoke    one session, or all sessions, are to be revoked               *)
(* session   a session is to be inserted                                   *)
(* mail      a token is saved, the e-mail is to be queued                  *)
(***************************************************************************)
Phase == {"idle", "lookup", "insert", "ready", "selected", "wallet", "revoke", "session", "mail"}
Op == {"register", "login", "google", "refresh", "forgot", "reset", "verify", "confirm",
       "password", "delete", "profile"}

Idle == [phase |-> "idle", op |-> "login", account |-> None, loaded |-> None,
         entity |-> None, dirty |-> {}, token |-> None]

Waiting(r) == handler[r].phase = "idle"
Assign(r, state) == handler' = [handler EXCEPT ![r] = state]
Step(r, phase) == Assign(r, [handler[r] EXCEPT !.phase = phase])

\* All that a handler still needs once its account is written.
Goes(phase, a) == [Idle EXCEPT !.phase = phase, !.account = a]

\* A handler that has found an account and changed it in memory.
Load(r, op, a, entity, token) ==
  /\ Waiting(r) /\ stale[a] < MaxStale
  /\ Assign(r, [Idle EXCEPT !.phase = "ready", !.op = op, !.account = a,
                            !.loaded = row[a], !.entity = entity, !.token = token])
  /\ UNCHANGED Tables

\* Tokens are random: a new one is in no row and no other handler has it.
Fresh(m) ==
  /\ m \notin mailed /\ spent[m] = 0
  /\ \A a \in Accounts : Exists(a) => m \notin {row[a].reset, row[a].verify}
  /\ \A r \in Requests : handler[r].token # m

-----------------------------------------------------------------------------
\* Signing up and in.

\* POST auth/register: no account has the address.
Register(r) ==
  \E password \in Passwords :
    /\ Waiting(r) /\ ~\E a \in Accounts : HasAddress(a)
    /\ Assign(r, [Idle EXCEPT !.phase = "insert", !.op = "register",
                              !.entity = NewAccount(password, FALSE)])
    /\ UNCHANGED Tables

\* POST auth/login: the account is found and the password is right.
Login(r) ==
  \E a \in Accounts :
    /\ Waiting(r) /\ Active(a) /\ HasAddress(a) /\ row[a].password # None
    /\ Assign(r, Goes("session", a))
    /\ UNCHANGED Tables

\* POST auth/google: an account with Google's id, or else look for the address.
GoogleAuth(r) ==
  /\ Waiting(r)
  /\ \/ \E a \in Accounts :
          /\ Exists(a) /\ row[a].google
          /\ Assign(r, Goes("session", a))
     \/ /\ ~\E a \in Accounts : Exists(a) /\ row[a].google
        /\ Assign(r, [Idle EXCEPT !.phase = "lookup", !.op = "google"])
  /\ UNCHANGED Tables

\* The account with the address is linked, or a new one is made.
LookUp(r) ==
  /\ handler[r].phase = "lookup"
  /\ \/ \E a \in Accounts :
          /\ Active(a) /\ HasAddress(a)
          /\ Assign(r, [handler[r] EXCEPT !.phase = "ready", !.account = a, !.loaded = row[a],
                                          !.entity = [row[a] EXCEPT !.google = TRUE]])
     \/ /\ ~\E a \in Accounts : Active(a) /\ HasAddress(a)
        /\ Assign(r, [handler[r] EXCEPT !.phase = "insert",
                                        !.entity = NewAccount(None, TRUE)])
  /\ UNCHANGED Tables

\* Defective variant: the columns are not unique.
InsertAccountAnyway(r) ==
  \E a \in Accounts :
    /\ handler[r].phase = "insert" /\ ~Exists(a)
    /\ row' = [row EXCEPT ![a] = handler[r].entity]
    /\ Assign(r, Goes("wallet", a))
    /\ UNCHANGED <<wallets, session, mailed, signIns, spent, stale, raced>>

\* The insert of an account: it throws when the address or Google's id is taken.
InsertAccount(r) ==
  LET x == handler[r]
      taken == \E a \in Accounts : HasAddress(a) \/ (Exists(a) /\ row[a].google /\ x.entity.google)
  IN /\ x.phase = "insert"
     /\ \/ taken /\ Assign(r, Idle) /\ UNCHANGED row
        \/ \E a \in Accounts :
             /\ ~taken /\ ~Exists(a)
             /\ row' = [row EXCEPT ![a] = x.entity]
             /\ Assign(r, Goes("wallet", a))
     /\ UNCHANGED <<wallets, session, mailed, signIns, spent, stale, raced>>

\* The wallet of a new account.
InsertWallet(r) ==
  /\ handler[r].phase = "wallet"
  /\ wallets' = wallets \cup {handler[r].account}
  /\ Step(r, "session")
  /\ UNCHANGED <<row, session, mailed, signIns, spent, stale, raced>>

\* generateTokens: a session is inserted.
InsertSession(r) ==
  \E s \in Sessions :
    LET x == handler[r] IN
    /\ x.phase = "session" /\ session[s] = None
    /\ session' = [session EXCEPT ![s] = [account |-> x.account, live |-> TRUE]]
    /\ signIns' = IF x.op = "refresh" THEN signIns
                  ELSE [signIns EXCEPT ![x.account] = @ + 1]
    /\ Assign(r, Idle)
    /\ UNCHANGED <<row, wallets, mailed, spent, stale, raced>>

-----------------------------------------------------------------------------
\* Sessions.

\* POST auth/refresh: the session is found live; it is to be revoked.
Refresh(r) ==
  \E s \in Sessions :
    /\ Waiting(r) /\ session[s] # None /\ session[s].live
    /\ Assign(r, [Idle EXCEPT !.phase = "revoke", !.op = "refresh",
                              !.account = session[s].account, !.token = s])
    /\ UNCHANGED Tables

\* Defective variant: the old session stays as it is.
RevokeNone(r) ==
  /\ handler[r].phase = "revoke" /\ handler[r].op = "refresh"
  /\ Step(r, "session")
  /\ UNCHANGED <<row, wallets, session, mailed, signIns, spent, stale, raced>>

\* The old session is revoked, whether or not it still was live.
RevokeOne(r) ==
  LET x == handler[r] IN
  /\ x.phase = "revoke" /\ x.op = "refresh"
  /\ session' = [session EXCEPT ![x.token].live = FALSE]
  /\ raced' = IF session[x.token].live THEN raced ELSE raced \cup {x.account}
  /\ Assign(r, [x EXCEPT !.phase = "session", !.token = None])
  /\ UNCHANGED <<row, wallets, mailed, signIns, spent, stale>>

\* Every session of an account is revoked.
AllRevoked(a) ==
  [s \in Sessions |-> IF session[s] # None /\ session[s].account = a
                      THEN [session[s] EXCEPT !.live = FALSE] ELSE session[s]]

\* POST auth/logout.
Logout(a) ==
  /\ Exists(a)
  /\ session' = AllRevoked(a)
  /\ UNCHANGED <<row, wallets, mailed, handler, signIns, spent, stale, raced>>

\* What follows a changed password and a deleted account.
RevokeAll(r) ==
  /\ handler[r].phase = "revoke" /\ handler[r].op # "refresh"
  /\ session' = AllRevoked(handler[r].account)
  /\ Assign(r, Idle)
  /\ UNCHANGED <<row, wallets, mailed, signIns, spent, stale, raced>>

-----------------------------------------------------------------------------
\* One's own account.

\* POST auth/forgot-password
ForgotPassword(r) ==
  \E a \in Accounts, m \in Mails :
    /\ Active(a) /\ HasAddress(a) /\ Fresh(m)
    /\ Load(r, "forgot", a, [row[a] EXCEPT !.reset = m], m)

\* Defective variant: the token is not cleared.
ResetPasswordAgain(r) ==
  \E a \in Accounts, password \in Passwords :
    /\ Active(a) /\ row[a].reset \in mailed
    /\ Load(r, "reset", a, [row[a] EXCEPT !.password = password], row[a].reset)

\* POST auth/reset-password with a token that was mailed and has not expired.
ResetPassword(r) ==
  \E a \in Accounts, password \in Passwords :
    /\ Active(a) /\ row[a].reset \in mailed
    /\ Load(r, "reset", a, [row[a] EXCEPT !.password = password, !.reset = None], row[a].reset)

\* POST auth/verify-email; the account is found also when it is deleted.
VerifyEmailRequest(r) ==
  \E a \in Accounts, m \in Mails :
    /\ Exists(a) /\ ~row[a].verified /\ Fresh(m)
    /\ Load(r, "verify", a, [row[a] EXCEPT !.verify = m], m)

\* POST auth/verify-email/confirm
VerifyEmailConfirm(r) ==
  \E a \in Accounts :
    /\ Active(a) /\ row[a].verify \in mailed
    /\ Load(r, "confirm", a, [row[a] EXCEPT !.verified = TRUE, !.verify = None], row[a].verify)

\* PUT users/me/password with the current password and another one.
ChangePassword(r) ==
  \E a \in Accounts, password \in Passwords :
    /\ Active(a) /\ row[a].password \notin {None, password}
    /\ Load(r, "password", a, [row[a] EXCEPT !.password = password], None)

\* Defective variant: the reset token is left behind.
DeleteMeButToken(r) ==
  \E a \in Accounts :
    /\ Active(a)
    /\ Load(r, "delete", a,
            [row[a] EXCEPT !.email = "deleted", !.password = None, !.google = FALSE,
                           !.verify = None, !.deleted = TRUE], None)

\* DELETE users/me
DeleteMe(r) ==
  \E a \in Accounts :
    /\ Active(a)
    /\ Load(r, "delete", a,
            [row[a] EXCEPT !.email = "deleted", !.password = None, !.google = FALSE,
                           !.reset = None, !.verify = None, !.deleted = TRUE], None)

\* PUT users/me: changes no column that matters here, but saves all the same.
UpdateMe(r) ==
  \E a \in Accounts : Active(a) /\ Load(r, "profile", a, row[a], None)

\* First statement of save: compare the entity with what is stored now.
SaveSelect(r) ==
  LET x == handler[r] IN
  /\ x.phase = "ready"
  /\ Assign(r, [x EXCEPT !.phase = "selected", !.dirty = DirtyColumns(x.entity, row[x.account])])
  /\ UNCHANGED Tables

\* What follows the save.
AfterSave(op) ==
  CASE op \in {"forgot", "verify"} -> "mail"
    [] op \in {"reset", "password", "delete"} -> "revoke"
    [] op = "google" -> "session"
    [] OTHER -> "idle"

\* Second statement of save.  An address that was taken meanwhile makes it throw.
SaveUpdate(r) ==
  LET x == handler[r]
      a == x.account
      saved == SavedColumns(row[a], x.entity, x.dirty)
      clash == \E b \in Accounts \ {a} :
                 /\ Exists(b)
                 /\ \/ saved.email = "address" /\ row[b].email = "address"
                    \/ saved.google /\ row[b].google
  IN /\ x.phase = "selected"
     /\ \/ clash /\ Assign(r, Idle) /\ UNCHANGED <<row, spent, stale>>
        \/ /\ ~clash
           /\ row' = [row EXCEPT ![a] = saved]
           /\ stale' = IF row[a] = x.loaded THEN stale ELSE [stale EXCEPT ![a] = @ + 1]
           /\ spent' = IF x.op \in {"reset", "confirm"} THEN [spent EXCEPT ![x.token] = @ + 1]
                       ELSE spent
           /\ Assign(r, CASE AfterSave(x.op) = "idle" -> Idle
                          [] AfterSave(x.op) = "mail" -> [Goes("mail", a) EXCEPT !.token = x.token]
                          [] OTHER -> Goes(AfterSave(x.op), a))
     /\ UNCHANGED <<wallets, session, mailed, signIns, raced>>

\* The e-mail with the token is queued.
QueueMail(r) ==
  /\ handler[r].phase = "mail"
  /\ mailed' = mailed \cup {handler[r].token}
  /\ Assign(r, Idle)
  /\ UNCHANGED <<row, wallets, session, signIns, spent, stale, raced>>

-----------------------------------------------------------------------------
Init ==
  /\ row = [a \in Accounts |-> None]
  /\ wallets = {}
  /\ session = [s \in Sessions |-> None]
  /\ mailed = {}
  /\ handler = [r \in Requests |-> Idle]
  /\ signIns = [a \in Accounts |-> 0]
  /\ spent = [m \in Mails |-> 0]
  /\ stale = [a \in Accounts |-> 0]
  /\ raced = {}

SignStep(r) == Register(r) \/ Login(r) \/ GoogleAuth(r) \/ Refresh(r)

AccountStep(r) ==
  \/ ForgotPassword(r)
  \/ ResetPassword(r)
  \/ VerifyEmailRequest(r)
  \/ VerifyEmailConfirm(r)
  \/ ChangePassword(r)
  \/ DeleteMe(r)
  \/ UpdateMe(r)

HandlerStep(r) ==
  \/ LookUp(r)
  \/ InsertAccount(r)
  \/ InsertWallet(r)
  \/ InsertSession(r)
  \/ RevokeOne(r)
  \/ RevokeAll(r)
  \/ SaveSelect(r)
  \/ SaveUpdate(r)
  \/ QueueMail(r)

Next ==
  \/ \E r \in Requests : SignStep(r) \/ AccountStep(r) \/ HandlerStep(r)
  \/ \E a \in Accounts : Logout(a)

Spec == Init /\ [][Next]_vars

TypeOK ==
  /\ \A a \in Accounts : row[a] \in Account \cup {None}
  /\ wallets \subseteq Accounts
  /\ \A s \in Sessions : session[s] \in RefreshToken \cup {None}
  /\ mailed \subseteq Mails
  /\ \A r \in Requests : handler[r].phase \in Phase /\ handler[r].op \in Op
  /\ signIns \in [Accounts -> Nat]
  /\ spent \in [Mails -> Nat]
  /\ stale \in [Accounts -> Nat]
  /\ raced \subseteq Accounts

-----------------------------------------------------------------------------
(***************************************************************************)
(* Properties.                                                             *)
(***************************************************************************)
\* The accounts on which no save ever landed after they had changed.
Intact == {a \in Accounts : stale[a] = 0}

\* However registrations, Google sign-ins and deletions overlap, one account at
\* most has the address, and every account has its wallet or the handler that
\* made the account has yet to insert it.
AccountsComplete ==
  /\ Cardinality({a \in Accounts : HasAddress(a)}) <= 1
  /\ \A a \in Accounts : Exists(a) =>
       a \in wallets \/ \E r \in Requests : handler[r].phase = "wallet" /\ handler[r].account = a

\* A token that was mailed works once: it resets one password or confirms one
\* address, unless it is used while a stale save lands on the account.
TokensWorkOnce ==
  (\A a \in Accounts : a \in Intact) => \A m \in Mails : spent[m] <= 1

\* Refreshing replaces a session and never multiplies it: an account has no more
\* live sessions than there were sign-ins, unless a session was revoked while a
\* request was refreshing it.
RefreshReplaces ==
  \A a \in Accounts \ raced :
    Cardinality({s \in Sessions : session[s] # None /\ session[s].account = a /\ session[s].live})
      <= signIns[a]

\* Deletion is final: until a stale save lands on it, an account that was deleted
\* keeps no address, no password, no link to Google and no reset token.
DeletionIsFinal ==
  [][\A a \in Accounts :
       (a \in Intact' /\ Exists(a) /\ row[a].deleted) =>
         /\ row'[a].deleted /\ row'[a].email = "deleted"
         /\ row'[a].password = None /\ ~row'[a].google /\ row'[a].reset = None]_vars

=============================================================================
