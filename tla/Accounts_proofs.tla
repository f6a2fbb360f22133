--------------------------- MODULE Accounts_proofs ---------------------------
(***************************************************************************)
(* Theorems about Accounts: for any accounts, passwords, sessions and      *)
(* tokens and any number of concurrent requests, the tables keep their     *)
(* types, a mailed token works once, a refresh replaces a session, a       *)
(* deleted account stays deleted, one account at most has the address, and *)
(* an account that exists has its wallet, or the handler that inserted the *)
(* account has yet to insert the wallet.                                   *)
(*                                                                         *)
(* All rest on SessionInv (AccountsInvariants) and on TablesMove: whatever *)
(* step is taken, a row that no stale save hits only goes forward, so that *)
(* what a handler loaded from it is its present or its past.  The last two *)
(* rest on AccountsInv besides.                                            *)
(***************************************************************************)
EXTENDS AccountsInvariants, FiniteSetTheorems, TLAPS

(***************************************************************************)
(* How the tables move under a handler: rows stay, and a row that no stale *)
(* save hit only goes forward.                                             *)
(***************************************************************************)
RowMoves(a) ==
  /\ row[a].deleted => row'[a].deleted
  /\ ~row'[a].deleted => /\ row[a].password # None => row'[a].password # None
                         /\ row[a].google => row'[a].google
  /\ \A c \in TokenColumns :
       row'[a][c] \in {row[a][c], None} \/ ~Minted(row'[a][c])

TablesMove ==
  /\ \A a \in Accounts : Exists(a) => row'[a] # None
  /\ Intact' \subseteq Intact
  /\ \A a \in Intact' : Exists(a) => RowMoves(a)
  /\ \A s \in Sessions :
       session[s] # None => session'[s] # None /\ session'[s].account = session[s].account
  /\ \A m : Minted(m) => Minted(m)'

\* What a handler knows stays good while the tables move.
LEMMA SoundStays ==
  ASSUME TablesMove, NEW x, Sound(x), UpToDate(x)
  PROVE  Sound(x)' /\ UpToDate(x)'
<1>1. Sound(x)'
  <2>1. x.phase \in Saving => \A c \in TokenColumns : MintedOrNone(x.loaded[c])'
    BY DEF Sound, TablesMove, MintedOrNone
  <2>2. QED
    BY <2>1 DEF Sound, TablesMove, IsState, Edited, Closed, Exists
<1>2. UpToDate(x)'
  <2> DEFINE a == x.account
  <2> SUFFICES ASSUME x.phase \in Saving, a \in Intact'
               PROVE  UpToDate(x)'
    BY DEF UpToDate
  <2>1. a \in Intact /\ Exists(a) /\ RowMoves(a)
    BY DEF Sound, TablesMove, Exists
  <2>2. ASSUME x.phase = "selected", NEW c \in TokenColumns,
               x.entity[c] = None, x.loaded[c] # None, row'[a][c] = x.loaded[c]
        PROVE  c \in x.dirty
    <3>1. Minted(x.loaded[c])
      BY <2>2 DEF Sound, MintedOrNone
    <3>2. row[a][c] = x.loaded[c]
      BY <2>1, <2>2, <3>1 DEF RowMoves
    <3>3. QED
      BY <2>1, <2>2, <3>2 DEF UpToDate
  <2>3. ~row'[a].deleted => ~row[a].deleted
    BY <2>1 DEF RowMoves
  <2>4. x.loaded.deleted => row'[a].deleted
    BY <2>1 DEF UpToDate, RowMoves
  <2>5. ~row'[a].deleted => /\ x.loaded.password # None => row'[a].password # None
                            /\ x.loaded.google => row'[a].google
    BY <2>1, <2>3 DEF UpToDate, RowMoves
  <2>6. (x.phase = "selected" /\ x.op = "delete" /\ ~row'[a].deleted) =>
          /\ {"deleted", "email"} \subseteq x.dirty
          /\ x.loaded.password # None => "password" \in x.dirty
          /\ x.loaded.google => "google" \in x.dirty
    BY <2>1, <2>3 DEF UpToDate
  <2>7. QED
    BY <2>2, <2>4, <2>5, <2>6 DEF UpToDate
<1>3. QED
  BY <1>1, <1>2

LEMMA AssignIs ==
  ASSUME HandlersSound, NEW r \in Requests, NEW x, Assign(r, x)
  PROVE  /\ handler' = [q \in Requests |-> IF q = r THEN x ELSE handler[q]]
         /\ \A q \in Requests : handler'[q] = IF q = r THEN x ELSE handler[q]
BY DEF HandlersSound, Assign

\* A handler gets a new state, the others keep theirs.
LEMMA HandlersGoOn ==
  ASSUME HandlersSound, TablesMove, NEW r \in Requests, NEW x, Assign(r, x),
         Sound(x)', UpToDate(x)'
  PROVE  HandlersSound'
<1>1. handler' = [q \in Requests |-> IF q = r THEN x ELSE handler[q]]
  BY AssignIs
<1>2. ASSUME NEW q \in Requests PROVE Sound(handler[q])' /\ UpToDate(handler[q])'
  <2>1. CASE q = r
    <3>1. handler'[q] = x
      BY <1>1, <2>1
    <3>2. QED
      BY <3>1 DEF Sound, UpToDate, IsState
  <2>2. CASE q # r
    <3>1. PICK y : y = handler[q]
      OBVIOUS
    <3>2. Sound(y)' /\ UpToDate(y)'
      BY <3>1, SoundStays DEF HandlersSound
    <3>3. handler'[q] = y
      BY <1>1, <2>2, <3>1
    <3>4. QED
      BY <3>2, <3>3 DEF Sound, UpToDate, IsState
  <2>3. QED
    BY <2>1, <2>2
<1>3. QED
  BY <1>1, <1>2 DEF HandlersSound

\* Where the minted tokens come from when one handler gets a new state.
LEMMA MintedStays ==
  ASSUME HandlersSound, NEW r \in Requests, NEW x, Assign(r, x), mailed \subseteq mailed',
         handler[r].phase = "mail" => handler[r].token \in mailed'
  PROVE  \A m : Minted(m) => Minted(m)'
BY AssignIs DEF Minted

LEMMA MintedComes ==
  ASSUME HandlersSound, NEW r \in Requests, NEW x, Assign(r, x),
         NEW m, Minted(m)', mailed' = mailed
  PROVE  Minted(m) \/ (x.phase = "mail" /\ x.token = m)
BY AssignIs DEF Minted

\* A token that a handler keeps to itself stays with it.
LEMMA PrivateKept ==
  ASSUME HandlersSound, TokensPrivate, NEW r \in Requests, NEW x, Assign(r, x),
         \A m : Minted(m)' => Minted(m) \/ (Private(handler[r]) /\ handler[r].token = m /\ ~Private(x)),
         Private(x) => /\ ~Minted(x.token)
                       /\ \A q \in Requests \ {r} : Private(handler[q]) => handler[q].token # x.token
  PROVE  TokensPrivate'
<1>1. \A q \in Requests : handler'[q] = IF q = r THEN x ELSE handler[q]
  BY AssignIs
<1>2. ASSUME NEW q \in Requests, Private(handler[q])'
      PROVE  ~Minted(handler[q].token)'
  <2>1. PICK m : m = handler'[q].token
    OBVIOUS
  <2>2. ~Minted(m)'
    BY <1>1, <1>2, <2>1 DEF TokensPrivate, Private
  <2>3. QED
    BY <2>1, <2>2 DEF Minted
<1>3. ASSUME NEW p \in Requests, NEW q \in Requests, Private(handler[p])', Private(handler[q])',
             handler'[p].token = handler'[q].token
      PROVE  p = q
  BY <1>1, <1>3 DEF TokensPrivate, Private
<1>4. QED
  BY <1>2, <1>3 DEF TokensPrivate

-----------------------------------------------------------------------------
(***************************************************************************)
(* Steps that write no account.                                            *)
(***************************************************************************)
SessionsMove ==
  \A s \in Sessions :
    session[s] # None => session'[s] # None /\ session'[s].account = session[s].account

\* The handler has a token for itself, and it is the only one to have it.
KeepsPrivate(r, x) ==
  Private(x) => /\ ~Minted(x.token)
                /\ \A q \in Requests \ {r} : Private(handler[q]) => handler[q].token # x.token

LEMMA RowsKept ==
  ASSUME RowsTyped, UNCHANGED <<row, stale>>, \A m : Minted(m) => Minted(m)'
  PROVE  RowsTyped'
<1>1. ASSUME NEW a \in Accounts, Exists(a), NEW c \in TokenColumns
      PROVE  MintedOrNone(row[a][c])'
  <2>1. PICK m : m = row[a][c]
    OBVIOUS
  <2>2. m = None \/ Minted(m)'
    BY <1>1, <2>1 DEF RowsTyped, MintedOrNone
  <2>3. QED
    BY <2>1, <2>2 DEF MintedOrNone, Minted
<1>2. QED
  BY <1>1 DEF RowsTyped, Exists, Intact, Closed

LEMMA ApartKept ==
  ASSUME TokensApart, UNCHANGED <<row, stale, spent>>, \A m : Minted(m) => Minted(m)'
  PROVE  TokensApart'
BY DEF TokensApart, Exists, Intact

LEMMA TokensKept ==
  ASSUME SessionInv, NEW r \in Requests, NEW x, Assign(r, x), Sound(x), UpToDate(x),
         UNCHANGED <<row, mailed, spent, stale>>, SessionsMove, KeepsPrivate(r, x),
         handler[r].phase # "mail", x.phase # "mail"
  PROVE  TablesMove /\ RowsTyped' /\ HandlersSound' /\ TokensPrivate' /\ TokensApart'
<1>1. \A m : Minted(m) => Minted(m)'
  BY MintedStays DEF SessionInv
<1>2. TablesMove
  BY <1>1 DEF TablesMove, SessionsMove, RowMoves, Exists, Intact
<1>3. HandlersSound'
  BY <1>2, SoundStays, HandlersGoOn DEF SessionInv
<1>4. \A m : Minted(m)' => Minted(m)
  BY MintedComes DEF SessionInv
<1>5. TokensPrivate'
  BY <1>4, PrivateKept DEF SessionInv, KeepsPrivate
<1>6. QED
  BY <1>1, <1>2, <1>3, <1>5, RowsKept, ApartKept DEF SessionInv

\* A step that leaves the sessions alone, too.
Quiet(r, x) ==
  /\ Assign(r, x) /\ Sound(x) /\ UpToDate(x) /\ KeepsPrivate(r, x)
  /\ UNCHANGED <<row, session, mailed, signIns, spent, stale, raced>> /\ wallets' \subseteq Accounts
  /\ handler[r].phase \notin {"mail", "session"}
  /\ x.phase # "mail" /\ ~(x.phase = "session" /\ x.op = "refresh")

LEMMA CountKept ==
  ASSUME HandlersSound, SessionsCounted, NEW r \in Requests, NEW x, Assign(r, x),
         UNCHANGED <<session, signIns, raced>>,
         handler[r].phase # "session", ~(x.phase = "session" /\ x.op = "refresh")
  PROVE  SessionsCounted'
<1>1. \A a \in Accounts : LiveOf(a)' = LiveOf(a)
  BY DEF LiveOf
<1>2. \A a \in Accounts : Owing(a)' = Owing(a)
  BY AssignIs DEF Owing
<1>3. QED
  BY <1>1, <1>2 DEF SessionsCounted

LEMMA QuietKeeps ==
  ASSUME SessionInv, NEW r \in Requests, NEW x, Quiet(r, x)
  PROVE  SessionInv' /\ TablesMove
<1>1. TablesMove /\ RowsTyped' /\ HandlersSound' /\ TokensPrivate' /\ TokensApart'
  BY TokensKept DEF Quiet, SessionsMove
<1>2. TablesTyped'
  BY DEF Quiet, SessionInv, TablesTyped
<1>3. SessionsCounted'
  BY CountKept DEF Quiet, SessionInv
<1>4. QED
  BY <1>1, <1>2, <1>3 DEF SessionInv

-----------------------------------------------------------------------------
(***************************************************************************)
(* The states a handler goes to.                                           *)
(***************************************************************************)
LEMMA GoesSound ==
  /\ Sound(Idle) /\ UpToDate(Idle) /\ ~Private(Idle)
  /\ \A a \in Accounts, p \in {"session", "wallet", "revoke"} :
       Sound(Goes(p, a)) /\ UpToDate(Goes(p, a)) /\ ~Private(Goes(p, a))
<1>1. ASSUME NEW a \in Accounts, NEW p \in {"session", "wallet", "revoke"}
      PROVE  Sound(Goes(p, a)) /\ UpToDate(Goes(p, a)) /\ ~Private(Goes(p, a))
  <2>1. PICK x : x = Goes(p, a)
    OBVIOUS
  <2>2. IsState(x) /\ x.phase = p /\ x.op = "login" /\ x.account = a
    BY <2>1 DEF Goes, Idle, IsState
  <2>3. QED
    BY <1>1, <2>1, <2>2 DEF Sound, UpToDate, Private, Saving, Phase, Op
<1>2. Sound(Idle) /\ UpToDate(Idle) /\ ~Private(Idle)
  <2>1. IsState(Idle) /\ Idle.phase = "idle" /\ Idle.op = "login"
    BY DEF Idle, IsState
  <2>2. QED
    BY <2>1 DEF Sound, UpToDate, Private, Saving, Phase, Op
<1>3. QED
  BY <1>1, <1>2

\* A handler that lawfully changed a row.
LEMMA LoadKeeps ==
  ASSUME SessionInv, NEW r \in Requests, NEW op \in Op, NEW a \in Accounts, Exists(a),
         NEW entity, NEW token, Edited(op, row[a], entity, token),
         op \in {"forgot", "verify"} => Fresh(token), Load(r, op, a, entity, token)
  PROVE  SessionInv' /\ TablesMove
<1>1. PICK x : x = [Idle EXCEPT !.phase = "ready", !.op = op, !.account = a,
                                !.loaded = row[a], !.entity = entity, !.token = token]
  OBVIOUS
<1>2. /\ IsState(x) /\ x.phase = "ready" /\ x.op = op /\ x.account = a
      /\ x.loaded = row[a] /\ x.entity = entity /\ x.token = token
  BY <1>1 DEF Idle, IsState
<1>3. Sound(x)
  BY <1>2 DEF Sound, Saving, Phase, SessionInv, RowsTyped, Exists
<1>4. UpToDate(x)
  BY <1>2 DEF UpToDate
<1>5. KeepsPrivate(r, x)
  <2>1. Fresh(token) => ~Minted(token) /\ \A q \in Requests : handler[q].token # token
    BY DEF Fresh, Minted
  <2>2. QED
    BY <1>2, <2>1 DEF KeepsPrivate, Private
<1>6. Quiet(r, x)
  BY <1>1, <1>2, <1>3, <1>4, <1>5
     DEF Load, Quiet, Waiting, Tables, SessionInv, TablesTyped
<1>7. QED
  BY <1>6, QuietKeeps

LEMMA AccountStepKeeps ==
  ASSUME SessionInv, NEW r \in Requests, AccountStep(r)
  PROVE  SessionInv' /\ TablesMove
<1>0. /\ \A a \in Accounts : Exists(a) => row[a] \in Account
      /\ mailed \subseteq Mails /\ None \notin mailed
  BY NoneAssumption DEF SessionInv, RowsTyped, TablesTyped, Exists
<1>1. CASE ForgotPassword(r)
  <2>1. PICK a \in Accounts, m \in Mails :
          Active(a) /\ Fresh(m) /\ Load(r, "forgot", a, [row[a] EXCEPT !.reset = m], m)
    BY <1>1 DEF ForgotPassword
  <2>2. Edited("forgot", row[a], [row[a] EXCEPT !.reset = m], m)
    BY <1>0, <2>1 DEF Edited, Active, Account
  <2>3. QED
    BY <2>1, <2>2, LoadKeeps DEF Active, Op
<1>2. CASE ResetPassword(r)
  <2>1. PICK a \in Accounts, p \in Passwords :
          /\ Active(a) /\ row[a].reset \in mailed
          /\ Load(r, "reset", a, [row[a] EXCEPT !.password = p, !.reset = None], row[a].reset)
    BY <1>2 DEF ResetPassword
  <2>2. Edited("reset", row[a], [row[a] EXCEPT !.password = p, !.reset = None], row[a].reset)
    BY <1>0, <2>1, NoneAssumption DEF Edited, Active, Account
  <2>3. QED
    BY <2>1, <2>2, LoadKeeps DEF Active, Op
<1>3. CASE VerifyEmailRequest(r)
  <2>1. PICK a \in Accounts, m \in Mails :
          Exists(a) /\ Fresh(m) /\ Load(r, "verify", a, [row[a] EXCEPT !.verify = m], m)
    BY <1>3 DEF VerifyEmailRequest
  <2>2. Edited("verify", row[a], [row[a] EXCEPT !.verify = m], m)
    BY <1>0, <2>1 DEF Edited, Account
  <2>3. QED
    BY <2>1, <2>2, LoadKeeps DEF Op
<1>4. CASE VerifyEmailConfirm(r)
  <2>1. PICK a \in Accounts :
          /\ Active(a) /\ row[a].verify \in mailed
          /\ Load(r, "confirm", a, [row[a] EXCEPT !.verified = TRUE, !.verify = None], row[a].verify)
    BY <1>4 DEF VerifyEmailConfirm
  <2>2. Edited("confirm", row[a], [row[a] EXCEPT !.verified = TRUE, !.verify = None], row[a].verify)
    BY <1>0, <2>1 DEF Edited, Active, Account
  <2>3. QED
    BY <2>1, <2>2, LoadKeeps DEF Active, Op
<1>5. CASE ChangePassword(r)
  <2>1. PICK a \in Accounts, p \in Passwords :
          Active(a) /\ Load(r, "password", a, [row[a] EXCEPT !.password = p], None)
    BY <1>5 DEF ChangePassword
  <2>2. Edited("password", row[a], [row[a] EXCEPT !.password = p], None)
    BY <1>0, <2>1, NoneAssumption DEF Edited, Active, Account
  <2>3. QED
    BY <2>1, <2>2, LoadKeeps DEF Active, Op
<1>6. CASE DeleteMe(r)
  <2> DEFINE e(a) == [row[a] EXCEPT !.email = "deleted", !.password = None, !.google = FALSE,
                                    !.reset = None, !.verify = None, !.deleted = TRUE]
  <2>1. PICK a \in Accounts : Active(a) /\ Load(r, "delete", a, e(a), None)
    BY <1>6 DEF DeleteMe
  <2>2. Edited("delete", row[a], e(a), None)
    BY <1>0, <2>1 DEF Edited, Active, Account, Closed
  <2>3. QED
    BY <2>1, <2>2, LoadKeeps DEF Active, Op
<1>7. CASE UpdateMe(r)
  <2>1. PICK a \in Accounts : Active(a) /\ Load(r, "profile", a, row[a], None)
    BY <1>7 DEF UpdateMe
  <2>2. Edited("profile", row[a], row[a], None)
    BY <1>0, <2>1 DEF Edited, Active, Account
  <2>3. QED
    BY <2>1, <2>2, LoadKeeps DEF Active, Op
<1>8. QED
  BY <1>1, <1>2, <1>3, <1>4, <1>5, <1>6, <1>7 DEF AccountStep

LEMMA SignStepKeeps ==
  ASSUME SessionInv, NEW r \in Requests, SignStep(r)
  PROVE  SessionInv' /\ TablesMove
<1>1. ASSUME NEW x, Assign(r, x), Sound(x), UpToDate(x), ~Private(x), Waiting(r), UNCHANGED Tables,
             x.phase # "mail", ~(x.phase = "session" /\ x.op = "refresh")
      PROVE  SessionInv' /\ TablesMove
  <2>1. Quiet(r, x)
    BY <1>1 DEF Quiet, KeepsPrivate, Waiting, Tables, SessionInv, TablesTyped
  <2>2. QED
    BY <2>1, QuietKeeps
<1>2. CASE Register(r)
  <2>0. PICK p \in Passwords :
          /\ Waiting(r) /\ UNCHANGED Tables
          /\ Assign(r, [Idle EXCEPT !.phase = "insert", !.op = "register",
                                    !.entity = NewAccount(p, FALSE)])
    BY <1>2 DEF Register
  <2>1. PICK x : x = [Idle EXCEPT !.phase = "insert", !.op = "register",
                                  !.entity = NewAccount(p, FALSE)]
    OBVIOUS
  <2>2. IsState(x) /\ x.phase = "insert" /\ x.op = "register" /\ x.entity = NewAccount(p, FALSE)
    BY <2>1 DEF Idle, IsState
  <2>3. Sound(x) /\ UpToDate(x) /\ ~Private(x)
    BY <2>2 DEF Sound, UpToDate, Private, Saving, Phase, Op, NewAccount, Account
  <2>4. QED
    BY <1>1, <2>0, <2>1, <2>2, <2>3
<1>3. ASSUME NEW a \in Accounts, Assign(r, Goes("session", a)), Waiting(r), UNCHANGED Tables
      PROVE  SessionInv' /\ TablesMove
  <2>1. Goes("session", a).phase = "session" /\ Goes("session", a).op = "login"
    BY DEF Goes, Idle
  <2>2. QED
    BY <1>1, <1>3, <2>1, GoesSound
<1>4. CASE Login(r)
  BY <1>3, <1>4 DEF Login
<1>5. CASE GoogleAuth(r)
  <2>1. PICK x : x = [Idle EXCEPT !.phase = "lookup", !.op = "google"]
    OBVIOUS
  <2>2. IsState(x) /\ x.phase = "lookup" /\ x.op = "google"
    BY <2>1 DEF Idle, IsState
  <2>3. Sound(x) /\ UpToDate(x) /\ ~Private(x)
    BY <2>2 DEF Sound, UpToDate, Private, Saving, Phase, Op
  <2>4. QED
    BY <1>1, <1>3, <1>5, <2>1, <2>2, <2>3 DEF GoogleAuth
<1>6. CASE Refresh(r)
  <2>0. PICK s \in Sessions :
          /\ Waiting(r) /\ session[s] # None /\ UNCHANGED Tables
          /\ Assign(r, [Idle EXCEPT !.phase = "revoke", !.op = "refresh",
                                    !.account = session[s].account, !.token = s])
    BY <1>6 DEF Refresh
  <2>1. PICK x : x = [Idle EXCEPT !.phase = "revoke", !.op = "refresh",
                                  !.account = session[s].account, !.token = s]
    OBVIOUS
  <2>2. /\ IsState(x) /\ x.phase = "revoke" /\ x.op = "refresh"
        /\ x.account = session[s].account /\ x.token = s
    BY <2>1 DEF Idle, IsState
  <2>3. session[s].account \in Accounts
    BY <2>0 DEF SessionInv, TablesTyped, RefreshToken
  <2>4. Sound(x) /\ UpToDate(x) /\ ~Private(x)
    BY <2>0, <2>2, <2>3 DEF Sound, UpToDate, Private, Saving, Phase, Op
  <2>5. QED
    BY <1>1, <2>0, <2>1, <2>2, <2>4
<1>7. QED
  BY <1>2, <1>4, <1>5, <1>6 DEF SignStep

LEMMA LookUpKeeps ==
  ASSUME SessionInv, NEW r \in Requests, LookUp(r)
  PROVE  SessionInv' /\ TablesMove
<1> DEFINE h == handler[r]
<1>1. IsState(h) /\ h.phase = "lookup" /\ h.op = "google"
  BY DEF SessionInv, HandlersSound, Sound, LookUp
<1>2. ASSUME NEW x, Assign(r, x), Sound(x), UpToDate(x), x.op = "google", x.phase \in {"ready", "insert"}
      PROVE  SessionInv' /\ TablesMove
  <2>1. Quiet(r, x)
    BY <1>1, <1>2 DEF LookUp, Quiet, KeepsPrivate, Private, Tables, SessionInv, TablesTyped
  <2>2. QED
    BY <2>1, QuietKeeps
<1>3. ASSUME NEW a \in Accounts, Active(a),
             Assign(r, [h EXCEPT !.phase = "ready", !.account = a, !.loaded = row[a],
                                 !.entity = [row[a] EXCEPT !.google = TRUE]])
      PROVE  SessionInv' /\ TablesMove
  <2>1. PICK x : x = [h EXCEPT !.phase = "ready", !.account = a, !.loaded = row[a],
                               !.entity = [row[a] EXCEPT !.google = TRUE]]
    OBVIOUS
  <2>2. /\ IsState(x) /\ x.phase = "ready" /\ x.op = "google" /\ x.account = a
        /\ x.loaded = row[a] /\ x.entity = [row[a] EXCEPT !.google = TRUE]
    BY <1>1, <2>1 DEF IsState
  <2>3. row[a] \in Account
    BY <1>3 DEF SessionInv, RowsTyped, Active, Exists
  <2>4. Edited("google", row[a], [row[a] EXCEPT !.google = TRUE], x.token)
    BY <1>3, <2>3 DEF Edited, Active, Account
  <2>5. Sound(x)
    BY <1>3, <2>2, <2>4 DEF Sound, Saving, Phase, Op, SessionInv, RowsTyped, Active, Exists
  <2>6. UpToDate(x)
    BY <2>2 DEF UpToDate
  <2>7. QED
    BY <1>2, <1>3, <2>1, <2>2, <2>5, <2>6
<1>4. CASE Assign(r, [h EXCEPT !.phase = "insert", !.entity = NewAccount(None, TRUE)])
  <2>1. PICK x : x = [h EXCEPT !.phase = "insert", !.entity = NewAccount(None, TRUE)]
    OBVIOUS
  <2>2. IsState(x) /\ x.phase = "insert" /\ x.op = "google" /\ x.entity = NewAccount(None, TRUE)
    BY <1>1, <2>1 DEF IsState
  <2>3. Sound(x) /\ UpToDate(x)
    BY <2>2 DEF Sound, UpToDate, Saving, Phase, Op, NewAccount, Account
  <2>4. QED
    BY <1>2, <1>4, <2>1, <2>2, <2>3
<1>5. QED
  BY <1>3, <1>4 DEF LookUp

LEMMA SaveSelectKeeps ==
  ASSUME SessionInv, NEW r \in Requests, SaveSelect(r)
  PROVE  SessionInv' /\ TablesMove
<1> DEFINE h == handler[r]
           a == h.account
<1>1. IsState(h) /\ h.phase = "ready" /\ Sound(h) /\ UpToDate(h)
  BY DEF SessionInv, HandlersSound, Sound, SaveSelect
<1>2. PICK x : x = [h EXCEPT !.phase = "selected", !.dirty = DirtyColumns(h.entity, row[a])]
  OBVIOUS
<1>3. /\ IsState(x) /\ x.phase = "selected" /\ x.op = h.op /\ x.account = a /\ x.token = h.token
      /\ x.loaded = h.loaded /\ x.entity = h.entity /\ x.dirty = DirtyColumns(h.entity, row[a])
  BY <1>1, <1>2 DEF IsState
<1>4. Sound(x)
  BY <1>1, <1>3 DEF Sound, Saving, Phase
<1>5. a \in Accounts /\ row[a] \in Account /\ Exists(a) /\ Edited(h.op, h.loaded, h.entity, h.token)
  BY <1>1 DEF Sound, Saving, SessionInv, RowsTyped, Exists
<1>6. \A c \in {"email", "password", "google", "reset", "verify", "deleted"} :
        h.entity[c] # row[a][c] => c \in x.dirty
  BY <1>3, <1>5 DEF DirtyColumns, Account
<1>7. UpToDate(x)
  <2> SUFFICES ASSUME a \in Intact PROVE UpToDate(x)
    BY <1>3 DEF UpToDate
  <2>1. /\ x.loaded.deleted => row[a].deleted
        /\ ~row[a].deleted => /\ x.loaded.password # None => row[a].password # None
                              /\ x.loaded.google => row[a].google
    BY <1>1, <1>3 DEF UpToDate, Saving
  <2>2. ASSUME x.op = "delete", ~row[a].deleted
        PROVE  /\ {"deleted", "email"} \subseteq x.dirty
               /\ x.loaded.password # None => "password" \in x.dirty
               /\ x.loaded.google => "google" \in x.dirty
    <3>1. Closed(h.entity)
      BY <1>3, <1>5, <2>2 DEF Edited
    <3>2. row[a].email = "address"
      BY <1>5, <2>2 DEF SessionInv, RowsTyped
    <3>3. QED
      BY <1>5, <1>6, <2>1, <2>2, <3>1, <3>2 DEF Closed, Account
  <2>3. \A c \in TokenColumns :
          (x.entity[c] = None /\ x.loaded[c] # None /\ row[a][c] = x.loaded[c]) => c \in x.dirty
    BY <1>3, <1>6 DEF TokenColumns
  <2>4. QED
    BY <1>3, <2>1, <2>2, <2>3 DEF UpToDate
<1>8. KeepsPrivate(r, x)
  BY <1>1, <1>3 DEF KeepsPrivate, Private, Saving, SessionInv, TokensPrivate
<1>9. Quiet(r, x)
  BY <1>1, <1>2, <1>3, <1>4, <1>7, <1>8
     DEF SaveSelect, Quiet, Tables, SessionInv, TablesTyped
<1>10. QED
  BY <1>9, QuietKeeps

LEMMA InsertWalletKeeps ==
  ASSUME SessionInv, NEW r \in Requests, InsertWallet(r)
  PROVE  SessionInv' /\ TablesMove
<1> DEFINE h == handler[r]
<1>1. IsState(h) /\ h.phase = "wallet" /\ Sound(h)
  BY DEF SessionInv, HandlersSound, Sound, InsertWallet
<1>2. PICK x : x = [h EXCEPT !.phase = "session"]
  OBVIOUS
<1>3. IsState(x) /\ x.phase = "session" /\ x.op = h.op /\ x.account = h.account
  BY <1>1, <1>2 DEF IsState
<1>4. Sound(x) /\ UpToDate(x) /\ ~Private(x) /\ x.op # "refresh" /\ h.account \in Accounts
  BY <1>1, <1>3 DEF Sound, UpToDate, Private, Saving, Phase
<1>5. Quiet(r, x)
  BY <1>1, <1>2, <1>3, <1>4
     DEF InsertWallet, Step, Quiet, KeepsPrivate, SessionInv, TablesTyped
<1>6. QED
  BY <1>5, QuietKeeps

-----------------------------------------------------------------------------
(***************************************************************************)
(* Steps that write sessions.                                              *)
(***************************************************************************)
LEMMA CountPart ==
  ASSUME SessionInv, NEW a \in Accounts
  PROVE  /\ IsFiniteSet(LiveOf(a)) /\ IsFiniteSet(Owing(a))
         /\ Cardinality(LiveOf(a)) \in Nat /\ Cardinality(Owing(a)) \in Nat /\ signIns[a] \in Nat
         /\ a \notin raced => Cardinality(LiveOf(a)) + Cardinality(Owing(a)) <= signIns[a]
<1>1. IsFiniteSet(LiveOf(a)) /\ IsFiniteSet(Owing(a)) /\ signIns[a] \in Nat
  BY DEF SessionInv, SessionsCounted, TablesTyped
<1>2. QED
  BY <1>1, FS_CardinalityType DEF SessionInv, SessionsCounted

LEMMA InsertSessionKeeps ==
  ASSUME SessionInv, NEW r \in Requests, InsertSession(r)
  PROVE  SessionInv' /\ TablesMove
<1> DEFINE h == handler[r]
           a == h.account
<1>1. PICK s \in Sessions :
        /\ h.phase = "session" /\ session[s] = None
        /\ session' = [session EXCEPT ![s] = [account |-> a, live |-> TRUE]]
        /\ signIns' = IF h.op = "refresh" THEN signIns ELSE [signIns EXCEPT ![a] = @ + 1]
        /\ Assign(r, Idle)
        /\ UNCHANGED <<row, wallets, mailed, spent, stale, raced>>
  BY DEF InsertSession
<1>2. a \in Accounts
  BY <1>1 DEF SessionInv, HandlersSound, Sound
<1>3. Idle.phase = "idle"
  BY DEF Idle
<1>4. SessionsMove
  BY <1>1 DEF SessionsMove, SessionInv, TablesTyped
<1>5. TablesMove /\ RowsTyped' /\ HandlersSound' /\ TokensPrivate' /\ TokensApart'
  BY <1>1, <1>3, <1>4, GoesSound, TokensKept DEF KeepsPrivate
<1>6. [account |-> a, live |-> TRUE] \in RefreshToken /\ [account |-> a, live |-> TRUE] # None
  <2>1. [account |-> a, live |-> TRUE] \in RefreshToken
    BY <1>2 DEF RefreshToken
  <2>2. None \notin RefreshToken
    BY NoneAssumption
  <2>3. QED
    BY <2>1, <2>2
<1>7. TablesTyped'
  BY <1>1, <1>2, <1>6 DEF SessionInv, TablesTyped
<1>8. SessionsCounted'
  <2> SUFFICES ASSUME NEW b \in Accounts
               PROVE  /\ IsFiniteSet(LiveOf(b))' /\ IsFiniteSet(Owing(b))'
                      /\ b \notin raced' =>
                           Cardinality(LiveOf(b))' + Cardinality(Owing(b))' <= signIns'[b]
    BY DEF SessionsCounted
  <2>1. LiveOf(b)' = IF b = a THEN LiveOf(b) \cup {s} ELSE LiveOf(b)
    BY <1>1, <1>6 DEF LiveOf, SessionInv, TablesTyped
  <2>2. s \notin LiveOf(b)
    BY <1>1 DEF LiveOf
  <2>3. Owing(b)' = Owing(b) \ {r}
    BY <1>1, <1>3, AssignIs DEF Owing, SessionInv
  <2>4. r \in Owing(b) <=> b = a /\ h.op = "refresh"
    BY <1>1 DEF Owing
  <2>5. /\ IsFiniteSet(LiveOf(b)')
        /\ Cardinality(LiveOf(b)') = IF b = a THEN Cardinality(LiveOf(b)) + 1 ELSE Cardinality(LiveOf(b))
    BY <2>1, <2>2, CountPart, FS_AddElement
  <2>6. /\ IsFiniteSet(Owing(b)')
        /\ Cardinality(Owing(b)') = IF b = a /\ h.op = "refresh" THEN Cardinality(Owing(b)) - 1
                                    ELSE Cardinality(Owing(b))
    BY <2>3, <2>4, CountPart, FS_RemoveElement
  <2>7. signIns'[b] = IF b = a /\ h.op # "refresh" THEN signIns[b] + 1 ELSE signIns[b]
    BY <1>1, <1>2 DEF SessionInv, TablesTyped
  <2>8. b \notin raced' => b \notin raced
    BY <1>1
  <2>9. QED
    BY <2>5, <2>6, <2>7, <2>8, CountPart
<1>9. QED
  BY <1>5, <1>7, <1>8 DEF SessionInv

LEMMA RevokeOneKeeps ==
  ASSUME SessionInv, NEW r \in Requests, RevokeOne(r)
  PROVE  SessionInv' /\ TablesMove
<1> DEFINE h == handler[r]
           a == h.account
           t == h.token
<1>1. /\ h.phase = "revoke" /\ h.op = "refresh"
      /\ session' = [session EXCEPT ![t].live = FALSE]
      /\ raced' = IF session[t].live THEN raced ELSE raced \cup {a}
      /\ UNCHANGED <<row, wallets, mailed, signIns, spent, stale>>
  BY DEF RevokeOne
<1>2. IsState(h) /\ a \in Accounts /\ t \in Sessions /\ session[t] \in RefreshToken /\ session[t].account = a
      /\ session[t] # None
  BY <1>1 DEF SessionInv, HandlersSound, Sound, TablesTyped
<1>3. PICK x : x = [h EXCEPT !.phase = "session", !.token = None]
  OBVIOUS
<1>4. IsState(x) /\ x.phase = "session" /\ x.op = "refresh" /\ x.account = a
  BY <1>1, <1>2, <1>3 DEF IsState
<1>5. Sound(x) /\ UpToDate(x) /\ ~Private(x)
  BY <1>2, <1>4 DEF Sound, UpToDate, Private, Saving, Phase, Op
<1>6. Assign(r, x)
  BY <1>3 DEF RevokeOne
<1>7. /\ session'[t] \in RefreshToken /\ session'[t] # None
      /\ session'[t].account = a /\ ~session'[t].live
      /\ \A s \in Sessions \ {t} : session'[s] = session[s]
      /\ session' \in [Sessions -> RefreshToken \cup {None}]
  <2>1. session'[t] = [session[t] EXCEPT !.live = FALSE]
    BY <1>1, <1>2 DEF SessionInv, TablesTyped
  <2>2. session'[t] \in RefreshToken /\ session'[t].account = a /\ ~session'[t].live
    BY <1>2, <2>1 DEF RefreshToken
  <2>3. session' = [s \in Sessions |-> IF s = t THEN session'[t] ELSE session[s]]
    BY <1>1, <1>2 DEF SessionInv, TablesTyped
  <2>4. QED
    BY <2>2, <2>3, NoneAssumption DEF SessionInv, TablesTyped
<1>8. SessionsMove
  BY <1>2, <1>7 DEF SessionsMove
<1>9. TablesMove /\ RowsTyped' /\ HandlersSound' /\ TokensPrivate' /\ TokensApart'
  BY <1>1, <1>4, <1>5, <1>6, <1>8, TokensKept DEF KeepsPrivate
<1>10. TablesTyped'
  BY <1>1, <1>2, <1>7 DEF SessionInv, TablesTyped
<1>11. SessionsCounted'
  <2> SUFFICES ASSUME NEW b \in Accounts
               PROVE  /\ IsFiniteSet(LiveOf(b))' /\ IsFiniteSet(Owing(b))'
                      /\ b \notin raced' =>
                           Cardinality(LiveOf(b))' + Cardinality(Owing(b))' <= signIns'[b]
    BY DEF SessionsCounted
  <2>1. LiveOf(b)' = LiveOf(b) \ {t}
    BY <1>7 DEF LiveOf
  <2>2. t \in LiveOf(b) <=> b = a /\ session[t].live
    BY <1>2 DEF LiveOf
  <2>3. Owing(b)' = IF b = a THEN Owing(b) \cup {r} ELSE Owing(b)
    BY <1>1, <1>4, <1>6, AssignIs DEF Owing, SessionInv
  <2>4. r \notin Owing(b)
    BY <1>1 DEF Owing
  <2>5. /\ IsFiniteSet(LiveOf(b)')
        /\ Cardinality(LiveOf(b)') = IF b = a /\ session[t].live THEN Cardinality(LiveOf(b)) - 1
                                     ELSE Cardinality(LiveOf(b))
    <3>1. IsFiniteSet(LiveOf(b))
      BY CountPart
    <3>2. QED
      BY <2>1, <2>2, <3>1, FS_RemoveElement
  <2>6. /\ IsFiniteSet(Owing(b)')
        /\ Cardinality(Owing(b)') = IF b = a THEN Cardinality(Owing(b)) + 1 ELSE Cardinality(Owing(b))
    BY <2>3, <2>4, CountPart, FS_AddElement
  <2>7. b \notin raced' => b \notin raced /\ (b = a => session[t].live)
    BY <1>1
  <2>8. QED
    BY <1>1, <2>5, <2>6, <2>7, CountPart
<1>12. QED
  BY <1>9, <1>10, <1>11 DEF SessionInv

\* All sessions of an account are revoked.
LEMMA AllRevokedKeeps ==
  ASSUME SessionInv, NEW a \in Accounts, session' = AllRevoked(a),
         UNCHANGED <<wallets, mailed, signIns, spent, stale, raced>>,
         \A b \in Accounts : Owing(b)' = Owing(b)
  PROVE  SessionsMove /\ TablesTyped' /\ SessionsCounted'
<1>1. ASSUME NEW s \in Sessions, session[s] # None
      PROVE  /\ session'[s] \in RefreshToken /\ session'[s] # None
             /\ session'[s].account = session[s].account
             /\ session'[s].live => session[s].live
  <2>1. session[s] \in RefreshToken
    BY <1>1 DEF SessionInv, TablesTyped
  <2>2. session'[s] \in {session[s], [session[s] EXCEPT !.live = FALSE]}
    BY DEF AllRevoked
  <2>3. session'[s] \in RefreshToken /\ session'[s].account = session[s].account
        /\ (session'[s].live => session[s].live)
    BY <2>1, <2>2 DEF RefreshToken
  <2>4. QED
    BY <2>3, NoneAssumption
<1>2. SessionsMove
  BY <1>1 DEF SessionsMove
<1>3. \A s \in Sessions : session[s] = None => session'[s] = None
  BY DEF AllRevoked
<1>4. TablesTyped'
  <2>1. session' \in [Sessions -> RefreshToken \cup {None}]
    BY <1>1, <1>3 DEF AllRevoked
  <2>2. QED
    BY <2>1 DEF SessionInv, TablesTyped
<1>5. ASSUME NEW b \in Accounts
      PROVE  /\ IsFiniteSet(LiveOf(b))' /\ IsFiniteSet(Owing(b))'
             /\ b \notin raced' => Cardinality(LiveOf(b))' + Cardinality(Owing(b))' <= signIns'[b]
  <2>1. LiveOf(b)' \subseteq LiveOf(b)
    BY <1>1, <1>3 DEF LiveOf
  <2>2. IsFiniteSet(LiveOf(b))
    BY CountPart
  <2>3. /\ IsFiniteSet(LiveOf(b)') /\ Cardinality(LiveOf(b)') \in Nat
        /\ Cardinality(LiveOf(b)') <= Cardinality(LiveOf(b))
    BY <2>1, <2>2, FS_Subset, FS_CardinalityType
  <2>4. Owing(b)' = Owing(b) /\ signIns'[b] = signIns[b] /\ raced' = raced
    OBVIOUS
  <2>5. QED
    BY <2>3, <2>4, CountPart
<1>6. SessionsCounted'
  BY <1>5 DEF SessionsCounted
<1>7. QED
  BY <1>2, <1>4, <1>6

LEMMA RevokeAllKeeps ==
  ASSUME SessionInv, NEW r \in Requests, RevokeAll(r)
  PROVE  SessionInv' /\ TablesMove
<1>1. handler[r].account \in Accounts /\ handler[r].phase = "revoke" /\ Idle.phase = "idle"
  BY DEF SessionInv, HandlersSound, Sound, RevokeAll, Idle
<1>2. Assign(r, Idle) /\ UNCHANGED <<row, wallets, mailed, signIns, spent, stale, raced>>
  BY DEF RevokeAll
<1>3. \A b \in Accounts : Owing(b)' = Owing(b)
  BY <1>1, <1>2, AssignIs DEF Owing, SessionInv
<1>4. SessionsMove /\ TablesTyped' /\ SessionsCounted'
  BY <1>1, <1>2, <1>3, AllRevokedKeeps DEF RevokeAll
<1>5. TablesMove /\ RowsTyped' /\ HandlersSound' /\ TokensPrivate' /\ TokensApart'
  BY <1>1, <1>2, <1>4, GoesSound, TokensKept DEF KeepsPrivate
<1>6. QED
  BY <1>4, <1>5 DEF SessionInv

\* Nothing happens but to the sessions.
LEMMA LogoutKeeps ==
  ASSUME SessionInv, NEW a \in Accounts, Logout(a)
  PROVE  SessionInv' /\ TablesMove
<1>1. UNCHANGED <<row, wallets, mailed, handler, signIns, spent, stale, raced>>
  BY DEF Logout
<1>2. SessionsMove /\ TablesTyped' /\ SessionsCounted'
  BY <1>1, AllRevokedKeeps DEF Logout, Owing
<1>3. \A m : Minted(m)' <=> Minted(m)
  BY <1>1 DEF Minted
<1>4. TablesMove
  BY <1>1, <1>2, <1>3 DEF TablesMove, SessionsMove, RowMoves, Exists, Intact
<1>5. HandlersSound'
  <2>1. ASSUME NEW q \in Requests PROVE Sound(handler[q])' /\ UpToDate(handler[q])'
    <3>1. PICK y : y = handler[q]
      OBVIOUS
    <3>2. Sound(y)' /\ UpToDate(y)'
      BY <1>4, <3>1, SoundStays DEF SessionInv, HandlersSound
    <3>3. handler'[q] = y
      BY <1>1, <3>1
    <3>4. QED
      BY <3>2, <3>3 DEF Sound, UpToDate, IsState
  <2>2. QED
    BY <1>1, <2>1 DEF SessionInv, HandlersSound
<1>6. TokensPrivate'
  <2>1. \A q \in Requests : Minted(handler[q].token)' <=> Minted(handler[q].token)
    BY <1>1 DEF Minted
  <2>2. QED
    BY <1>1, <2>1 DEF SessionInv, TokensPrivate, Private
<1>7. QED
  BY <1>1, <1>2, <1>3, <1>4, <1>5, <1>6, RowsKept, ApartKept DEF SessionInv

-----------------------------------------------------------------------------
(***************************************************************************)
(* Steps that write accounts and mails.                                    *)
(***************************************************************************)
LEMMA QueueMailKeeps ==
  ASSUME SessionInv, NEW r \in Requests, QueueMail(r)
  PROVE  SessionInv' /\ TablesMove
<1>1. /\ handler[r].phase = "mail" /\ mailed' = mailed \cup {handler[r].token} /\ Assign(r, Idle)
      /\ UNCHANGED <<row, wallets, session, signIns, spent, stale, raced>> /\ Idle.phase = "idle"
  BY DEF QueueMail, Idle
<1>2. \A m : Minted(m) => Minted(m)'
  BY <1>1, MintedStays DEF SessionInv
<1>3. \A m : Minted(m)' => Minted(m)
  BY <1>1, AssignIs DEF Minted, SessionInv
<1>4. TablesMove
  BY <1>1, <1>2 DEF TablesMove, RowMoves, Exists, Intact
<1>5. HandlersSound'
  BY <1>1, <1>4, GoesSound, SoundStays, HandlersGoOn DEF SessionInv
<1>6. TokensPrivate'
  BY <1>1, <1>3, GoesSound, PrivateKept DEF SessionInv
<1>7. TablesTyped'
  BY <1>1 DEF SessionInv, TablesTyped, HandlersSound, Sound
<1>8. SessionsCounted'
  BY <1>1, CountKept DEF SessionInv
<1>9. QED
  BY <1>1, <1>2, <1>4, <1>5, <1>6, <1>7, <1>8, RowsKept, ApartKept DEF SessionInv

LEMMA InsertAccountKeeps ==
  ASSUME SessionInv, NEW r \in Requests, InsertAccount(r)
  PROVE  SessionInv' /\ TablesMove
<1> DEFINE h == handler[r]
<1>0. Sound(h) /\ h.phase = "insert" /\ UNCHANGED <<wallets, session, mailed, signIns, spent, stale, raced>>
  BY DEF InsertAccount, SessionInv, HandlersSound
<1>1. CASE Assign(r, Idle) /\ UNCHANGED row
  <2>1. Quiet(r, Idle)
    BY <1>0, <1>1, GoesSound DEF Quiet, KeepsPrivate, Idle, SessionInv, TablesTyped
  <2>2. QED
    BY <2>1, QuietKeeps
<1>2. ASSUME NEW a \in Accounts, ~Exists(a), row' = [row EXCEPT ![a] = h.entity],
             Assign(r, Goes("wallet", a))
      PROVE  SessionInv' /\ TablesMove
  <2>1. /\ Goes("wallet", a).phase = "wallet"
        /\ Sound(Goes("wallet", a)) /\ UpToDate(Goes("wallet", a)) /\ ~Private(Goes("wallet", a))
    BY GoesSound DEF Goes, Idle
  <2>2. /\ h.entity \in Account /\ h.entity.email = "address" /\ h.entity.reset = None
        /\ h.entity.verify = None /\ ~h.entity.deleted /\ h.entity # None
    BY <1>0, NoneAssumption DEF Sound
  <2>3. /\ row' = [b \in Accounts |-> IF b = a THEN h.entity ELSE row[b]]
        /\ \A b \in Accounts : row'[b] = IF b = a THEN h.entity ELSE row[b]
    BY <1>2 DEF SessionInv, RowsTyped
  <2>4. \A m : Minted(m) => Minted(m)'
    BY <1>0, <1>2, MintedStays DEF SessionInv
  <2>5. \A m : Minted(m)' => Minted(m)
    BY <1>0, <1>2, <2>1, MintedComes DEF SessionInv
  <2>6. TablesMove
    BY <1>0, <1>2, <2>2, <2>3, <2>4 DEF TablesMove, RowMoves, Exists, Intact
  <2>7. HandlersSound'
    BY <1>2, <2>1, <2>6, SoundStays, HandlersGoOn DEF SessionInv
  <2>8. TokensPrivate'
    BY <1>2, <2>1, <2>5, PrivateKept DEF SessionInv
  <2>9. RowsTyped'
    <3>1. row' \in [Accounts -> Account \cup {None}]
      BY <2>2, <2>3 DEF SessionInv, RowsTyped
    <3>2. ASSUME NEW b \in Accounts, Exists(b)', NEW c \in TokenColumns
          PROVE  MintedOrNone(row[b][c])'
      <4>1. PICK m : m = row'[b][c]
        OBVIOUS
      <4>2. m = None \/ Minted(m)'
        BY <2>2, <2>3, <2>4, <3>2, <4>1
           DEF SessionInv, RowsTyped, Exists, MintedOrNone, TokenColumns
      <4>3. QED
        BY <4>1, <4>2 DEF MintedOrNone, Minted
    <3>3. \A b \in Intact' : Exists(b)' =>
            IF row'[b].deleted THEN Closed(row'[b]) ELSE row'[b].email = "address"
      BY <1>0, <2>2, <2>3 DEF SessionInv, RowsTyped, Exists, Intact
    <3>4. QED
      BY <3>1, <3>2, <3>3 DEF RowsTyped, Closed
  <2>10. TokensApart'
    <3> SUFFICES ASSUME \A b \in Accounts : b \in Intact' PROVE TokensApart'
      BY DEF TokensApart
    <3>1. /\ \A m \in Mails : spent[m] <= 1 /\ (spent[m] > 0 => Minted(m))
          /\ \A b \in Accounts : Exists(b) =>
               \A c \in TokenColumns : row[b][c] # None => spent[row[b][c]] = 0
          /\ \A b, d \in Accounts : Exists(b) /\ Exists(d) =>
               \A c, e \in TokenColumns :
                 row[b][c] = row[d][e] /\ row[b][c] # None => b = d /\ c = e
      BY <1>0 DEF SessionInv, TokensApart, Intact
    <3>2. \A b \in Accounts : Exists(b)' => (b = a \/ Exists(b))
      BY <2>3 DEF Exists
    <3>3. \A c \in TokenColumns : row'[a][c] = None
      BY <2>2, <2>3 DEF TokenColumns
    <3>4. QED
      BY <1>0, <2>3, <2>4, <3>1, <3>2, <3>3 DEF TokensApart
  <2>11. TablesTyped'
    BY <1>0 DEF SessionInv, TablesTyped
  <2>12. SessionsCounted'
    BY <1>0, <1>2, <2>1, CountKept DEF SessionInv
  <2>13. QED
    BY <2>6, <2>7, <2>8, <2>9, <2>10, <2>11, <2>12 DEF SessionInv
<1>3. QED
  BY <1>1, <1>2 DEF InsertAccount

-----------------------------------------------------------------------------
(***************************************************************************)
(* The second statement of save.                                           *)
(***************************************************************************)
Columns == {"email", "password", "google", "reset", "verify", "verified", "deleted"}

LEMMA SavedIs ==
  ASSUME NEW stored \in Account, NEW entity \in Account, NEW dirty
  PROVE  /\ SavedColumns(stored, entity, dirty) \in Account
         /\ \A c \in Columns : SavedColumns(stored, entity, dirty)[c]
                                 = IF c \in dirty THEN entity[c] ELSE stored[c]
<1> DEFINE saved == SavedColumns(stored, entity, dirty)
<1>1. DOMAIN stored = Columns
  BY DEF Account, Columns
<1>2. saved = [c \in Columns |-> saved[c]]
      /\ \A c \in Columns : saved[c] = IF c \in dirty THEN entity[c] ELSE stored[c]
  BY <1>1 DEF SavedColumns
<1>3. QED
  BY <1>2 DEF Account, Columns

\* What a save that lands leaves of the row: Saves(r, x) is SaveUpdate without a clash.
Saves(r, x) ==
  LET h == handler[r] IN
  /\ h.phase = "selected"
  /\ row' = [row EXCEPT ![h.account] = SavedColumns(row[h.account], h.entity, h.dirty)]
  /\ stale' = IF row[h.account] = h.loaded THEN stale ELSE [stale EXCEPT ![h.account] = @ + 1]
  /\ spent' = IF h.op \in {"reset", "confirm"} THEN [spent EXCEPT ![h.token] = @ + 1] ELSE spent
  /\ Assign(r, x) /\ Sound(x) /\ UpToDate(x) /\ ~Private(x) /\ x.op = "login"
  /\ h.op \in {"forgot", "verify"} => x.phase = "mail" /\ x.token = h.token
  /\ x.phase = "mail" => h.op \in {"forgot", "verify"}
  /\ UNCHANGED <<wallets, session, mailed, signIns, raced>>

\* What holds at a save that lands.
LEMMA SaveFacts ==
  ASSUME SessionInv, NEW r \in Requests, NEW x, Saves(r, x),
         NEW h, h = handler[r], NEW a, a = h.account
  PROVE  /\ Sound(h) /\ UpToDate(h) /\ a \in Accounts /\ Exists(a) /\ row[a] \in Account
         /\ Edited(h.op, h.loaded, h.entity, h.token)
         /\ row'[a] \in Account /\ row'[a] # None
         /\ \A b \in Accounts : b # a => row'[b] = row[b]
         /\ row' = [b \in Accounts |-> row'[b]]
         /\ \A c \in Columns : row'[a][c] = IF c \in h.dirty THEN h.entity[c] ELSE row[a][c]
         /\ Intact' \subseteq Intact
         /\ a \in Intact' => row[a] = h.loaded
         /\ \A m : Minted(m) => Minted(m)'
         /\ \A m : Minted(m)' => Minted(m) \/ (Private(h) /\ h.token = m)
         /\ Private(h) => Minted(h.token)' /\ ~Minted(h.token)
<1>1. h.phase = "selected" /\ Sound(h) /\ UpToDate(h)
  BY DEF Saves, SessionInv, HandlersSound
<1>2. a \in Accounts /\ Exists(a) /\ row[a] \in Account /\ Edited(h.op, h.loaded, h.entity, h.token)
  BY <1>1 DEF Sound, Saving, SessionInv, RowsTyped, Exists
<1>3. /\ row' = [row EXCEPT ![a] = SavedColumns(row[a], h.entity, h.dirty)]
      /\ stale' = IF row[a] = h.loaded THEN stale ELSE [stale EXCEPT ![a] = @ + 1]
  BY DEF Saves
<1>4. row' = [b \in Accounts |-> IF b = a THEN SavedColumns(row[a], h.entity, h.dirty) ELSE row[b]]
  BY <1>3 DEF SessionInv, RowsTyped
<1>5. h.entity \in Account
  BY <1>2 DEF Edited
<1>6. /\ row'[a] \in Account /\ row'[a] # None
      /\ \A c \in Columns : row'[a][c] = IF c \in h.dirty THEN h.entity[c] ELSE row[a][c]
  BY <1>2, <1>4, <1>5, SavedIs, NoneAssumption
<1>7. Intact' \subseteq Intact /\ (a \in Intact' => row[a] = h.loaded)
  BY <1>2, <1>3 DEF Intact, SessionInv, TablesTyped
<1>8. \A m : Minted(m) => Minted(m)'
  BY <1>1, MintedStays DEF Saves, SessionInv
<1>9. \A m : Minted(m)' => Minted(m) \/ (Private(h) /\ h.token = m)
  BY <1>1, MintedComes DEF Saves, SessionInv, Private, Saving
<1>10. Private(h) => Minted(h.token)' /\ ~Minted(h.token)
  <2> SUFFICES ASSUME Private(h) PROVE Minted(h.token)' /\ ~Minted(h.token)
    OBVIOUS
  <2>1. ~Minted(h.token)
    BY DEF SessionInv, TokensPrivate
  <2>2. x.phase = "mail" /\ x.token = h.token /\ Assign(r, x)
    BY DEF Private, Saves
  <2>3. handler'[r] = x
    BY <2>2, AssignIs DEF SessionInv
  <2>4. Minted(h.token)'
    BY <2>2, <2>3 DEF Minted
  <2>5. QED
    BY <2>1, <2>4
<1>11. QED
  BY <1>1, <1>2, <1>4, <1>6, <1>7, <1>8, <1>9, <1>10

\* The row that was saved, when the handler knew the row it wrote over.
LEMMA SavedMoves ==
  ASSUME SessionInv, NEW r \in Requests, NEW x, Saves(r, x),
         NEW h, h = handler[r], NEW a, a = h.account, a \in Intact'
  PROVE  /\ RowMoves(a)
         /\ IF row'[a].deleted THEN Closed(row'[a]) ELSE row'[a].email = "address"
<1> DEFINE l == h.loaded
           e == h.entity
<1>1. /\ h.phase = "selected" /\ a \in Intact /\ a \in Accounts /\ Exists(a) /\ row[a] = l /\ UpToDate(h)
      /\ Edited(h.op, l, e, h.token) /\ row'[a] \in Account
      /\ \A c \in Columns : row'[a][c] = IF c \in h.dirty THEN e[c] ELSE row[a][c]
  <2>1. h.phase = "selected"
    BY DEF Saves
  <2>2. QED
    BY <2>1, SaveFacts
<1>2. IF l.deleted THEN Closed(l) ELSE l.email = "address"
  BY <1>1 DEF SessionInv, RowsTyped
<1>3. /\ row'[a].email = (IF "email" \in h.dirty THEN e.email ELSE l.email)
      /\ row'[a].password = (IF "password" \in h.dirty THEN e.password ELSE l.password)
      /\ row'[a].google = (IF "google" \in h.dirty THEN e.google ELSE l.google)
      /\ row'[a].reset = (IF "reset" \in h.dirty THEN e.reset ELSE l.reset)
      /\ row'[a].verify = (IF "verify" \in h.dirty THEN e.verify ELSE l.verify)
      /\ row'[a].deleted = (IF "deleted" \in h.dirty THEN e.deleted ELSE l.deleted)
  BY <1>1 DEF Columns
<1>4. CASE h.op = "delete"
  <2>1. ~l.deleted /\ Closed(e)
    BY <1>1, <1>4 DEF Edited
  <2>2. /\ {"deleted", "email"} \subseteq h.dirty
        /\ l.password # None => "password" \in h.dirty
        /\ l.google => "google" \in h.dirty
        /\ l.reset # None => "reset" \in h.dirty
    BY <1>1, <1>4, <2>1 DEF UpToDate, Saving, TokenColumns, Closed
  <2>3. Closed(row'[a])
    BY <1>1, <1>3, <2>1, <2>2 DEF Closed, Account
  <2>4. \A c \in TokenColumns : row'[a][c] \in {row[a][c], None} \/ ~Minted(row'[a][c])
    BY <1>1, <1>3, <1>4 DEF Edited, TokenColumns
  <2>5. QED
    BY <2>3, <2>4 DEF RowMoves, Closed
<1>5. CASE h.op # "delete"
  <2>1. /\ e.deleted = l.deleted /\ e.email = l.email
        /\ l.google => e.google
        /\ l.password # None => e.password # None
        /\ l.deleted => e.password = l.password /\ e.google = l.google /\ e.reset = l.reset
    BY <1>1, <1>5 DEF Edited
  <2>2. IF row'[a].deleted THEN Closed(row'[a]) ELSE row'[a].email = "address"
    BY <1>2, <1>3, <2>1 DEF Closed
  <2>3. ASSUME NEW c \in TokenColumns
        PROVE  row'[a][c] \in {row[a][c], None} \/ ~Minted(row'[a][c])
    <3>1. row'[a][c] \in {l[c], e[c]} /\ row[a][c] = l[c]
      BY <1>1 DEF TokenColumns, Columns
    <3>2. e[c] \in {l[c], None} \/ (h.op \in {"forgot", "verify"} /\ e[c] = h.token)
      BY <1>1 DEF Edited, TokenColumns
    <3>3. h.op \in {"forgot", "verify"} => ~Minted(h.token)
      BY <1>1, SaveFacts DEF Private, Saving
    <3>4. QED
      BY <3>1, <3>2, <3>3
  <2>4. QED
    BY <1>1, <1>3, <2>1, <2>2, <2>3 DEF RowMoves
<1>6. QED
  BY <1>4, <1>5

\* Where a token may be after a save: where it was, or with the handler that had it
\* for itself.
LEMMA SavedToken ==
  ASSUME SessionInv, NEW r \in Requests, NEW x, Saves(r, x),
         NEW h, h = handler[r], NEW a, a = h.account, NEW c \in TokenColumns
  PROVE  \/ row'[a][c] = None
         \/ row'[a][c] = row[a][c]
         \/ a \notin Intact' /\ Minted(row'[a][c])
         \/ /\ Private(h) /\ row'[a][c] = h.token
            /\ h.op = "forgot" => c = "reset"
            /\ h.op = "verify" => c = "verify"
<1>1. /\ Edited(h.op, h.loaded, h.entity, h.token) /\ Sound(h) /\ (a \in Intact' => row[a] = h.loaded)
      /\ \A d \in Columns : row'[a][d] = IF d \in h.dirty THEN h.entity[d] ELSE row[a][d]
  BY SaveFacts
<1>2. h.phase = "selected"
  BY DEF Saves
<1>3. row'[a][c] \in {row[a][c], h.entity[c]}
  BY <1>1 DEF TokenColumns, Columns
<1>4. \/ h.entity[c] \in {h.loaded[c], None}
      \/ /\ h.op \in {"forgot", "verify"} /\ h.entity[c] = h.token
         /\ h.op = "forgot" => c = "reset"
         /\ h.op = "verify" => c = "verify"
  BY <1>1 DEF Edited, TokenColumns
<1>5. h.loaded[c] = None \/ Minted(h.loaded[c])
  BY <1>1, <1>2 DEF Sound, Saving, MintedOrNone
<1>6. QED
  BY <1>1, <1>2, <1>3, <1>4, <1>5 DEF Private, Saving

LEMMA SavesKeepsRows ==
  ASSUME SessionInv, NEW r \in Requests, NEW x, Saves(r, x)
  PROVE  TablesMove /\ RowsTyped'
<1>1. PICK h, a : h = handler[r] /\ a = h.account
  OBVIOUS
<1>2. /\ a \in Accounts /\ Exists(a) /\ row'[a] \in Account /\ row'[a] # None
      /\ \A b \in Accounts : b # a => row'[b] = row[b]
      /\ row' = [b \in Accounts |-> row'[b]]
      /\ Intact' \subseteq Intact
      /\ \A m : Minted(m) => Minted(m)'
      /\ Private(h) => Minted(h.token)'
  BY <1>1, SaveFacts
<1>3. UNCHANGED session
  BY DEF Saves
<1>4. a \in Intact' =>
        /\ RowMoves(a)
        /\ IF row'[a].deleted THEN Closed(row'[a]) ELSE row'[a].email = "address"
  BY <1>1, SavedMoves
<1>5. TablesMove
  <2>1. \A b \in Accounts : Exists(b) => row'[b] # None
    BY <1>2 DEF Exists
  <2>2. ASSUME NEW b \in Intact', Exists(b) PROVE RowMoves(b)
    <3>1. CASE b = a
      BY <1>4, <3>1, <2>2
    <3>2. CASE b # a
      BY <1>2, <3>2 DEF RowMoves, Intact
    <3>3. QED
      BY <3>1, <3>2
  <2>3. QED
    BY <1>2, <1>3, <2>1, <2>2 DEF TablesMove
<1>6. row' \in [Accounts -> Account \cup {None}]
  BY <1>2 DEF SessionInv, RowsTyped
<1>7. ASSUME NEW b \in Accounts, Exists(b)', NEW c \in TokenColumns
      PROVE  MintedOrNone(row[b][c])'
  <2>1. PICK m : m = row'[b][c]
    OBVIOUS
  <2>2. Exists(b) /\ MintedOrNone(row[b][c])
    BY <1>2, <1>7 DEF SessionInv, RowsTyped, Exists
  <2>3. m = None \/ Minted(m)'
    <3>1. CASE b # a
      BY <1>2, <2>1, <2>2, <3>1 DEF MintedOrNone
    <3>2. CASE b = a
      <4>1. row'[a][c] = None \/ row'[a][c] = row[a][c] \/ Minted(row'[a][c])
              \/ (Private(h) /\ row'[a][c] = h.token)
        BY <1>1, <1>7, SavedToken
      <4>2. m = None \/ Minted(m) \/ (Private(h) /\ m = h.token)
        BY <2>1, <2>2, <3>2, <4>1 DEF MintedOrNone
      <4>3. QED
        BY <1>2, <4>2
    <3>3. QED
      BY <3>1, <3>2
  <2>4. QED
    BY <2>1, <2>3 DEF MintedOrNone, Minted
<1>8. ASSUME NEW b \in Intact', Exists(b)'
      PROVE  IF row'[b].deleted THEN Closed(row'[b]) ELSE row'[b].email = "address"
  BY <1>2, <1>4, <1>8 DEF SessionInv, RowsTyped, Exists, Intact
<1>9. RowsTyped'
  BY <1>6, <1>7, <1>8 DEF RowsTyped, Closed
<1>10. QED
  BY <1>5, <1>9

LEMMA SavesKeepsApart ==
  ASSUME SessionInv, NEW r \in Requests, NEW x, Saves(r, x)
  PROVE  TokensApart'
<1> SUFFICES ASSUME \A b \in Accounts : b \in Intact' PROVE TokensApart'
  BY DEF TokensApart
<1>1. PICK h, a : h = handler[r] /\ a = h.account
  OBVIOUS
<1>2. /\ a \in Accounts /\ Exists(a) /\ row[a] = h.loaded /\ UpToDate(h) /\ Sound(h)
      /\ Edited(h.op, h.loaded, h.entity, h.token)
      /\ \A b \in Accounts : b # a => row'[b] = row[b]
      /\ \A c \in Columns : row'[a][c] = IF c \in h.dirty THEN h.entity[c] ELSE row[a][c]
      /\ \A b \in Accounts : b \in Intact
      /\ \A m : Minted(m) => Minted(m)'
      /\ Private(h) => Minted(h.token)' /\ ~Minted(h.token)
  BY <1>1, SaveFacts
<1>3. /\ \A m \in Mails : spent[m] <= 1 /\ (spent[m] > 0 => Minted(m))
      /\ \A b \in Accounts : Exists(b) =>
           \A c \in TokenColumns : row[b][c] # None => spent[row[b][c]] = 0
      /\ \A b, d \in Accounts : Exists(b) /\ Exists(d) =>
           \A c, e \in TokenColumns :
             row[b][c] = row[d][e] /\ row[b][c] # None => b = d /\ c = e
  BY <1>2 DEF SessionInv, TokensApart
<1>4. \A b \in Accounts : Exists(b)' => Exists(b)
  BY <1>2 DEF Exists
<1>5. \A b \in Accounts : Exists(b) => \A c \in TokenColumns :
        row[b][c] \in Mails \cup {None} /\ (row[b][c] = None \/ Minted(row[b][c]))
  BY DEF SessionInv, RowsTyped, Exists, Account, TokenColumns, MintedOrNone
<1>6. h.phase = "selected"
      /\ spent' = IF h.op \in {"reset", "confirm"} THEN [spent EXCEPT ![h.token] = @ + 1] ELSE spent
  BY <1>1 DEF Saves
<1>7. spent \in [Mails -> Nat]
  BY DEF SessionInv, TablesTyped
\* The token that is used up is in one column of the account, which the save clears.
<1>8. ASSUME h.op \in {"reset", "confirm"}
      PROVE  /\ h.token \in Mails /\ spent[h.token] = 0 /\ Minted(h.token)
             /\ \A b \in Accounts : Exists(b) => \A c \in TokenColumns : row'[b][c] # h.token
  <2> DEFINE k == IF h.op = "reset" THEN "reset" ELSE "verify"
  <2>1. /\ k \in TokenColumns /\ h.token \in Mails /\ h.token # None
        /\ row[a][k] = h.token /\ h.entity[k] = None
    BY <1>2, <1>8, NoneAssumption DEF Edited, TokenColumns
  <2>2. spent[h.token] = 0 /\ Minted(h.token)
    BY <1>2, <1>3, <1>5, <2>1
  <2>3. k \in h.dirty
    BY <1>1, <1>2, <1>6, <2>1 DEF UpToDate, Saving
  <2>4. row'[a][k] = None
    BY <1>2, <2>1, <2>3 DEF TokenColumns, Columns
  <2>5. ~Private(h)
    BY <1>8 DEF Private
  <2>6. ASSUME NEW b \in Accounts, Exists(b), NEW c \in TokenColumns PROVE row'[b][c] # h.token
    <3>1. CASE b # a
      BY <1>2, <1>3, <2>1, <2>6, <3>1
    <3>2. CASE b = a /\ c = k
      BY <2>1, <2>4, <3>2
    <3>3. CASE b = a /\ c # k
      <4>1. row'[a][c] = None \/ row'[a][c] = row[a][c]
        BY <1>1, <1>2, <2>5, <2>6, SavedToken
      <4>2. row[a][c] # h.token
        BY <1>2, <1>3, <2>1, <2>6, <3>3
      <4>3. QED
        BY <2>1, <3>3, <4>1, <4>2
    <3>4. QED
      BY <3>1, <3>2, <3>3
  <2>7. QED
    BY <2>1, <2>2, <2>6
<1>9. \A m \in Mails : spent'[m] <= 1 /\ (spent'[m] > 0 => Minted(m))
  BY <1>3, <1>6, <1>7, <1>8
\* A token is where it was, or new.
<1>10. ASSUME NEW b \in Accounts, Exists(b), NEW c \in TokenColumns
       PROVE  \/ row'[b][c] = None \/ row'[b][c] = row[b][c]
              \/ /\ b = a /\ Private(h) /\ row'[b][c] = h.token
                 /\ h.op = "forgot" => c = "reset"
                 /\ h.op = "verify" => c = "verify"
  <2>1. CASE b = a
    BY <1>1, <1>2, <1>10, <2>1, SavedToken
  <2>2. CASE b # a
    BY <1>2, <2>2
  <2>3. QED
    BY <2>1, <2>2
<1>11. ASSUME NEW b \in Accounts, Exists(b), NEW c \in TokenColumns, row'[b][c] # None
       PROVE  spent'[row'[b][c]] = 0
  <2>1. row'[b][c] \in Mails /\ spent[row'[b][c]] = 0
    <3>1. CASE row'[b][c] = row[b][c]
      BY <1>3, <1>5, <1>11, <3>1
    <3>2. CASE Private(h) /\ row'[b][c] = h.token
      <4>1. h.token \in Mails /\ ~Minted(h.token)
        BY <1>2, <3>2 DEF Private, Edited
      <4>2. QED
        BY <1>3, <1>7, <3>2, <4>1
    <3>3. QED
      BY <1>10, <1>11, <3>1, <3>2
  <2>2. h.op \in {"reset", "confirm"} => row'[b][c] # h.token
    BY <1>8, <1>11
  <2>3. QED
    BY <1>6, <1>7, <2>1, <2>2
<1>12. ASSUME NEW b \in Accounts, Exists(b), NEW d \in Accounts, Exists(d),
              NEW c \in TokenColumns, NEW e \in TokenColumns,
              row'[b][c] = row'[d][e], row'[b][c] # None
       PROVE  b = d /\ c = e
  <2>1. \A f \in Accounts : Exists(f) => \A k \in TokenColumns : Private(h) => row[f][k] # h.token
    BY <1>2, <1>5, NoneAssumption DEF Private, Edited
  <2>2. Private(h) => h.op \in {"forgot", "verify"}
    BY DEF Private
  <2>3. QED
    BY <1>3, <1>10, <1>12, <2>1, <2>2
<1>13. QED
  BY <1>2, <1>4, <1>9, <1>11, <1>12 DEF TokensApart

LEMMA SaveUpdateKeeps ==
  ASSUME SessionInv, NEW r \in Requests, SaveUpdate(r)
  PROVE  SessionInv' /\ TablesMove
<1> DEFINE h == handler[r]
           a == h.account
<1>1. /\ h.phase = "selected" /\ Sound(h) /\ a \in Accounts /\ h.op \in Op
      /\ h.op \in {"forgot", "verify"} => h.token \in Mails
      /\ UNCHANGED <<wallets, session, mailed, signIns, raced>>
  BY DEF SessionInv, HandlersSound, Sound, Saving, SaveUpdate, Edited
<1>2. CASE Assign(r, Idle) /\ UNCHANGED <<row, spent, stale>>
  <2>1. Quiet(r, Idle)
    BY <1>1, <1>2, GoesSound DEF Quiet, KeepsPrivate, Idle, SessionInv, TablesTyped
  <2>2. QED
    BY <2>1, QuietKeeps
<1>3. ASSUME NEW x, Saves(r, x) PROVE SessionInv' /\ TablesMove
  <2>1. TablesMove /\ RowsTyped' /\ TokensApart'
    BY <1>3, SavesKeepsRows, SavesKeepsApart
  <2>2. HandlersSound'
    BY <1>3, <2>1, SoundStays, HandlersGoOn DEF Saves, SessionInv
  <2>3. TokensPrivate'
    <3>1. \A m : Minted(m)' => Minted(m) \/ (Private(h) /\ h.token = m)
      BY <1>3, SaveFacts
    <3>2. QED
      BY <1>3, <3>1, PrivateKept DEF Saves, SessionInv
  <2>4. TablesTyped'
    <3>1. stale' \in [Accounts -> Nat]
      BY <1>1, <1>3 DEF Saves, SessionInv, TablesTyped
    <3>2. spent' \in [Mails -> Nat]
      <4>1. spent' = spent \/ spent' = [spent EXCEPT ![h.token] = @ + 1]
        BY <1>3 DEF Saves
      <4>2. spent \in [Mails -> Nat]
        BY DEF SessionInv, TablesTyped
      <4>3. QED
        BY <4>1, <4>2
    <3>3. QED
      BY <1>1, <3>1, <3>2 DEF SessionInv, TablesTyped
  <2>5. SessionsCounted'
    BY <1>1, <1>3, CountKept DEF Saves, SessionInv
  <2>6. QED
    BY <2>1, <2>2, <2>3, <2>4, <2>5 DEF SessionInv
<1>4. CASE ~(Assign(r, Idle) /\ UNCHANGED <<row, spent, stale>>)
  <2> DEFINE next == CASE AfterSave(h.op) = "idle" -> Idle
                       [] AfterSave(h.op) = "mail" -> [Goes("mail", a) EXCEPT !.token = h.token]
                       [] OTHER -> Goes(AfterSave(h.op), a)
  <2>1. /\ row' = [row EXCEPT ![a] = SavedColumns(row[a], h.entity, h.dirty)]
        /\ stale' = IF row[a] = h.loaded THEN stale ELSE [stale EXCEPT ![a] = @ + 1]
        /\ spent' = IF h.op \in {"reset", "confirm"} THEN [spent EXCEPT ![h.token] = @ + 1] ELSE spent
        /\ Assign(r, next)
    BY <1>4 DEF SaveUpdate
  <2>2. PICK x : x = next
    OBVIOUS
  <2>3. /\ AfterSave(h.op) \in {"idle", "mail", "revoke", "session"}
        /\ AfterSave(h.op) = "mail" <=> h.op \in {"forgot", "verify"}
    BY DEF AfterSave
  <2>4. /\ Sound(x) /\ UpToDate(x) /\ ~Private(x) /\ x.op = "login"
        /\ x.phase = "mail" => h.op \in {"forgot", "verify"}
        /\ h.op \in {"forgot", "verify"} => x.phase = "mail" /\ x.token = h.token
    <3>1. CASE AfterSave(h.op) = "idle"
      BY <2>2, <2>3, <3>1, GoesSound DEF Idle
    <3>2. CASE AfterSave(h.op) \in {"revoke", "session"}
      <4>1. x = Goes(AfterSave(h.op), a)
        BY <2>2, <3>2
      <4>2. x.phase = AfterSave(h.op) /\ x.op = "login"
        BY <4>1 DEF Goes, Idle
      <4>3. QED
        BY <1>1, <2>3, <3>2, <4>1, <4>2, GoesSound
    <3>3. CASE AfterSave(h.op) = "mail"
      <4>1. x = [Goes("mail", a) EXCEPT !.token = h.token]
        BY <2>2, <3>3
      <4>2. IsState(x) /\ x.phase = "mail" /\ x.op = "login" /\ x.account = a /\ x.token = h.token
        BY <4>1 DEF Goes, Idle, IsState
      <4>3. QED
        BY <1>1, <2>3, <3>3, <4>2 DEF Sound, UpToDate, Private, Saving, Phase, Op
    <3>4. QED
      BY <2>3, <3>1, <3>2, <3>3
  <2>5. Saves(r, x)
    BY <1>1, <2>1, <2>2, <2>4 DEF Saves
  <2>6. QED
    BY <1>3, <2>5
<1>5. QED
  BY <1>2, <1>4

-----------------------------------------------------------------------------
LEMMA SessionInit == Init => SessionInv
<1> SUFFICES ASSUME Init PROVE SessionInv
  OBVIOUS
<1>1. /\ row = [a \in Accounts |-> None] /\ session = [s \in Sessions |-> None]
      /\ handler = [r \in Requests |-> Idle] /\ mailed = {} /\ wallets = {} /\ raced = {}
      /\ signIns = [a \in Accounts |-> 0] /\ spent = [m \in Mails |-> 0]
      /\ stale = [a \in Accounts |-> 0]
  BY DEF Init
<1>2. Idle.phase = "idle" /\ \A r \in Requests : handler[r] = Idle
  BY <1>1 DEF Idle
<1>3. RowsTyped
  BY <1>1 DEF RowsTyped, Exists, Intact
<1>4. TablesTyped
  BY <1>1 DEF TablesTyped
<1>5. HandlersSound
  <2>1. handler = [r \in Requests |-> handler[r]]
    BY <1>1
  <2>2. QED
    BY <1>2, <2>1, GoesSound DEF HandlersSound
<1>6. TokensPrivate
  BY <1>2, GoesSound DEF TokensPrivate
<1>7. TokensApart
  BY <1>1 DEF TokensApart, Exists
<1>8. SessionsCounted
  <2>1. \A a \in Accounts : LiveOf(a) = {} /\ Owing(a) = {}
    BY <1>1, <1>2 DEF LiveOf, Owing
  <2>2. IsFiniteSet({}) /\ Cardinality({}) = 0
    BY FS_EmptySet
  <2>3. QED
    BY <1>1, <2>1, <2>2 DEF SessionsCounted
<1>9. QED
  BY <1>3, <1>4, <1>5, <1>6, <1>7, <1>8 DEF SessionInv

\* Nothing happens.
LEMMA StutterKeeps ==
  ASSUME SessionInv, UNCHANGED vars
  PROVE  SessionInv' /\ TablesMove
<1>1. UNCHANGED <<row, wallets, session, mailed, handler, signIns, spent, stale, raced>>
  BY DEF vars
<1>2. \A m : Minted(m)' <=> Minted(m)
  BY <1>1 DEF Minted
<1>3. TablesMove
  BY <1>1, <1>2 DEF TablesMove, RowMoves, Exists, Intact
<1>4. HandlersSound'
  <2>1. ASSUME NEW q \in Requests PROVE Sound(handler[q])' /\ UpToDate(handler[q])'
    <3>1. PICK y : y = handler[q]
      OBVIOUS
    <3>2. Sound(y)' /\ UpToDate(y)'
      BY <1>3, <3>1, SoundStays DEF SessionInv, HandlersSound
    <3>3. handler'[q] = y
      BY <1>1, <3>1
    <3>4. QED
      BY <3>2, <3>3 DEF Sound, UpToDate, IsState
  <2>2. QED
    BY <1>1, <2>1 DEF SessionInv, HandlersSound
<1>5. TokensPrivate'
  <2>1. \A q \in Requests : Minted(handler[q].token)' <=> Minted(handler[q].token)
    BY <1>1 DEF Minted
  <2>2. QED
    BY <1>1, <2>1 DEF SessionInv, TokensPrivate, Private
<1>6. TablesTyped' /\ SessionsCounted'
  BY <1>1 DEF SessionInv, TablesTyped, SessionsCounted, LiveOf, Owing
<1>7. QED
  BY <1>1, <1>2, <1>3, <1>4, <1>5, <1>6, RowsKept, ApartKept DEF SessionInv

LEMMA SessionStep == SessionInv /\ [Next]_vars => SessionInv' /\ TablesMove
<1> SUFFICES ASSUME SessionInv, [Next]_vars PROVE SessionInv' /\ TablesMove
  OBVIOUS
<1>1. CASE UNCHANGED vars
  BY <1>1, StutterKeeps
<1>2. ASSUME NEW r \in Requests, HandlerStep(r) PROVE SessionInv' /\ TablesMove
  BY <1>2, LookUpKeeps, InsertAccountKeeps, InsertWalletKeeps, InsertSessionKeeps,
     RevokeOneKeeps, RevokeAllKeeps, SaveSelectKeeps, SaveUpdateKeeps, QueueMailKeeps
     DEF HandlerStep
<1>3. QED
  BY <1>1, <1>2, SignStepKeeps, AccountStepKeeps, LogoutKeeps DEF Next

LEMMA SessionHolds == Spec => []SessionInv
BY SessionInit, SessionStep, PTL DEF Spec

\* Every table keeps the type of its columns, whatever save writes back over it.
THEOREM TypeCorrect == Spec => []TypeOK
<1>1. ASSUME SessionInv PROVE TypeOK
  <2>1. \A r \in Requests : handler[r].phase \in Phase /\ handler[r].op \in Op
    BY <1>1 DEF SessionInv, HandlersSound, Sound
  <2>2. QED
    BY <1>1, <2>1 DEF SessionInv, RowsTyped, TablesTyped, TypeOK
<1>2. QED
  BY <1>1, SessionHolds, PTL

\* A mailed token resets one password or confirms one address: a reset or a
\* confirmation that finds the token clears it in the same save, and no other
\* account and no other column ever holds it (resetPassword, confirmEmail).
THEOREM TokensWorkOnceHolds == Spec => []TokensWorkOnce
<1>1. SessionInv => TokensWorkOnce
  BY DEF SessionInv, TokensApart, TokensWorkOnce
<1>2. QED
  BY <1>1, SessionHolds, PTL

\* Refreshing replaces a session: an account has no more live sessions than
\* sign-ins, even counting those that a refresh has revoked and not yet replaced
\* (refreshTokens, generateTokens, logout, changePassword).
THEOREM RefreshReplacesHolds == Spec => []RefreshReplaces
<1>1. ASSUME SessionInv, NEW a \in Accounts \ raced
      PROVE  Cardinality(LiveOf(a)) <= signIns[a]
  BY <1>1, CountPart
<1>2. SessionInv => RefreshReplaces
  BY <1>1 DEF RefreshReplaces, LiveOf
<1>3. QED
  BY <1>2, SessionHolds, PTL

\* A deleted account stays deleted and stripped of what signs its owner in, until
\* a stale save lands on it (deleteMe and every save that may follow it).
THEOREM DeletionIsFinalHolds == Spec => DeletionIsFinal
<1>1. ASSUME SessionInv, [Next]_vars,
             NEW a \in Accounts, a \in Intact', Exists(a), row[a].deleted
      PROVE  /\ row'[a].deleted /\ row'[a].email = "deleted"
             /\ row'[a].password = None /\ ~row'[a].google /\ row'[a].reset = None
  <2>1. SessionInv' /\ TablesMove
    BY <1>1, SessionStep
  <2>2. row'[a].deleted /\ Exists(a)'
    BY <1>1, <2>1 DEF TablesMove, RowMoves, Exists
  <2>3. Closed(row'[a])
    BY <1>1, <2>1, <2>2 DEF SessionInv, RowsTyped, Closed
  <2>4. QED
    BY <2>3 DEF Closed
<1>2. SessionInv /\ [Next]_vars =>
        [\A a \in Accounts :
           (a \in Intact' /\ Exists(a) /\ row[a].deleted) =>
             /\ row'[a].deleted /\ row'[a].email = "deleted"
             /\ row'[a].password = None /\ ~row'[a].google /\ row'[a].reset = None]_vars
  BY <1>1
<1>3. QED
  BY <1>2, SessionHolds, PTL DEF Spec, DeletionIsFinal

-----------------------------------------------------------------------------
(***************************************************************************)
(* One owner of the address, and a wallet for each account.                *)
(***************************************************************************)

\* The handlers that inserted the account a and not yet its wallet.
Completing(a) == {r \in Requests : handler[r].phase = "wallet" /\ handler[r].account = a}

AccountsInv ==
  /\ \A a, b \in Accounts : HasAddress(a) /\ HasAddress(b) => a = b
  /\ \A a \in Accounts : Exists(a) => a \in wallets \/ Completing(a) # {}

LEMMA InvComplete == AccountsInv => AccountsComplete
<1> SUFFICES ASSUME AccountsInv PROVE AccountsComplete
  OBVIOUS
<1> DEFINE S == {a \in Accounts : HasAddress(a)}
<1>1. Cardinality(S) <= 1
  <2>1. CASE S = {}
    BY <2>1, FS_EmptySet
  <2>2. CASE S # {}
    <3>1. PICK a : a \in S
      BY <2>2
    <3>2. \A b \in S : b = a
      BY <3>1 DEF AccountsInv
    <3>3. S = {a}
      BY <3>1, <3>2
    <3>4. Cardinality({a}) = 1
      BY FS_Singleton
    <3>5. QED
      BY <3>3, <3>4
  <2>3. QED
    BY <2>1, <2>2
<1>2. \A a \in Accounts : Exists(a) =>
        a \in wallets \/ \E r \in Requests : handler[r].phase = "wallet" /\ handler[r].account = a
  BY DEF AccountsInv, Completing
<1>3. QED
  BY <1>1, <1>2 DEF AccountsComplete

LEMMA AccountsInit == Init => AccountsInv
BY DEF Init, AccountsInv, HasAddress, Exists

\* A step that writes no account, and forgets no wallet.
LEMMA AccountsKept ==
  ASSUME AccountsInv, HandlersSound, NEW r \in Requests, NEW x, Assign(r, x), UNCHANGED row,
         wallets \subseteq wallets', handler[r].phase = "wallet" => handler[r].account \in wallets'
  PROVE  AccountsInv'
<1>1. ASSUME NEW a \in Accounts, a \notin wallets' PROVE Completing(a) \subseteq Completing(a)'
  BY <1>1, AssignIs DEF Completing
<1>2. \A a \in Accounts : Exists(a)' => a \in wallets' \/ Completing(a)' # {}
  BY <1>1 DEF AccountsInv, Exists
<1>3. QED
  BY <1>2 DEF AccountsInv, HasAddress, Exists

LEMMA InsertAccountOwns ==
  ASSUME AccountsInv, SessionInv, NEW r \in Requests, InsertAccount(r)
  PROVE  AccountsInv'
<1>0. handler[r].phase # "wallet" /\ UNCHANGED wallets /\ HandlersSound
  BY DEF InsertAccount, SessionInv
<1>1. CASE Assign(r, Idle) /\ UNCHANGED row
  BY <1>0, <1>1, AccountsKept
<1>2. ASSUME NEW a \in Accounts, ~Exists(a), ~\E b \in Accounts : HasAddress(b),
             row' = [row EXCEPT ![a] = handler[r].entity], Assign(r, Goes("wallet", a))
      PROVE  AccountsInv'
  <2>1. row' = [b \in Accounts |-> IF b = a THEN handler[r].entity ELSE row[b]]
    BY <1>2 DEF SessionInv, RowsTyped
  <2>2. \A q \in Requests : handler'[q] = IF q = r THEN Goes("wallet", a) ELSE handler[q]
    BY <1>0, <1>2, AssignIs
  <2>3. \A b, c \in Accounts : HasAddress(b)' /\ HasAddress(c)' => b = c
    BY <1>2, <2>1 DEF HasAddress, Exists
  <2>4. r \in Completing(a)'
    BY <2>2 DEF Completing, Goes, Idle
  <2>5. \A b \in Accounts : Completing(b) \subseteq Completing(b)'
    BY <1>0, <2>2 DEF Completing
  <2>6. \A b \in Accounts : Exists(b)' => b \in wallets' \/ Completing(b)' # {}
    BY <1>0, <2>1, <2>4, <2>5 DEF AccountsInv, Exists
  <2>7. QED
    BY <2>3, <2>6 DEF AccountsInv
<1>3. QED
  BY <1>1, <1>2 DEF InsertAccount

LEMMA SaveUpdateOwns ==
  ASSUME AccountsInv, SessionInv, NEW r \in Requests, SaveUpdate(r)
  PROVE  AccountsInv'
<1> DEFINE a == handler[r].account
           saved == SavedColumns(row[a], handler[r].entity, handler[r].dirty)
<1>1. handler[r].phase = "selected" /\ UNCHANGED wallets /\ HandlersSound
  BY DEF SaveUpdate, SessionInv
<1>2. a \in Accounts /\ Exists(a)
  BY <1>1 DEF HandlersSound, Sound, Saving, Exists
<1>3. PICK x : Assign(r, x)
  BY DEF SaveUpdate
<1>4. CASE UNCHANGED row
  BY <1>1, <1>3, <1>4, AccountsKept
<1>5. CASE /\ \A b \in Accounts \ {a} :
                 ~(Exists(b) /\ saved.email = "address" /\ row[b].email = "address")
           /\ row' = [row EXCEPT ![a] = saved]
  <2>1. row' = [b \in Accounts |-> IF b = a THEN saved ELSE row[b]]
    BY <1>5 DEF SessionInv, RowsTyped
  <2>2. \A b, c \in Accounts : HasAddress(b)' /\ HasAddress(c)' => b = c
    BY <1>2, <1>5, <2>1 DEF AccountsInv, HasAddress, Exists
  <2>3. \A b \in Accounts : Completing(b) \subseteq Completing(b)'
    BY <1>1, <1>3, AssignIs DEF Completing
  <2>4. \A b \in Accounts : Exists(b)' => Exists(b)
    BY <1>2, <2>1 DEF Exists
  <2>5. QED
    BY <1>1, <2>2, <2>3, <2>4 DEF AccountsInv
<1>6. QED
  BY <1>4, <1>5 DEF SaveUpdate

LEMMA AccountsStep == AccountsInv /\ SessionInv /\ [Next]_vars => AccountsInv'
<1> SUFFICES ASSUME AccountsInv, SessionInv, [Next]_vars PROVE AccountsInv'
  OBVIOUS
<1>0. HandlersSound
  BY DEF SessionInv
<1>1. ASSUME UNCHANGED <<row, wallets, handler>> PROVE AccountsInv'
  BY <1>1 DEF AccountsInv, HasAddress, Exists, Completing
<1>2. CASE UNCHANGED vars
  BY <1>1, <1>2 DEF vars
<1>3. ASSUME NEW a \in Accounts, Logout(a) PROVE AccountsInv'
  BY <1>1, <1>3 DEF Logout
<1>4. ASSUME NEW r \in Requests, SignStep(r) \/ AccountStep(r) PROVE AccountsInv'
  <2>1. (\E x : Assign(r, x)) /\ UNCHANGED <<row, wallets>> /\ handler[r].phase # "wallet"
    <3>1. CASE SignStep(r)
      BY <3>1 DEF SignStep, Register, Login, GoogleAuth, Refresh, Tables, Waiting
    <3>2. CASE AccountStep(r)
      <4>1. \A op, a, e, t : Load(r, op, a, e, t) =>
              (\E x : Assign(r, x)) /\ UNCHANGED <<row, wallets>> /\ handler[r].phase # "wallet"
        BY DEF Load, Tables, Waiting
      <4>2. \E op, a, e, t : Load(r, op, a, e, t)
        BY <3>2 DEF AccountStep, ForgotPassword, ResetPassword, VerifyEmailRequest,
           VerifyEmailConfirm, ChangePassword, DeleteMe, UpdateMe
      <4>3. QED
        BY <4>1, <4>2
    <3>3. QED
      BY <1>4, <3>1, <3>2
  <2>2. QED
    BY <1>0, <2>1, AccountsKept
<1>5. ASSUME NEW r \in Requests,
             \/ LookUp(r) \/ InsertSession(r) \/ RevokeOne(r) \/ RevokeAll(r)
             \/ SaveSelect(r) \/ QueueMail(r)
      PROVE  AccountsInv'
  <2>1. (\E x : Assign(r, x)) /\ UNCHANGED <<row, wallets>> /\ handler[r].phase # "wallet"
    BY <1>5 DEF LookUp, InsertSession, RevokeOne, RevokeAll, SaveSelect, QueueMail, Tables
  <2>2. QED
    BY <1>0, <2>1, AccountsKept
<1>6. ASSUME NEW r \in Requests, InsertWallet(r) PROVE AccountsInv'
  BY <1>0, <1>6, AccountsKept DEF InsertWallet, Step
<1>7. ASSUME NEW r \in Requests, HandlerStep(r) PROVE AccountsInv'
  BY <1>5, <1>6, <1>7, InsertAccountOwns, SaveUpdateOwns DEF HandlerStep
<1>8. QED
  BY <1>2, <1>3, <1>4, <1>7 DEF Next

\* However registrations, Google sign-ins, edits and deletions overlap, the
\* address has one owner, and no account is left without its wallet by a handler
\* that goes on (register, googleAuth and the saves of AuthService, UserService).
THEOREM AccountsCompleteHolds == Spec => []AccountsComplete
<1>1. Spec => []AccountsInv
  BY AccountsInit, AccountsStep, SessionHolds, PTL DEF Spec
<1>2. QED
  BY <1>1, InvComplete, PTL

=============================================================================
