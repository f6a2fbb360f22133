------------------------- MODULE AccountsInvariants -------------------------
(***************************************************************************)
(* The inductive invariants behind the properties of Accounts: what a      *)
(* handler in flight knows of its account, where a token may turn up, and  *)
(* which handlers still owe a session.                                     *)
(***************************************************************************)
EXTENDS Accounts

Saving == {"ready", "selected"}
TokenColumns == {"reset", "verify"}

\* What is left of a deleted account.
Closed(x) ==
  x.deleted /\ x.email = "deleted" /\ x.password = None /\ ~x.google /\ x.reset = None

\* The entity e that a handler made of the row l which it had loaded.
Edited(op, l, e, token) ==
  /\ l \in Account /\ e \in Account
  /\ op = "delete" => ~l.deleted /\ Closed(e)
  /\ op # "delete" => /\ e.deleted = l.deleted /\ e.email = l.email
                      /\ l.google => e.google
                      /\ l.password # None => e.password # None
  /\ l.deleted => op = "verify" /\ e.password = l.password /\ e.google = l.google /\ e.reset = l.reset
  /\ e.reset \in {l.reset, None} \/ (op = "forgot" /\ e.reset = token)
  /\ e.verify \in {l.verify, None} \/ (op = "verify" /\ e.verify = token)
  /\ op \in {"forgot", "verify", "reset", "confirm"} => token \in Mails
  /\ op = "reset" => l.reset = token /\ e.reset = None
  /\ op = "confirm" => l.verify = token /\ e.verify = None

\* The token m is saved, and it is mailed or about to be.
Minted(m) == m \in mailed \/ \E r \in Requests : handler[r].phase = "mail" /\ handler[r].token = m
MintedOrNone(m) == m = None \/ Minted(m)

IsState(x) ==
  x = [phase |-> x.phase, op |-> x.op, account |-> x.account, loaded |-> x.loaded,
       entity |-> x.entity, dirty |-> x.dirty, token |-> x.token]

\* The rows a handler works on exist, and it lawfully changed what it loaded.
Sound(x) ==
  /\ IsState(x) /\ x.phase \in Phase /\ x.op \in Op
  /\ x.phase = "lookup" => x.op = "google"
  /\ x.phase = "insert" => /\ x.entity \in Account /\ x.entity.email = "address"
                           /\ x.entity.reset = None /\ x.entity.verify = None /\ ~x.entity.deleted
  /\ x.phase \in Saving => /\ x.account \in Accounts /\ row[x.account] # None
                           /\ Edited(x.op, x.loaded, x.entity, x.token)
                           /\ \A c \in TokenColumns : MintedOrNone(x.loaded[c])
  /\ x.phase \in {"wallet", "session", "mail", "revoke"} => x.account \in Accounts
  /\ x.phase = "wallet" => x.op # "refresh"
  /\ x.phase = "mail" => x.token \in Mails
  /\ x.phase = "revoke" /\ x.op = "refresh" =>
       /\ x.token \in Sessions /\ session[x.token] # None
       /\ session[x.token].account = x.account

\* What a handler knows of an intact account is its present or its past; what it
\* clears is dirty, or the row it compared with has moved on.
UpToDate(x) ==
  LET a == x.account IN
  (x.phase \in Saving /\ a \in Intact) =>
    /\ x.loaded.deleted => row[a].deleted
    /\ ~row[a].deleted => /\ x.loaded.password # None => row[a].password # None
                          /\ x.loaded.google => row[a].google
    /\ (x.phase = "selected" /\ x.op = "delete" /\ ~row[a].deleted) =>
         /\ {"deleted", "email"} \subseteq x.dirty
         /\ x.loaded.password # None => "password" \in x.dirty
         /\ x.loaded.google => "google" \in x.dirty
    /\ x.phase = "selected" =>
         \A c \in TokenColumns :
           (x.entity[c] = None /\ x.loaded[c] # None /\ row[a][c] = x.loaded[c]) => c \in x.dirty

RowsTyped ==
  /\ row \in [Accounts -> Account \cup {None}]
  /\ \A a \in Accounts : Exists(a) => \A c \in TokenColumns : MintedOrNone(row[a][c])
  /\ \A a \in Intact : Exists(a) =>
       IF row[a].deleted THEN Closed(row[a]) ELSE row[a].email = "address"

TablesTyped ==
  /\ wallets \subseteq Accounts
  /\ session \in [Sessions -> RefreshToken \cup {None}]
  /\ mailed \subseteq Mails
  /\ signIns \in [Accounts -> Nat] /\ spent \in [Mails -> Nat] /\ stale \in [Accounts -> Nat]
  /\ raced \subseteq Accounts

HandlersSound ==
  /\ handler = [r \in Requests |-> handler[r]]
  /\ \A r \in Requests : Sound(handler[r]) /\ UpToDate(handler[r])

\* A token that is not saved yet is known to one handler only.
Private(x) == x.phase \in Saving /\ x.op \in {"forgot", "verify"}

TokensPrivate ==
  /\ \A r \in Requests : Private(handler[r]) => ~Minted(handler[r].token)
  /\ \A q, r \in Requests :
       Private(handler[q]) /\ Private(handler[r]) /\ handler[q].token = handler[r].token => q = r

\* Without a stale save, a token is in one place, and in none once it was used.
TokensApart ==
  (\A a \in Accounts : a \in Intact) =>
    /\ \A m \in Mails : spent[m] <= 1 /\ (spent[m] > 0 => Minted(m))
    /\ \A a \in Accounts : Exists(a) =>
         \A c \in TokenColumns : row[a][c] # None => spent[row[a][c]] = 0
    /\ \A a, b \in Accounts : Exists(a) /\ Exists(b) =>
         \A c, d \in TokenColumns :
           row[a][c] = row[b][d] /\ row[a][c] # None => a = b /\ c = d

\* The live sessions of an account, and the handlers that revoked one of them
\* and have yet to insert the next.
LiveOf(a) == {s \in Sessions : session[s] # None /\ session[s].account = a /\ session[s].live}

Owing(a) ==
  {r \in Requests : /\ handler[r].phase = "session" /\ handler[r].op = "refresh"
                    /\ handler[r].account = a}

SessionsCounted ==
  \A a \in Accounts :
    /\ IsFiniteSet(LiveOf(a)) /\ IsFiniteSet(Owing(a))
    /\ a \notin raced => Cardinality(LiveOf(a)) + Cardinality(Owing(a)) <= signIns[a]

SessionInv ==
  RowsTyped /\ TablesTyped /\ HandlersSound /\ TokensPrivate /\ TokensApart /\ SessionsCounted

=============================================================================
