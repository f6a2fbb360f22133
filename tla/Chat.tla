-------------------------------- MODULE Chat --------------------------------
(***************************************************************************)
(* The conversations of two parties about an order or an offer:            *)
(* EventsGateway, through which messages are sent and shown over           *)
(* WebSockets, and MessageService, which does the same over HTTP but shows *)
(* nothing.                                                                *)
(*                                                                         *)
(* A socket carries the user it authenticated as in client.userId, which   *)
(* handleSendMessage reads again after every await.  A socket may          *)
(* authenticate again, as somebody else, at any time: it then answers for  *)
(* the new user and stays in the room of the old one.                      *)
(*                                                                         *)
(* The parties of an order or an offer never change, so the order of the   *)
(* statements matters only where client.userId, the table of messages or   *)
(* the rooms are read: a request over HTTP is one step.                    *)
(***************************************************************************)
EXTENDS Integers, Sequences, People

CONSTANTS
  Sockets,         \* ids of connections
  Slots,           \* the handlers of send_message that run at the same time
  Conversations,   \* the orders and the offers people talk about
  OfOrders,        \* those that are orders
  First,           \* the traveler of an order, the sender of an offer
  Second           \* the requester of an order, the receiver of an offer

ASSUME NobodyAssumption == None \notin Users \cup Sockets
ASSUME PartiesAssumption ==
  /\ First \in [Conversations -> Users] /\ Second \in [Conversations -> Users]
  /\ \A c \in Conversations : First[c] # Second[c]
  /\ OfOrders \subseteq Conversations

VARIABLES
  open,            \* the sockets that are connected
  userId,          \* client.userId of a socket
  userSockets,     \* the gateway's table of the sockets of each user
  room,            \* the sockets that joined the room of each user (socket.io)
  sending,         \* what the handlers of send_message and send_offer_message do
  messages,        \* the messages table, in the order of the inserts
  shown,           \* ghost: to whose room each message was emitted
  readTo,          \* ghost: how many messages there were, of whatever conversation,
                   \* when somebody else than a party last marked what it wrote
  been,            \* ghost: the users a socket authenticated as
  switched,        \* ghost: slots whose socket changed its user meanwhile
  excused          \* ghost: messages whose handler died or was misled

socketVars == <<open, userId, userSockets, room, been>>
chatVars == <<socketVars, sending, messages, shown, readTo, switched, excused>>

-----------------------------------------------------------------------------
Parties(c) == {First[c], Second[c]}

\* Whom a message or the typing sign of user u goes to.
OtherParty(c, u) == IF First[c] = u THEN Second[c] ELSE First[c]

(***************************************************************************)
(* loading    the order or the offer is being read                         *)
(* creating   the message is created, its insert is on the way             *)
(* stored     it is inserted and being read again, with its sender         *)
(***************************************************************************)
Phase == {"idle", "loading", "creating", "stored"}

SendState ==
  [phase: Phase, socket: Sockets \cup {None}, conv: Conversations \cup {None},
   sender: Users \cup {None}, row: Nat]

Idle == [phase |-> "idle", socket |-> None, conv |-> None, sender |-> None, row |-> 0]

Message == [conv: Conversations, sender: Users, is_read: BOOLEAN]

ChatTypeOK ==
  /\ open \subseteq Sockets
  /\ userId \in [Sockets -> Users \cup {None}]
  /\ userSockets \in [Users -> SUBSET Sockets]
  /\ room \in [Users -> SUBSET open]
  /\ sending \in [Slots -> SendState]
  /\ \A x \in Slots :
       /\ sending[x].phase # "idle" =>
            sending[x].socket \in Sockets /\ sending[x].conv \in Conversations
       /\ sending[x].phase \in {"creating", "stored"} => sending[x].sender \in Users
       /\ sending[x].phase = "stored" => sending[x].row \in DOMAIN messages
  /\ messages \in Seq(Message)
  /\ shown \in Seq(Users \cup {None}) /\ Len(shown) = Len(messages)
  /\ readTo \in [Conversations -> [Users -> Nat]]
  /\ been \in [Sockets -> SUBSET Users]
  /\ switched \subseteq Slots
  /\ excused \subseteq DOMAIN messages

Forgotten == [u \in Users |-> {}]

ChatInit ==
  /\ open = {} /\ userId = [s \in Sockets |-> None]
  /\ userSockets = Forgotten /\ room = Forgotten
  /\ sending = [x \in Slots |-> Idle]
  /\ messages = <<>> /\ shown = <<>>
  /\ readTo = [c \in Conversations |-> [u \in Users |-> 0]]
  /\ been = [s \in Sockets |-> {}]
  /\ switched = {} /\ excused = {}

-----------------------------------------------------------------------------
\* A client connects.  Its id is new: nothing remembers it.
Connect(s) ==
  /\ s \notin open
  /\ \A u \in Users : s \notin userSockets[u]
  /\ \A x \in Slots : sending[x].socket # s
  /\ open' = open \cup {s}
  /\ userId' = [userId EXCEPT ![s] = None]
  /\ been' = [been EXCEPT ![s] = {}]
  /\ UNCHANGED <<userSockets, room, sending, messages, shown, switched, excused, readTo>>

\* handleAuth with a valid token of u: the token is verified, the table
\* changed and the room joined without giving way to anybody.
HandleAuth(s, u) ==
  /\ s \in open
  /\ userId' = [userId EXCEPT ![s] = u]
  /\ userSockets' = [userSockets EXCEPT ![u] = @ \cup {s}]
  /\ room' = [room EXCEPT ![u] = @ \cup {s}]
  /\ been' = [been EXCEPT ![s] = @ \cup {u}]
  /\ switched' = IF userId[s] = u THEN switched
                 ELSE switched \cup {x \in Slots : sending[x].socket = s}
  /\ UNCHANGED <<open, sending, messages, shown, excused, readTo>>

\* Defective variant: the table is not cleaned up.
DropNothing(s) == userSockets

\* handleDisconnect takes the socket from the table, under its present user.
Drop(s) ==
  IF userId[s] = None THEN userSockets
  ELSE [userSockets EXCEPT ![userId[s]] = @ \ {s}]

\* A client disconnects; socket.io takes it out of its rooms.  The handlers it
\* started go on.
HandleDisconnect(s) ==
  /\ s \in open
  /\ open' = open \ {s}
  /\ userSockets' = Drop(s)
  /\ room' = [u \in Users |-> room[u] \ {s}]
  /\ UNCHANGED <<userId, been, sending, messages, shown, switched, excused, readTo>>

-----------------------------------------------------------------------------
Assign(x, state) == sending' = [sending EXCEPT ![x] = state]

Insert(c, u) ==
  /\ messages' = Append(messages, [conv |-> c, sender |-> u, is_read |-> FALSE])
  /\ shown' = Append(shown, None)

\* send_message and send_offer_message, up to the query for the order or offer.
HandleSend(x) ==
  \E s \in open, c \in Conversations :
    /\ sending[x].phase = "idle" /\ userId[s] # None
    /\ Assign(x, [Idle EXCEPT !.phase = "loading", !.socket = s, !.conv = c])
    /\ switched' = switched \ {x}
    /\ UNCHANGED <<socketVars, messages, shown, excused, readTo>>

\* Defective variant: whoever the socket is by now, the check was made before.
CheckPartyEarly(x) ==
  /\ sending[x].phase = "loading"
  /\ Assign(x, IF userId[sending[x].socket] \in Parties(sending[x].conv) \/ x \in switched
               THEN [sending[x] EXCEPT !.phase = "creating",
                                       !.sender = userId[sending[x].socket]]
               ELSE Idle)
  /\ UNCHANGED <<socketVars, messages, shown, switched, excused, readTo>>

\* The order is there.  A user who is no party to it is turned away; for a
\* party the message is created, with the user the socket has at this moment.
CheckParty(x) ==
  /\ sending[x].phase = "loading"
  /\ Assign(x, IF userId[sending[x].socket] \in Parties(sending[x].conv)
               THEN [sending[x] EXCEPT !.phase = "creating",
                                       !.sender = userId[sending[x].socket]]
               ELSE Idle)
  /\ switched' = switched \ {x}
  /\ UNCHANGED <<socketVars, messages, shown, excused, readTo>>

\* The insert.
SaveMessage(x) ==
  /\ sending[x].phase = "creating"
  /\ Insert(sending[x].conv, sending[x].sender)
  /\ Assign(x, [sending[x] EXCEPT !.phase = "stored", !.row = Len(messages')])
  /\ UNCHANGED <<socketVars, switched, excused, readTo>>

\* Defective variant: emitted only to a party that is online.
EmitOnline(x) ==
  /\ sending[x].phase = "stored"
  /\ LET to == OtherParty(sending[x].conv, userId[sending[x].socket])
     IN shown' = IF userSockets[to] = {} THEN shown
                 ELSE [shown EXCEPT ![sending[x].row] = to]
  /\ excused' = IF x \in switched THEN excused \cup {sending[x].row} ELSE excused
  /\ Assign(x, Idle)
  /\ UNCHANGED <<socketVars, messages, switched, readTo>>

\* The message goes to the room of the party that the socket's user, who may
\* be another one by now, is not.
Emit(x) ==
  /\ sending[x].phase = "stored"
  /\ shown' = [shown EXCEPT ![sending[x].row] =
                 OtherParty(sending[x].conv, userId[sending[x].socket])]
  /\ excused' = IF x \in switched THEN excused \cup {sending[x].row} ELSE excused
  /\ Assign(x, Idle)
  /\ UNCHANGED <<socketVars, messages, switched, readTo>>

\* sendOrderMessage and sendOfferMessage over HTTP: an insert that is shown to
\* nobody.
SendOverHttp(u) ==
  \E c \in Conversations :
    /\ u \in Parties(c)
    /\ Insert(c, u)
    /\ excused' = excused \cup {Len(messages')}
    /\ UNCHANGED <<socketVars, sending, switched, readTo>>

\* For the ghost: u marks c as read, where others wrote, with all the messages
\* that there are.
Wrote(v, c) == \E i \in DOMAIN messages : messages[i].conv = c /\ messages[i].sender = v

Seen(u, c) ==
  readTo' = [readTo EXCEPT ![c] = [v \in Users |-> IF v # u /\ Wrote(v, c)
                                                  THEN Len(messages) ELSE @[v]]]

\* Defective variant: the reader's own messages are marked, the others are not.
MarkReadOwn(u, c) ==
  /\ messages' = [i \in DOMAIN messages |->
                    IF messages[i].conv = c /\ messages[i].sender = u
                    THEN [messages[i] EXCEPT !.is_read = TRUE] ELSE messages[i]]
  /\ Seen(u, c)
  /\ UNCHANGED <<socketVars, sending, shown, switched, excused>>

\* The UPDATE of mark_read and of markOrderMessagesRead.
MarkRead(u, c) ==
  /\ messages' = [i \in DOMAIN messages |->
                    IF messages[i].conv = c /\ messages[i].sender # u
                    THEN [messages[i] EXCEPT !.is_read = TRUE] ELSE messages[i]]
  /\ Seen(u, c)
  /\ UNCHANGED <<socketVars, sending, shown, switched, excused>>

\* mark_read asks only that the socket is authenticated.
HandleMarkRead(s) ==
  \E c \in OfOrders : s \in open /\ userId[s] # None /\ MarkRead(userId[s], c)

\* Over HTTP the user must be a party.
MarkReadOverHttp(u) == \E c \in OfOrders : u \in Parties(c) /\ MarkRead(u, c)

\* A query throws: the client gets an error, the message may be stored.
FailSend(x) ==
  /\ sending[x].phase # "idle"
  /\ excused' = IF sending[x].phase = "stored" THEN excused \cup {sending[x].row} ELSE excused
  /\ Assign(x, Idle)
  /\ UNCHANGED <<socketVars, messages, shown, switched, readTo>>

\* The process stops: connections, tables, rooms and handlers are gone, the
\* messages stay.
GatewayStops ==
  /\ open' = {} /\ userSockets' = Forgotten /\ room' = Forgotten
  /\ userId' = [s \in Sockets |-> None] /\ been' = [s \in Sockets |-> {}]
  /\ sending' = [x \in Slots |-> Idle] /\ switched' = {}
  /\ excused' = excused \cup {sending[x].row : x \in {y \in Slots : sending[y].phase = "stored"}}
  /\ UNCHANGED <<messages, shown, readTo>>

-----------------------------------------------------------------------------
SocketStep(s) ==
  \/ Connect(s)
  \/ \E u \in Users : HandleAuth(s, u)
  \/ HandleDisconnect(s)
  \/ HandleMarkRead(s)

SendStep(x) == CheckParty(x) \/ SaveMessage(x) \/ Emit(x)

-----------------------------------------------------------------------------
(***************************************************************************)
(* Properties.                                                             *)
(***************************************************************************)

\* The gateway's table agrees with the rooms of socket.io: while a socket was
\* never anybody but one user, it is in the table exactly when it is in the
\* room.  A socket that changed its user leaves at most its former users'
\* entries behind when it closes.
TableMatchesRooms ==
  \A s \in Sockets, u \in Users :
    /\ been[s] \subseteq {u} => (s \in userSockets[u] <=> s \in room[u])
    /\ (s \in userSockets[u] /\ s \notin open) => u \in been[s] \ {userId[s]}

\* However sockets change their users while their messages are on the way, a
\* message is stored under the name of a party of its conversation, and it is
\* shown to the other one, unless the socket changed its user after that.
RightParties ==
  \A i \in DOMAIN messages :
    LET m == messages[i] IN
    /\ m.sender \in Parties(m.conv)
    /\ shown[i] # None => shown[i] \in Parties(m.conv)
    /\ shown[i] # None /\ i \notin excused => shown[i] = OtherParty(m.conv, m.sender)

\* The two parties of an order keep their unread messages apart: a message is
\* read exactly when somebody else than its sender marked its conversation as read
\* after it was stored.  Marking does not touch what the reader wrote, which is for
\* the other party to read, nor another conversation, nor a message that comes
\* later, and it leaves nothing out.  That somebody may be a third user: mark_read
\* asks only for an authenticated socket.
BadgesApart ==
  \A i \in DOMAIN messages :
    LET m == messages[i] IN
    m.is_read <=> i <= readTo[m.conv][m.sender]

=============================================================================
