---------------------------- MODULE Inbox_proofs ----------------------------
(***************************************************************************)
(* Theorems about Inbox: however sockets change their users, queries throw *)
(* and the process stops, messages have the right parties, the gateway's   *)
(* table agrees with the rooms, marking reads the other side only, and a   *)
(* notification is repeated only if something failed.                      *)
(***************************************************************************)
EXTENDS Inbox, SequenceTheorems, TLAPS

-----------------------------------------------------------------------------
(***************************************************************************)
(* Types.                                                                  *)
(***************************************************************************)

LEMMA InboxTypeInit == InboxInit => TypeOK
<1> SUFFICES ASSUME InboxInit PROVE TypeOK
  OBVIOUS
<1>1. ChatTypeOK
  <2>1. Idle \in SendState /\ Idle.phase = "idle"
    BY DEF Idle, SendState, Phase
  <2>2. QED
    BY <2>1 DEF InboxInit, ChatInit, ChatTypeOK, Forgotten
<1>2. NotificationsTypeOK
  BY AttemptsAssumption
     DEF InboxInit, NotificationsInit, NotificationsTypeOK, NoticeState, WorkerState, Free
<1>3. QED
  BY <1>1, <1>2 DEF InboxInit, TypeOK

\* Everything Inbox does to the sockets, the handlers and the messages.
LEMMA ChatCases ==
  ASSUME [InboxNext]_inboxVars
  PROVE  \/ \E s \in Sockets : Connect(s) \/ HandleDisconnect(s) \/ HandleMarkRead(s)
         \/ \E s \in Sockets, u \in Users : HandleAuth(s, u)
         \/ \E x \in Slots : HandleSend(x) \/ CheckParty(x) \/ SaveMessage(x) \/ Emit(x)
         \/ \E x \in Slots : FailSend(x)
         \/ \E u \in Users : SendOverHttp(u) \/ MarkReadOverHttp(u)
         \/ GatewayStops
         \/ UNCHANGED chatVars
<1>1. CASE ChatStep
  BY <1>1 DEF ChatStep, SocketStep, SendStep
<1>2. CASE NotificationsStep \/ QueryThrows \/ Restart \/ UNCHANGED inboxVars
  BY <1>2 DEF NotificationsStep, QueryThrows, Restart, inboxVars
<1>3. QED
  BY <1>1, <1>2 DEF InboxNext

\* And everything it does to the notifications.
LEMMA NotificationsCases ==
  ASSUME [InboxNext]_inboxVars
  PROVE  \/ \E n \in Notices : CreateNotification(n) \/ Start(n)
         \/ Process \/ Complete \/ Throw \/ WorkerStops
         \/ \E u \in Users : MarkOne(u) \/ MarkAllRead(u)
         \/ UNCHANGED notificationVars
<1>1. CASE NotificationsStep
  BY <1>1 DEF NotificationsStep, WorkerStep
<1>2. CASE ChatStep \/ QueryThrows \/ Restart \/ UNCHANGED inboxVars
  BY <1>2 DEF ChatStep, QueryThrows, Restart, inboxVars
<1>3. QED
  BY <1>1, <1>2 DEF InboxNext

\* An insert adds one message, which nobody was shown.
Inserted(c, u) ==
  /\ messages' \in Seq(Message) /\ shown' \in Seq(Users \cup {None})
  /\ Len(messages') = Len(messages) + 1 /\ Len(shown') = Len(messages')
  /\ DOMAIN messages = 1..Len(messages) /\ DOMAIN messages' = 1..Len(messages')
  /\ \A i \in DOMAIN messages : messages'[i] = messages[i] /\ shown'[i] = shown[i]
  /\ messages'[Len(messages')] = [conv |-> c, sender |-> u, is_read |-> FALSE]
  /\ shown'[Len(messages')] = None
  /\ Len(messages) \in Nat

LEMMA InsertType ==
  ASSUME ChatTypeOK, NEW c \in Conversations, NEW u \in Users, Insert(c, u)
  PROVE  Inserted(c, u)
<1>1. [conv |-> c, sender |-> u, is_read |-> FALSE] \in Message
  BY DEF Message
<1>2. QED
  BY <1>1 DEF Inserted, Insert, ChatTypeOK

LEMMA MarkReadType ==
  ASSUME ChatTypeOK, NEW u \in Users, NEW c \in Conversations, MarkRead(u, c)
  PROVE  ChatTypeOK' /\ Len(messages') = Len(messages)
<1>1. \A i \in 1..Len(messages) :
        messages[i] \in Message /\ [messages[i] EXCEPT !.is_read = TRUE] \in Message
  <2>1. \A m \in Message : [m EXCEPT !.is_read = TRUE] \in Message
    BY DEF Message
  <2>2. QED
    BY <2>1, ElementOfSeq DEF ChatTypeOK
<1>2. DOMAIN messages = 1..Len(messages) /\ Len(messages) \in Nat
  BY DEF ChatTypeOK
<1>3. messages' \in [1..Len(messages) -> Message]
  BY <1>1, <1>2 DEF MarkRead
<1>4. messages' \in Seq(Message) /\ Len(messages') = Len(messages)
  BY <1>2, <1>3
<1>5. UNCHANGED <<socketVars, sending, shown, switched, excused>>
  BY DEF MarkRead
<1>6. readTo' \in [Conversations -> [Users -> Nat]]
  BY <1>2 DEF MarkRead, Seen, ChatTypeOK
<1>7. QED
  BY <1>2, <1>3, <1>4, <1>5, <1>6 DEF ChatTypeOK, socketVars

LEMMA ChatTypeStep == ChatTypeOK /\ [InboxNext]_inboxVars => ChatTypeOK'
<1> SUFFICES ASSUME ChatTypeOK, [InboxNext]_inboxVars PROVE ChatTypeOK'
  OBVIOUS
<1>0. Idle \in SendState /\ Idle.phase = "idle"
  BY DEF Idle, SendState, Phase
<1>1. ASSUME NEW s \in Sockets, Connect(s) PROVE ChatTypeOK'
  BY <1>1 DEF Connect, ChatTypeOK
<1>2. ASSUME NEW s \in Sockets, HandleDisconnect(s) PROVE ChatTypeOK'
  <2>1. userSockets' \in [Users -> SUBSET Sockets]
    BY <1>2 DEF HandleDisconnect, Drop, ChatTypeOK
  <2>2. QED
    BY <1>2, <2>1 DEF HandleDisconnect, ChatTypeOK
<1>3. ASSUME NEW u \in Users, NEW c \in Conversations, MarkRead(u, c) PROVE ChatTypeOK'
  BY <1>3, MarkReadType
<1>4. ASSUME NEW s \in Sockets, NEW u \in Users, HandleAuth(s, u) PROVE ChatTypeOK'
  BY <1>4 DEF HandleAuth, ChatTypeOK
<1>5. ASSUME NEW x \in Slots, HandleSend(x) \/ CheckParty(x) PROVE ChatTypeOK'
  <2>1. PICK y \in SendState :
          /\ Assign(x, y) /\ y.phase # "stored"
          /\ y.phase # "idle" => y.socket \in Sockets /\ y.conv \in Conversations
          /\ y.phase = "creating" => y.sender \in Users
    <3>1. CASE HandleSend(x)
      <4>1. PICK s \in open, c \in Conversations :
              Assign(x, [Idle EXCEPT !.phase = "loading", !.socket = s, !.conv = c])
        BY <3>1 DEF HandleSend
      <4>2. s \in Sockets
        BY DEF ChatTypeOK
      <4>3. PICK y : y = [Idle EXCEPT !.phase = "loading", !.socket = s, !.conv = c]
        OBVIOUS
      <4>4. y \in SendState /\ y.phase = "loading" /\ y.socket = s /\ y.conv = c
        BY <4>2, <4>3 DEF Idle, SendState, Phase
      <4>5. QED
        BY <4>1, <4>2, <4>3, <4>4
    <3>2. CASE CheckParty(x)
      <4>1. CASE Assign(x, Idle)
        BY <1>0, <4>1
      <4>2. CASE /\ Assign(x, [sending[x] EXCEPT !.phase = "creating",
                                                 !.sender = userId[sending[x].socket]])
                 /\ userId[sending[x].socket] \in Parties(sending[x].conv)
        <5>1. /\ sending[x] \in SendState
              /\ sending[x].socket \in Sockets /\ sending[x].conv \in Conversations
          BY <3>2 DEF CheckParty, ChatTypeOK
        <5>2. userId[sending[x].socket] \in Users
          BY <4>2, <5>1, PartiesAssumption DEF Parties
        <5>3. PICK y : y = [sending[x] EXCEPT !.phase = "creating",
                                              !.sender = userId[sending[x].socket]]
          OBVIOUS
        <5>4. /\ y \in SendState /\ y.phase = "creating"
              /\ y.socket = sending[x].socket /\ y.conv = sending[x].conv
              /\ y.sender = userId[sending[x].socket]
          BY <5>1, <5>2, <5>3 DEF SendState, Phase
        <5>5. QED
          BY <4>2, <5>1, <5>2, <5>3, <5>4
      <4>3. QED
        BY <3>2, <4>1, <4>2 DEF CheckParty
    <3>3. QED
      BY <1>5, <3>1, <3>2
  <2>2. /\ UNCHANGED <<socketVars, messages, shown, excused, readTo>>
        /\ switched' = switched \ {x}
    BY <1>5 DEF HandleSend, CheckParty
  <2>3. sending' = [sending EXCEPT ![x] = y]
    BY <2>1 DEF Assign
  <2>4. QED
    BY <2>1, <2>2, <2>3 DEF ChatTypeOK, socketVars
<1>6. ASSUME NEW x \in Slots, SaveMessage(x) PROVE ChatTypeOK'
  <2>1. /\ sending[x] \in SendState /\ sending[x].conv \in Conversations
        /\ sending[x].socket \in Sockets
        /\ sending[x].sender \in Users
    BY <1>6 DEF SaveMessage, ChatTypeOK
  <2>2. Inserted(sending[x].conv, sending[x].sender)
    BY <1>6, <2>1, InsertType DEF SaveMessage
  <2>3. PICK y : y = [sending[x] EXCEPT !.phase = "stored", !.row = Len(messages')]
    OBVIOUS
  <2>4. /\ y \in SendState /\ y.row = Len(messages')
        /\ y.socket \in Sockets /\ y.conv \in Conversations /\ y.sender \in Users
    <3>1. PICK n \in Nat : n = Len(messages')
      BY <2>2 DEF Inserted
    <3>2. y = [sending[x] EXCEPT !.phase = "stored", !.row = n]
      BY <2>3, <3>1
    <3>3. QED
      BY <2>1, <3>1, <3>2 DEF SendState, Phase
  <2>5. sending' = [sending EXCEPT ![x] = y] /\ UNCHANGED <<socketVars, switched, excused, readTo>>
    BY <1>6, <2>3 DEF SaveMessage, Assign
  <2>6. y.row \in DOMAIN messages' /\ DOMAIN messages \subseteq DOMAIN messages'
    BY <2>2, <2>4 DEF Inserted
  <2>7. QED
    BY <2>2, <2>4, <2>5, <2>6 DEF ChatTypeOK, socketVars, Inserted
<1>7. ASSUME NEW x \in Slots, Emit(x) PROVE ChatTypeOK'
  <2>1. /\ sending[x].row \in DOMAIN messages
        /\ sending[x].socket \in Sockets /\ sending[x].conv \in Conversations
    BY <1>7 DEF Emit, ChatTypeOK
  <2>2. OtherParty(sending[x].conv, userId[sending[x].socket]) \in Users \cup {None}
    BY <2>1, PartiesAssumption DEF OtherParty
  <2>3. DOMAIN messages = 1..Len(shown)
    BY DEF ChatTypeOK
  <2>4. shown' \in Seq(Users \cup {None}) /\ Len(shown') = Len(shown)
    BY <1>7, <2>1, <2>2, <2>3, ExceptSeq DEF Emit, ChatTypeOK
  <2>5. excused' \subseteq DOMAIN messages
    BY <1>7, <2>1 DEF Emit, ChatTypeOK
  <2>6. /\ sending' = [sending EXCEPT ![x] = Idle]
        /\ UNCHANGED <<socketVars, messages, switched, readTo>>
    BY <1>7 DEF Emit, Assign
  <2>7. QED
    BY <1>0, <2>4, <2>5, <2>6 DEF ChatTypeOK, socketVars
<1>8. ASSUME NEW x \in Slots, FailSend(x) PROVE ChatTypeOK'
  <2>1. excused' \subseteq DOMAIN messages
    BY <1>8 DEF FailSend, ChatTypeOK
  <2>2. /\ sending' = [sending EXCEPT ![x] = Idle]
        /\ UNCHANGED <<socketVars, messages, shown, switched, readTo>>
    BY <1>8 DEF FailSend, Assign
  <2>3. QED
    BY <1>0, <2>1, <2>2 DEF ChatTypeOK, socketVars
<1>9. ASSUME NEW u \in Users, SendOverHttp(u) PROVE ChatTypeOK'
  <2>1. PICK c \in Conversations :
          /\ Insert(c, u) /\ excused' = excused \cup {Len(messages')}
          /\ UNCHANGED <<socketVars, sending, switched, readTo>>
    BY <1>9 DEF SendOverHttp
  <2>2. Inserted(c, u)
    BY <2>1, InsertType
  <2>3. DOMAIN messages \subseteq DOMAIN messages' /\ Len(messages') \in DOMAIN messages'
    BY <2>2 DEF Inserted
  <2>4. QED
    BY <2>1, <2>2, <2>3 DEF ChatTypeOK, socketVars, Inserted
<1>10. CASE GatewayStops
  <2>1. excused' \subseteq DOMAIN messages
    BY <1>10 DEF GatewayStops, ChatTypeOK
  <2>2. QED
    BY <1>0, <1>10, <2>1 DEF GatewayStops, ChatTypeOK, Forgotten
<1>11. ASSUME NEW s \in Sockets, HandleMarkRead(s) PROVE ChatTypeOK'
  BY <1>3, <1>11, PartiesAssumption DEF HandleMarkRead, ChatTypeOK
<1>12. ASSUME NEW u \in Users, MarkReadOverHttp(u) PROVE ChatTypeOK'
  BY <1>3, <1>12, PartiesAssumption DEF MarkReadOverHttp
<1>13. CASE UNCHANGED chatVars
  BY <1>13 DEF chatVars, socketVars, ChatTypeOK
<1>14. QED
  BY <1>1, <1>2, <1>4, <1>5, <1>6, <1>7, <1>8, <1>9, <1>10, <1>11, <1>12, <1>13, ChatCases

LEMMA NotificationsTypeStep ==
  NotificationsTypeOK /\ [InboxNext]_inboxVars => NotificationsTypeOK'
<1> SUFFICES ASSUME NotificationsTypeOK, [InboxNext]_inboxVars PROVE NotificationsTypeOK'
  OBVIOUS
<1>0. Free \in WorkerState /\ Free.phase = "idle"
  BY DEF Free, WorkerState
<1>1. ASSUME NEW n \in Notices, CreateNotification(n) PROVE NotificationsTypeOK'
  BY <1>1 DEF CreateNotification, NotificationsTypeOK, NoticeState
<1>2. ASSUME NEW n \in Notices, Start(n) PROVE NotificationsTypeOK'
  BY <1>2 DEF Start, NotificationsTypeOK, NoticeState, WorkerState
<1>3. CASE Process
  BY <1>3 DEF Process, NotificationsTypeOK, WorkerState, Free
<1>4. CASE Complete
  BY <1>0, <1>4 DEF Complete, NotificationsTypeOK, NoticeState
<1>5. CASE Throw
  <2>1. worker.notice \in Notices /\ worker' = Free
    BY <1>5 DEF Throw, NotificationsTypeOK, WorkerState, Free
  <2>2. throws' \in [Notices -> Nat]
    BY <1>5, <2>1 DEF Throw, NotificationsTypeOK
  <2>3. PICK state \in {"waiting", "failed"} : notice' = [notice EXCEPT ![worker.notice] = state]
    BY <1>5 DEF Throw
  <2>4. QED
    BY <1>0, <1>5, <2>1, <2>2, <2>3 DEF Throw, NotificationsTypeOK, NoticeState
<1>6. CASE WorkerStops
  BY <1>0, <1>6 DEF WorkerStops, NotificationsTypeOK, NoticeState
<1>7. ASSUME NEW u \in Users, MarkOne(u) PROVE NotificationsTypeOK'
  BY <1>7 DEF MarkOne, NotificationsTypeOK
<1>8. ASSUME NEW u \in Users, MarkAllRead(u) PROVE NotificationsTypeOK'
  BY <1>8 DEF MarkAllRead, NotificationsTypeOK
<1>9. CASE UNCHANGED notificationVars
  BY <1>9 DEF notificationVars, NotificationsTypeOK
<1>10. QED
  BY <1>1, <1>2, <1>3, <1>4, <1>5, <1>6, <1>7, <1>8, <1>9, NotificationsCases

LEMMA InboxTypeStep == TypeOK /\ [InboxNext]_inboxVars => TypeOK'
<1> SUFFICES ASSUME TypeOK, [InboxNext]_inboxVars PROVE TypeOK'
  OBVIOUS
<1>1. failures' \in Nat
  BY DEF TypeOK, InboxNext, ChatStep, NotificationsStep, QueryThrows, Restart, inboxVars
<1>2. QED
  BY <1>1, ChatTypeStep, NotificationsTypeStep DEF TypeOK

\* The sockets, the messages and the queue keep their types.
THEOREM TypeCorrect == InboxSpec => []TypeOK
BY InboxTypeInit, InboxTypeStep, PTL DEF InboxSpec

-----------------------------------------------------------------------------
(***************************************************************************)
(* The gateway's table and the rooms.                                      *)
(***************************************************************************)

LEMMA SocketInit == InboxInit => SocketInv
BY DEF InboxInit, ChatInit, Forgotten, SocketInv

LEMMA SocketStepInv == TypeOK /\ SocketInv /\ [InboxNext]_inboxVars => SocketInv'
<1> SUFFICES ASSUME TypeOK, SocketInv, [InboxNext]_inboxVars PROVE SocketInv'
  OBVIOUS
<1>0. ChatTypeOK /\ None \notin Users
  BY NobodyAssumption DEF TypeOK
<1>1. ASSUME NEW s \in Sockets, Connect(s) PROVE SocketInv'
  BY <1>0, <1>1 DEF Connect, ChatTypeOK, SocketInv
<1>2. ASSUME NEW s \in Sockets, HandleDisconnect(s) PROVE SocketInv'
  BY <1>0, <1>2 DEF HandleDisconnect, Drop, ChatTypeOK, SocketInv
<1>3. ASSUME NEW s \in Sockets, NEW u \in Users, HandleAuth(s, u) PROVE SocketInv'
  BY <1>0, <1>3 DEF HandleAuth, ChatTypeOK, SocketInv
<1>4. CASE GatewayStops
  BY <1>4 DEF GatewayStops, Forgotten, SocketInv
<1>5. CASE UNCHANGED socketVars
  BY <1>5 DEF socketVars, SocketInv
<1>6. QED
  BY <1>1, <1>2, <1>3, <1>4, <1>5, ChatCases
     DEF HandleMarkRead, MarkReadOverHttp, MarkRead, HandleSend, CheckParty, SaveMessage, Emit,
         FailSend, SendOverHttp, chatVars

\* While a socket was only ever one user, the table has it exactly when the room
\* has it, whatever is on the way and however often the process stops.
THEOREM TableMatchesRoomsHolds == InboxSpec => []TableMatchesRooms
<1>1. TypeOK /\ SocketInv => TableMatchesRooms
  BY DEF TypeOK, ChatTypeOK, SocketInv, TableMatchesRooms
<1>2. QED
  BY <1>1, TypeCorrect, SocketInit, SocketStepInv, PTL DEF InboxSpec

-----------------------------------------------------------------------------
(***************************************************************************)
(* The parties of a message.                                               *)
(***************************************************************************)

\* The other party of a party is the other party, whoever asks.
LEMMA OtherPartyFacts ==
  ASSUME NEW c \in Conversations, NEW u
  PROVE  /\ OtherParty(c, u) \in Parties(c) /\ Parties(c) \subseteq Users
         /\ OtherParty(c, u) # u
BY PartiesAssumption DEF OtherParty, Parties

LEMMA ChatInvInit == InboxInit => SendInv /\ RightParties
BY DEF InboxInit, ChatInit, Idle, SendInv, RightParties

\* What the handlers and the messages keep while nobody inserts or emits.
LEMMA SendInvKept ==
  ASSUME TypeOK, SendInv, NEW z \in Slots,
         NEW y, sending' = [sending EXCEPT ![z] = y], y.phase \notin {"creating", "stored"},
         UNCHANGED <<socketVars, messages>>, switched' \in {switched, switched \ {z}}
  PROVE  SendInv'
<1> SUFFICES ASSUME NEW x \in Slots, sending'[x].phase \in {"creating", "stored"}
             PROVE  /\ sending'[x].sender \in Parties(sending'[x].conv)
                    /\ x \in switched' \/ userId'[sending'[x].socket] = sending'[x].sender
                    /\ sending'[x].phase = "stored" =>
                         /\ messages'[sending'[x].row].conv = sending'[x].conv
                         /\ messages'[sending'[x].row].sender = sending'[x].sender
  BY DEF SendInv, Parties
<1>1. x # z /\ sending'[x] = sending[x] /\ (x \in switched' <=> x \in switched)
  BY DEF TypeOK, ChatTypeOK
<1>2. QED
  BY <1>1 DEF SendInv, socketVars

LEMMA RightPartiesKept ==
  ASSUME RightParties, excused \subseteq excused', shown' = shown,
         DOMAIN messages' = DOMAIN messages,
         \A i \in DOMAIN messages : /\ messages'[i].conv = messages[i].conv
                                    /\ messages'[i].sender = messages[i].sender
  PROVE  RightParties'
BY DEF RightParties, Parties, OtherParty

LEMMA RightPartiesInserted ==
  ASSUME TypeOK, RightParties, NEW c \in Conversations, NEW u \in Parties(c),
         Insert(c, u), excused \subseteq excused'
  PROVE  Inserted(c, u) /\ RightParties'
<1>1. u \in Users /\ None \notin Users
  BY PartiesAssumption, NobodyAssumption DEF Parties
<1>2. Inserted(c, u)
  BY <1>1, InsertType DEF TypeOK
<1>3. ASSUME NEW i \in DOMAIN messages'
      PROVE  LET m == messages'[i] IN
             /\ m.sender \in Parties(m.conv)
             /\ shown'[i] # None => shown'[i] \in Parties(m.conv)
             /\ shown'[i] # None /\ i \notin excused' => shown'[i] = OtherParty(m.conv, m.sender)
  <2>1. CASE i \in DOMAIN messages
    BY <1>2, <2>1 DEF Inserted, RightParties
  <2>2. CASE i = Len(messages')
    BY <1>2, <2>2 DEF Inserted
  <2>3. QED
    BY <1>2, <2>1, <2>2 DEF Inserted
<1>4. QED
  BY <1>2, <1>3 DEF RightParties, Parties, OtherParty

LEMMA RightPartiesStep ==
  TypeOK /\ SendInv /\ RightParties /\ [InboxNext]_inboxVars => SendInv' /\ RightParties'
<1> SUFFICES ASSUME TypeOK, SendInv, RightParties, [InboxNext]_inboxVars
             PROVE  SendInv' /\ RightParties'
  OBVIOUS
<1>0. ChatTypeOK /\ None \notin Users
  BY NobodyAssumption DEF TypeOK
<1>1. ASSUME NEW s \in Sockets, Connect(s) PROVE SendInv' /\ RightParties'
  <2>1. \A x \in Slots : sending[x].socket # s
    BY <1>1 DEF Connect
  <2>2. SendInv'
    BY <1>0, <1>1, <2>1 DEF Connect, ChatTypeOK, SendInv, Parties
  <2>3. RightParties'
    BY <1>1, RightPartiesKept DEF Connect
  <2>4. QED
    BY <2>2, <2>3
<1>2. ASSUME NEW s \in Sockets, HandleDisconnect(s) PROVE SendInv' /\ RightParties'
  BY <1>2, RightPartiesKept DEF HandleDisconnect, SendInv, Parties
<1>3. ASSUME NEW s \in Sockets, NEW u \in Users, HandleAuth(s, u)
      PROVE  SendInv' /\ RightParties'
  <2>1. RightParties'
    BY <1>3, RightPartiesKept DEF HandleAuth
  <2>2. SendInv'
    <3> SUFFICES ASSUME NEW x \in Slots, sending[x].phase \in {"creating", "stored"}
                 PROVE  x \in switched' \/ userId'[sending[x].socket] = sending[x].sender
      BY <1>3 DEF HandleAuth, SendInv, Parties
    <3>1. CASE sending[x].socket = s /\ userId[s] # u
      BY <1>3, <3>1 DEF HandleAuth
    <3>2. CASE sending[x].socket # s \/ userId[s] = u
      BY <1>0, <1>3, <3>2 DEF HandleAuth, SendInv, ChatTypeOK
    <3>3. QED
      BY <3>1, <3>2
  <2>3. QED
    BY <2>1, <2>2
<1>4. ASSUME NEW x \in Slots, HandleSend(x) PROVE SendInv' /\ RightParties'
  <2>1. PICK s \in open, c \in Conversations :
          sending' = [sending EXCEPT ![x] = [Idle EXCEPT !.phase = "loading", !.socket = s,
                                                         !.conv = c]]
    BY <1>4 DEF HandleSend, Assign
  <2>2. [Idle EXCEPT !.phase = "loading", !.socket = s, !.conv = c].phase = "loading"
    BY DEF Idle
  <2>3. QED
    BY <1>4, <2>1, <2>2, SendInvKept, RightPartiesKept DEF HandleSend
<1>5. ASSUME NEW x \in Slots, CheckParty(x) PROVE SendInv' /\ RightParties'
  <2>1. UNCHANGED <<socketVars, messages, shown, excused>> /\ switched' = switched \ {x}
    BY <1>5 DEF CheckParty
  <2>2. RightParties'
    BY <2>1, RightPartiesKept
  <2>3. CASE Assign(x, Idle)
    BY <2>1, <2>2, <2>3, SendInvKept DEF Assign, Idle
  <2>4. CASE /\ Assign(x, [sending[x] EXCEPT !.phase = "creating",
                                             !.sender = userId[sending[x].socket]])
             /\ userId[sending[x].socket] \in Parties(sending[x].conv)
    <3>1. PICK y : y = [sending[x] EXCEPT !.phase = "creating",
                                          !.sender = userId[sending[x].socket]]
      OBVIOUS
    <3>2. sending[x] \in SendState /\ x \in DOMAIN sending
      BY <1>0 DEF ChatTypeOK
    <3>3. /\ y.phase = "creating" /\ y.conv = sending[x].conv /\ y.socket = sending[x].socket
          /\ y.sender = userId[sending[x].socket]
      BY <3>1, <3>2 DEF SendState
    <3>4. sending'[x] = y /\ \A z \in Slots \ {x} : sending'[z] = sending[z]
      BY <1>0, <2>4, <3>1 DEF Assign, ChatTypeOK
    <3>5. SendInv'
      BY <2>1, <2>4, <3>3, <3>4 DEF SendInv, Parties, socketVars
    <3>6. QED
      BY <2>2, <3>5
  <2>5. QED
    BY <1>5, <2>3, <2>4 DEF CheckParty
<1>6. ASSUME NEW x \in Slots, SaveMessage(x) PROVE SendInv' /\ RightParties'
  <2>1. /\ sending[x] \in SendState /\ sending[x].conv \in Conversations
        /\ sending[x].sender \in Parties(sending[x].conv)
        /\ x \in switched \/ userId[sending[x].socket] = sending[x].sender
    BY <1>0, <1>6 DEF SaveMessage, ChatTypeOK, SendInv
  <2>2. Insert(sending[x].conv, sending[x].sender) /\ UNCHANGED <<socketVars, switched, excused>>
    BY <1>6 DEF SaveMessage
  <2>3. Inserted(sending[x].conv, sending[x].sender) /\ RightParties'
    BY <2>1, <2>2, RightPartiesInserted
  <2>4. PICK y : y = [sending[x] EXCEPT !.phase = "stored", !.row = Len(messages')]
    OBVIOUS
  <2>5. /\ y.phase = "stored" /\ y.conv = sending[x].conv /\ y.sender = sending[x].sender
        /\ y.socket = sending[x].socket /\ y.row = Len(messages')
    BY <2>1, <2>4 DEF SendState
  <2>6. sending'[x] = y /\ \A z \in Slots \ {x} : sending'[z] = sending[z]
    BY <1>0, <1>6, <2>4 DEF SaveMessage, Assign, ChatTypeOK
  <2>7. /\ messages'[y.row].conv = sending[x].conv
        /\ messages'[y.row].sender = sending[x].sender
    BY <2>3, <2>5 DEF Inserted
  <2>8. \A z \in Slots \ {x} : sending[z].phase = "stored" =>
          messages'[sending[z].row] = messages[sending[z].row]
    BY <1>0, <2>3 DEF Inserted, ChatTypeOK
  <2>9. SendInv'
    <3> SUFFICES ASSUME NEW z \in Slots, sending'[z].phase \in {"creating", "stored"}
                 PROVE  /\ sending'[z].sender \in Parties(sending'[z].conv)
                        /\ z \in switched \/ userId[sending'[z].socket] = sending'[z].sender
                        /\ sending'[z].phase = "stored" =>
                             /\ messages'[sending'[z].row].conv = sending'[z].conv
                             /\ messages'[sending'[z].row].sender = sending'[z].sender
      BY <2>2 DEF SendInv, Parties, socketVars
    <3>1. CASE z = x
      BY <2>1, <2>5, <2>6, <2>7, <3>1
    <3>2. CASE z # x
      BY <2>6, <2>8, <3>2 DEF SendInv
    <3>3. QED
      BY <3>1, <3>2
  <2>10. QED
    BY <2>3, <2>9
<1>7. ASSUME NEW x \in Slots, Emit(x) PROVE SendInv' /\ RightParties'
  <2>1. SendInv'
    BY <1>7, SendInvKept DEF Emit, Assign, Idle
  <2>2. PICK i \in DOMAIN messages : i = sending[x].row
    BY <1>0, <1>7 DEF Emit, ChatTypeOK
  <2>3. PICK to : to = OtherParty(sending[x].conv, userId[sending[x].socket])
    OBVIOUS
  <2>4. /\ shown'[i] = to /\ \A j \in DOMAIN messages \ {i} : shown'[j] = shown[j]
        /\ messages' = messages /\ excused \subseteq excused'
        /\ x \in switched => i \in excused'
    <3>1. DOMAIN shown = DOMAIN messages
      BY <1>0 DEF ChatTypeOK
    <3>2. QED
      BY <1>7, <2>2, <2>3, <3>1 DEF Emit
  <2>5. /\ sending[x].conv \in Conversations
        /\ messages[i].conv = sending[x].conv /\ messages[i].sender = sending[x].sender
        /\ x \in switched \/ userId[sending[x].socket] = sending[x].sender
    BY <1>0, <1>7, <2>2 DEF Emit, ChatTypeOK, SendInv
  <2>6. to \in Parties(messages[i].conv)
    BY <2>3, <2>5, OtherPartyFacts
  <2>7. i \notin excused' => to = OtherParty(messages[i].conv, messages[i].sender)
    BY <2>3, <2>4, <2>5
  <2>8. RightParties'
    BY <2>4, <2>6, <2>7 DEF RightParties, Parties, OtherParty
  <2>9. QED
    BY <2>1, <2>8
<1>8. ASSUME NEW x \in Slots, FailSend(x) PROVE SendInv' /\ RightParties'
  <2>1. SendInv'
    BY <1>8, SendInvKept DEF FailSend, Assign, Idle
  <2>2. RightParties'
    BY <1>8, RightPartiesKept DEF FailSend
  <2>3. QED
    BY <2>1, <2>2
<1>9. ASSUME NEW u \in Users, SendOverHttp(u) PROVE SendInv' /\ RightParties'
  <2>1. PICK c \in Conversations :
          u \in Parties(c) /\ Insert(c, u) /\ excused' = excused \cup {Len(messages')}
    BY <1>9 DEF SendOverHttp
  <2>2. Inserted(c, u) /\ RightParties'
    BY <2>1, RightPartiesInserted
  <2>3. UNCHANGED <<socketVars, sending, switched>>
    BY <1>9 DEF SendOverHttp
  <2>4. \A z \in Slots : sending[z].phase = "stored" =>
          messages'[sending[z].row] = messages[sending[z].row]
    BY <1>0, <2>2 DEF Inserted, ChatTypeOK
  <2>5. SendInv'
    BY <2>3, <2>4 DEF SendInv, Parties, socketVars
  <2>6. QED
    BY <2>2, <2>5
<1>10. ASSUME NEW u, NEW c, MarkRead(u, c) PROVE SendInv' /\ RightParties'
  <2>1. /\ DOMAIN messages' = DOMAIN messages
        /\ \A i \in DOMAIN messages : /\ messages'[i].conv = messages[i].conv
                                       /\ messages'[i].sender = messages[i].sender
    <3>1. \A i \in DOMAIN messages : messages[i] \in Message
      BY <1>0, ElementOfSeq DEF ChatTypeOK
    <3>2. \A m \in Message : /\ [m EXCEPT !.is_read = TRUE].conv = m.conv
                             /\ [m EXCEPT !.is_read = TRUE].sender = m.sender
      BY DEF Message
    <3>3. QED
      BY <1>10, <3>1, <3>2 DEF MarkRead
  <2>2. UNCHANGED <<socketVars, sending, shown, switched, excused>>
    BY <1>10 DEF MarkRead
  <2>3. RightParties'
    BY <2>1, <2>2, RightPartiesKept
  <2>4. \A z \in Slots : sending[z].phase = "stored" => sending[z].row \in DOMAIN messages
    BY <1>0 DEF ChatTypeOK
  <2>5. SendInv'
    BY <2>1, <2>2, <2>4 DEF SendInv, Parties, socketVars
  <2>6. QED
    BY <2>3, <2>5
<1>11. CASE GatewayStops
  <2>1. SendInv'
    BY <1>11 DEF GatewayStops, Idle, SendInv
  <2>2. RightParties'
    BY <1>11, RightPartiesKept DEF GatewayStops
  <2>3. QED
    BY <2>1, <2>2
<1>12. CASE UNCHANGED chatVars
  <2>1. RightParties'
    BY <1>12, RightPartiesKept DEF chatVars
  <2>2. SendInv'
    BY <1>12 DEF chatVars, socketVars, SendInv, Parties
  <2>3. QED
    BY <2>1, <2>2
<1>13. QED
  BY <1>1, <1>2, <1>3, <1>4, <1>5, <1>6, <1>7, <1>8, <1>9, <1>10, <1>11, <1>12, ChatCases
     DEF HandleMarkRead, MarkReadOverHttp

\* A message is stored under the name of a party of its conversation and shown to
\* the other one, however often sockets change their users on the way.
THEOREM RightPartiesHolds == InboxSpec => []RightParties
<1>1. SendInv /\ RightParties /\ TypeOK /\ [InboxNext]_inboxVars => SendInv' /\ RightParties'
  BY RightPartiesStep
<1>2. QED
  BY <1>1, TypeCorrect, ChatInvInit, PTL DEF InboxSpec

-----------------------------------------------------------------------------
(***************************************************************************)
(* Who reads for whom.                                                     *)
(***************************************************************************)

BadgesInv ==
  /\ BadgesApart
  /\ \A c \in Conversations, u \in Users : readTo[c][u] <= Len(messages)

LEMMA BadgesInit == InboxInit => BadgesInv
BY DEF InboxInit, ChatInit, BadgesInv, BadgesApart

\* A new message is one that nobody has marked yet.
LEMMA BadgesInserted ==
  ASSUME ChatTypeOK, BadgesInv, NEW c \in Conversations, NEW u \in Users, Insert(c, u),
         UNCHANGED readTo
  PROVE  BadgesInv'
<1>1. Inserted(c, u)
  BY InsertType
<1>2. readTo \in [Conversations -> [Users -> Nat]]
  BY DEF ChatTypeOK
<1>3. \A d \in Conversations, v \in Users : readTo'[d][v] <= Len(messages')
  BY <1>1, <1>2 DEF Inserted, BadgesInv
<1>4. ASSUME NEW i \in DOMAIN messages'
      PROVE  messages'[i].is_read <=> i <= readTo'[messages'[i].conv][messages'[i].sender]
  <2>1. CASE i \in DOMAIN messages
    BY <1>1, <2>1 DEF Inserted, BadgesInv, BadgesApart
  <2>2. CASE i = Len(messages')
    <3>1. /\ messages'[i].conv = c /\ messages'[i].sender = u /\ ~messages'[i].is_read
          /\ i = Len(messages) + 1 /\ Len(messages) \in Nat
      BY <1>1, <2>2 DEF Inserted
    <3>2. readTo'[c][u] \in Nat /\ readTo'[c][u] <= Len(messages)
      BY <1>2 DEF BadgesInv
    <3>3. QED
      BY <3>1, <3>2
  <2>3. QED
    BY <1>1, <2>1, <2>2 DEF Inserted
<1>5. QED
  BY <1>3, <1>4 DEF BadgesInv, BadgesApart

\* Marking a conversation reads what others wrote in it, and that alone.
LEMMA BadgesMarked ==
  ASSUME ChatTypeOK, BadgesInv, NEW u \in Users, NEW c \in Conversations, MarkRead(u, c)
  PROVE  BadgesInv'
<1>1. /\ readTo \in [Conversations -> [Users -> Nat]]
      /\ DOMAIN messages = 1..Len(messages) /\ Len(messages) \in Nat
      /\ \A i \in DOMAIN messages : messages[i] \in Message
  BY ElementOfSeq DEF ChatTypeOK
<1>2. \A d \in Conversations, v \in Users :
        readTo'[d][v] = IF d = c /\ v # u /\ Wrote(v, c) THEN Len(messages) ELSE readTo[d][v]
  BY <1>1 DEF MarkRead, Seen
<1>3. Len(messages') = Len(messages) /\ DOMAIN messages' = DOMAIN messages
  <2>1. Len(messages') = Len(messages)
    BY MarkReadType
  <2>2. DOMAIN messages' = DOMAIN messages
    BY DEF MarkRead
  <2>3. QED
    BY <2>1, <2>2
<1>4. \A d \in Conversations, v \in Users : readTo'[d][v] <= Len(messages')
  <2> TAKE d \in Conversations, v \in Users
  <2>1. readTo[d][v] \in Nat /\ readTo[d][v] <= Len(messages)
    BY <1>1 DEF BadgesInv
  <2>2. readTo'[d][v] = Len(messages) \/ readTo'[d][v] = readTo[d][v]
    BY <1>2
  <2>3. QED
    BY <1>1, <1>3, <2>1, <2>2
<1>5. ASSUME NEW i \in DOMAIN messages
      PROVE  messages'[i].is_read <=> i <= readTo'[messages'[i].conv][messages'[i].sender]
  <2>1. /\ messages[i].conv \in Conversations /\ messages[i].sender \in Users
        /\ messages[i].is_read <=> i <= readTo[messages[i].conv][messages[i].sender]
    BY <1>1 DEF Message, BadgesInv, BadgesApart
  <2>2. CASE messages[i].conv = c /\ messages[i].sender # u
    <3>1. messages'[i] = [messages[i] EXCEPT !.is_read = TRUE]
      BY <2>2 DEF MarkRead
    <3>2. /\ messages'[i].conv = c /\ messages'[i].sender = messages[i].sender
          /\ messages'[i].is_read
      BY <1>1, <2>2, <3>1 DEF Message
    <3>3. Wrote(messages[i].sender, c)
      BY <2>2 DEF Wrote
    <3>4. readTo'[c][messages[i].sender] = Len(messages)
      BY <1>2, <2>1, <2>2, <3>3
    <3>5. QED
      BY <1>1, <3>2, <3>4
  <2>3. CASE messages[i].conv # c \/ messages[i].sender = u
    <3>1. messages'[i] = messages[i]
      BY <2>3 DEF MarkRead
    <3>2. readTo'[messages[i].conv][messages[i].sender]
            = readTo[messages[i].conv][messages[i].sender]
      BY <1>2, <2>1, <2>3
    <3>3. QED
      BY <2>1, <3>1, <3>2
  <2>4. QED
    BY <2>2, <2>3
<1>6. QED
  BY <1>3, <1>4, <1>5 DEF BadgesInv, BadgesApart

LEMMA BadgesStep == TypeOK /\ BadgesInv /\ [InboxNext]_inboxVars => BadgesInv'
<1> SUFFICES ASSUME TypeOK, BadgesInv, [InboxNext]_inboxVars PROVE BadgesInv'
  OBVIOUS
<1>0. ChatTypeOK
  BY DEF TypeOK
<1>1. ASSUME NEW u \in Users, SendOverHttp(u) PROVE BadgesInv'
  BY <1>0, <1>1, BadgesInserted DEF SendOverHttp
<1>2. ASSUME NEW x \in Slots, SaveMessage(x) PROVE BadgesInv'
  <2>1. sending[x].conv \in Conversations /\ sending[x].sender \in Users
    BY <1>0, <1>2 DEF SaveMessage, ChatTypeOK
  <2>2. QED
    BY <1>0, <1>2, <2>1, BadgesInserted DEF SaveMessage
<1>3. ASSUME NEW s \in Sockets, HandleMarkRead(s) PROVE BadgesInv'
  <2>1. PICK c \in OfOrders : userId[s] # None /\ MarkRead(userId[s], c)
    BY <1>3 DEF HandleMarkRead
  <2>2. userId[s] \in Users /\ c \in Conversations
    BY <1>0, <2>1, PartiesAssumption DEF ChatTypeOK
  <2>3. QED
    BY <1>0, <2>1, <2>2, BadgesMarked
<1>4. ASSUME NEW u \in Users, MarkReadOverHttp(u) PROVE BadgesInv'
  <2>1. PICK c \in OfOrders : MarkRead(u, c)
    BY <1>4 DEF MarkReadOverHttp
  <2>2. c \in Conversations
    BY PartiesAssumption
  <2>3. QED
    BY <1>0, <2>1, <2>2, BadgesMarked
<1>5. ASSUME UNCHANGED <<messages, readTo>> PROVE BadgesInv'
  BY <1>5 DEF BadgesInv, BadgesApart
<1>6. QED
  BY <1>1, <1>2, <1>3, <1>4, <1>5, ChatCases
     DEF Connect, HandleAuth, HandleDisconnect, HandleSend, CheckParty, Emit, FailSend,
         GatewayStops, chatVars

\* A message of an order is read exactly when somebody else than its sender marked
\* the conversation after it was stored: marking reads the other side and all of
\* it, whatever is being sent meanwhile.
THEOREM BadgesApartHolds == InboxSpec => []BadgesApart
<1>1. BadgesInv => BadgesApart
  BY DEF BadgesInv
<1>2. QED
  BY <1>1, TypeCorrect, BadgesInit, BadgesStep, PTL DEF InboxSpec

-----------------------------------------------------------------------------
(***************************************************************************)
(* The rows of a notification.                                             *)
(***************************************************************************)

LEMMA NoticeInit == InboxInit => NoticeInv
BY AttemptsAssumption
   DEF InboxInit, NotificationsInit, Free, NoticeInv, WorkerInv, RowsPerAttempt

LEMMA NoticeStep == TypeOK /\ NoticeInv /\ [InboxNext]_inboxVars => NoticeInv'
<1> SUFFICES ASSUME TypeOK, NoticeInv, [InboxNext]_inboxVars PROVE NoticeInv'
  OBVIOUS
<1>0. NotificationsTypeOK /\ MaxAttempts \in Nat \ {0} /\ MaxStalls \in Nat
      /\ None \notin Notices
  BY AttemptsAssumption, NoticesAssumption DEF TypeOK
<1> USE <1>0 DEF NoticeInv, WorkerInv, RowsPerAttempt, NotificationsTypeOK, NoticeState
<1>1. ASSUME NEW n \in Notices, CreateNotification(n) PROVE NoticeInv'
  BY <1>1 DEF CreateNotification
<1>2. ASSUME NEW n \in Notices, Start(n) PROVE NoticeInv'
  BY <1>2 DEF Start, Free, WorkerState
<1>3. CASE Process
  BY <1>3 DEF Process, WorkerState, Free
<1>4. CASE Complete
  BY <1>4 DEF Complete, WorkerState, Free
<1>5. CASE Throw
  <2>1. PICK n \in Notices : n = worker.notice /\ notice[n] = "active"
    BY <1>5 DEF Throw, WorkerState, Free
  <2>2. worker' = Free /\ UNCHANGED <<stalls, rows>>
    BY <1>5 DEF Throw
  <2>3. throws' = [throws EXCEPT ![n] = throws[n] + 1]
    BY <1>5, <2>1 DEF Throw
  <2>4. notice' = [notice EXCEPT ![n] = IF throws[n] + 1 < MaxAttempts THEN "waiting"
                                        ELSE "failed"]
    BY <1>5, <2>1, <2>3 DEF Throw
  <2>5. \A m \in Notices \ {n} : notice[m] # "active"
    BY <2>1
  <2>6. QED
    BY <2>1, <2>2, <2>3, <2>4, <2>5 DEF Free
<1>6. CASE WorkerStops
  <2>1. CASE worker = Free
    BY <1>6, <2>1 DEF WorkerStops, Free
  <2>2. CASE worker # Free
    <3>1. PICK n \in Notices : n = worker.notice /\ notice[n] = "active"
      BY <2>2 DEF WorkerState, Free
    <3>2. /\ worker' = Free /\ UNCHANGED <<throws, rows>>
          /\ stalls' = [stalls EXCEPT ![n] = stalls[n] + 1]
          /\ notice' = [notice EXCEPT ![n] = IF stalls[n] < MaxStalls THEN "waiting"
                                             ELSE "failed"]
      BY <1>6, <2>2, <3>1 DEF WorkerStops
    <3>3. \A m \in Notices \ {n} : notice[m] # "active"
      BY <3>1
    <3>4. QED
      BY <3>1, <3>2, <3>3 DEF Free
  <2>3. QED
    BY <2>1, <2>2
<1>7. ASSUME NEW u \in Users, MarkOne(u) \/ MarkAllRead(u) PROVE NoticeInv'
  BY <1>7 DEF MarkOne, MarkAllRead
<1>8. CASE UNCHANGED notificationVars
  BY <1>8 DEF notificationVars
<1>9. QED
  BY <1>1, <1>2, <1>3, <1>4, <1>5, <1>6, <1>7, <1>8, NotificationsCases

\* A notification has no more rows than its attempts that went wrong and one, at
\* least one when its job is done, and its job is given up only after the last try.
THEOREM RowsPerAttemptHolds == InboxSpec => []RowsPerAttempt
<1>1. NoticeInv => RowsPerAttempt
  BY DEF NoticeInv
<1>2. QED
  BY <1>1, TypeCorrect, NoticeInit, NoticeStep, PTL DEF InboxSpec

=============================================================================
