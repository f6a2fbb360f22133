------------------------------- MODULE Inbox --------------------------------
(***************************************************************************)
(* What reaches a user: chat messages and notifications, which one process *)
(* handles.  When it stops, the connections, the gateway's table and the   *)
(* handlers of Chat and the worker of Notifications go with it; the tables *)
(* and the queue stay.                                                     *)
(***************************************************************************)
EXTENDS Chat, Notifications

CONSTANTS
  MaxItems,        \* bound: messages and notifications together
  MaxFailures      \* bound: queries that throw and stops of the process together

VARIABLE failures  \* how many of them there were

inboxVars == <<chatVars, notificationVars, failures>>

ASSUME BoundsAssumption == MaxItems \in Nat /\ MaxFailures \in Nat

InboxInit == ChatInit /\ NotificationsInit /\ failures = 0

TypeOK == ChatTypeOK /\ NotificationsTypeOK /\ failures \in Nat

Busy == {x \in Slots : sending[x].phase # "idle"}
Queued == {n \in Notices : notice[n] # "unqueued"}

HasRoom == Len(messages) + Cardinality(Busy) + Cardinality(Queued) < MaxItems

ChatStep ==
  /\ \/ \E s \in Sockets : SocketStep(s)
     \/ \E x \in Slots : (HasRoom /\ HandleSend(x)) \/ SendStep(x)
     \/ \E u \in Users : (HasRoom /\ SendOverHttp(u)) \/ MarkReadOverHttp(u)
  /\ UNCHANGED <<notificationVars, failures>>

NotificationsStep ==
  /\ \/ \E n \in Notices : (HasRoom /\ CreateNotification(n)) \/ Start(n)
     \/ WorkerStep
     \/ \E u \in Users : MarkOne(u) \/ MarkAllRead(u)
  /\ UNCHANGED <<chatVars, failures>>

\* A query of one of the handlers throws.
QueryThrows ==
  /\ failures < MaxFailures
  /\ failures' = failures + 1
  /\ \/ (\E x \in Slots : FailSend(x)) /\ UNCHANGED notificationVars
     \/ Throw /\ UNCHANGED chatVars

\* The process stops and is started again.
Restart ==
  /\ failures < MaxFailures
  /\ failures' = failures + 1
  /\ GatewayStops
  /\ WorkerStops

InboxNext == ChatStep \/ NotificationsStep \/ QueryThrows \/ Restart

\* Awaits settle and the queue hands out its jobs.
InboxFairness ==
  /\ \A x \in Slots : WF_chatVars(SendStep(x))
  /\ \A n \in Notices : WF_notificationVars(Start(n))
  /\ WF_notificationVars(WorkerStep)

InboxSpec == InboxInit /\ [][InboxNext]_inboxVars /\ InboxFairness

\* Every message is shown to somebody, but for those that came over HTTP, those
\* whose handler died and those whose socket changed its user.
MessagesAreShown ==
  \A i \in 1..MaxItems :
    i \in DOMAIN messages ~> i \in excused \/ (i \in DOMAIN shown /\ shown[i] # None)

-----------------------------------------------------------------------------
(***************************************************************************)
(* The inductive invariants behind the properties of Chat and              *)
(* Notifications.                                                          *)
(***************************************************************************)

\* An open socket is in the table and the room of each user it ever was; one
\* that is closed is in no room, and in the table only of its former users.
SocketInv ==
  \A s \in Sockets :
    /\ been[s] # {} => userId[s] \in been[s]
    /\ userId[s] # None => userId[s] \in been[s]
    /\ \A u \in Users :
         /\ s \in open => (s \in userSockets[u] <=> u \in been[s])
         /\ s \in open => (s \in room[u] <=> u \in been[s])
         /\ s \notin open => s \notin room[u]
         /\ s \notin open /\ s \in userSockets[u] => u \in been[s] \ {userId[s]}

\* A message on the way has a party as its sender, whom its socket still is if
\* it did not change its user since.
SendInv ==
  \A x \in Slots :
    sending[x].phase \in {"creating", "stored"} =>
      /\ sending[x].sender \in Parties(sending[x].conv)
      /\ x \in switched \/ userId[sending[x].socket] = sending[x].sender
      /\ sending[x].phase = "stored" =>
           /\ messages[sending[x].row].conv = sending[x].conv
           /\ messages[sending[x].row].sender = sending[x].sender

ChatInv == SocketInv /\ SendInv /\ RightParties

\* A job has a row for each attempt that failed, and one more from its present
\* or its last one.
WorkerInv ==
  \A n \in Notices :
    /\ notice[n] = "active" => worker.notice = n /\ worker.phase # "idle"
    /\ notice[n] = "unqueued" => rows[n] = 0
    /\ notice[n] \in {"waiting", "failed"} => rows[n] <= throws[n] + stalls[n]
    /\ notice[n] = "active" /\ worker.phase = "creating" => rows[n] <= throws[n] + stalls[n]
    /\ notice[n] = "active" /\ worker.phase = "created" => rows[n] >= 1
    /\ notice[n] \in {"unqueued", "waiting", "active"} =>
         throws[n] < MaxAttempts /\ stalls[n] <= MaxStalls

NoticeInv == WorkerInv /\ RowsPerAttempt

=============================================================================
