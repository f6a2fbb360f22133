\* Messages and notifications, with the process stopping in between.
SPECIFICATION InboxSpec
CONSTANTS
  u1 = u1
  u2 = u2
  u3 = u3
  order = order
  offer = offer
  Users = {u1, u2, u3}
  Sockets = {s1}
  Slots = {x1, x2}
  Conversations = {order, offer}
  OfOrders = {order}
  First <- MCFirst
  Second <- MCSecond
  Notices = {n1}
  Addressee <- MCAddressee
  None = None
  MaxAttempts = 3
  MaxStalls = 1
  MaxItems = 2
  MaxFailures = 2
INVARIANTS
  TypeOK
  TableMatchesRooms
  RightParties
  RowsPerAttempt
  BadgesApart
PROPERTIES
  MessagesAreShown
  NoticesArrive
CHECK_DEADLOCK FALSE
