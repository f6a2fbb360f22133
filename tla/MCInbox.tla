------------------------------ MODULE MCInbox -------------------------------
EXTENDS Inbox

CONSTANTS u1, u2, u3, order, offer

\* u1 talks with u2 about an order and with u3 about an offer.
MCFirst == [c \in Conversations |-> u1]
MCSecond == [c \in Conversations |-> IF c = order THEN u2 ELSE u3]
MCAddressee == [n \in Notices |-> u1]

=============================================================================
