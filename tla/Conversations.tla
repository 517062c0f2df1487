---------------------------- MODULE Conversations ---------------------------
(***************************************************************************)
(* The conversation of one traveller with one provider.  Whoever writes or *)
(* reads is first found to be a participant; the statement that follows    *)
(* comes later, when a member of the provider may have left.  Notifying    *)
(* the other side is best effort and left out.                             *)
(***************************************************************************)
EXTENDS Naturals

CONSTANTS
    Member,      \* users who may become members of the provider
    Message      \* rows of messages; two requests never share one

ASSUME ConversationAssumption == "TRAVELER" \notin Member /\ "NOBODY" \notin Member

VARIABLES
    thread,      \* the row of the conversation is there
    viewer,      \* members whose role has booking:view
    sender,      \* who sent a message; "NOBODY": the row is not there
    isRead,      \* messages with isRead
    sending,     \* messages past requireParticipant, with their sender
    opening,     \* participants whose markAsRead has passed requireParticipant
    openedSince  \* history: sides that marked the thread as read after a message

conversationVars == <<thread, viewer, sender, isRead, sending, opening, openedSince>>

Traveler == "TRAVELER"
User == Member \cup {Traveler}
Nobody == "NOBODY"

\* The sides are told apart by the sender: conversation.userId or anybody else.
Side(u) == IF u = Traveler THEN "traveler" ELSE "provider"
Sent == {m \in Message : sender[m] # Nobody}

ConversationInit ==
    /\ thread = FALSE /\ viewer = {}
    /\ sender = [m \in Message |-> Nobody] /\ sending = [m \in Message |-> Nobody]
    /\ isRead = {} /\ opening = {}
    /\ openedSince = [m \in Message |-> {}]

\* The organization adds, changes and removes members.
MembershipChanges ==
    /\ \E M \in SUBSET Member : viewer' = M /\ M # viewer
    /\ UNCHANGED <<thread, sender, isRead, sending, opening, openedSince>>

RequireParticipant(u) == thread /\ (u = Traveler \/ u \in viewer)

\* startConversation: the upsert and the message in one transaction.
StartConversation(m) ==
    /\ sender[m] = Nobody /\ sending[m] = Nobody
    /\ thread' = TRUE
    /\ sender' = [sender EXCEPT ![m] = Traveler]
    /\ UNCHANGED <<viewer, isRead, sending, opening, openedSince>>

SendMessage(u, m) ==
    /\ RequireParticipant(u)
    /\ sender[m] = Nobody /\ sending[m] = Nobody
    /\ sending' = [sending EXCEPT ![m] = u]
    /\ UNCHANGED <<thread, viewer, sender, isRead, opening, openedSince>>

AppendMessage(m) ==
    /\ sending[m] # Nobody
    /\ sender' = [sender EXCEPT ![m] = sending[m]]
    /\ sending' = [sending EXCEPT ![m] = Nobody]
    /\ UNCHANGED <<thread, viewer, isRead, opening, openedSince>>

MarkAsRead(u) ==
    /\ RequireParticipant(u)
    /\ opening' = opening \cup {u}
    /\ UNCHANGED <<thread, viewer, sender, isRead, sending, openedSince>>

(* Mutant: all messages of the conversation.                               *)
MarkedAll == Sent

\* The rows of the two updateMany.
MarkedByTraveler == {m \in Sent : sender[m] # Traveler}
MarkedByProvider == {m \in Sent : sender[m] = Traveler}

MarkMessages(u) ==
    /\ u \in opening
    /\ opening' = opening \ {u}
    /\ isRead' = isRead \cup (IF Side(u) = "traveler" THEN MarkedByTraveler
                              ELSE MarkedByProvider)
    /\ openedSince' = [m \in Message |->
          IF m \in Sent THEN openedSince[m] \cup {Side(u)} ELSE {}]
    /\ UNCHANGED <<thread, viewer, sender, sending>>

ConversationNext ==
    \/ MembershipChanges
    \/ \E m \in Message :
         \/ StartConversation(m) \/ AppendMessage(m)
         \/ \E u \in User : SendMessage(u, m)
    \/ \E u \in User : MarkAsRead(u) \/ MarkMessages(u)

ConversationSpec == ConversationInit /\ [][ConversationNext]_conversationVars

-----------------------------------------------------------------------------
(* Properties.                                                             *)

\* What the two lists count as unread for a traveller and for the provider.
UnreadByTraveler == {m \in Sent \ isRead : sender[m] # Traveler}
UnreadByProvider == {m \in Sent \ isRead : sender[m] = Traveler}

\* Everything is of its kind; only sent messages are read.
ConversationTypeOK ==
    /\ viewer \subseteq Member
    /\ sender \in [Message -> User \cup {Nobody}] /\ sending \in [Message -> User \cup {Nobody}]
    /\ isRead \subseteq Sent /\ opening \subseteq User

\* A message is read once its other side has opened the thread after it was sent,
\* and only then: neither its own side, nor another member of that side, nor one who
\* has left meanwhile makes it read, and no unread message is counted by both sides.
ReadByTheOtherSide ==
    \A m \in Sent :
      /\ m \in UnreadByTraveler <=> Side(sender[m]) = "provider" /\ "traveler" \notin openedSince[m]
      /\ m \in UnreadByProvider <=> Side(sender[m]) = "traveler" /\ "provider" \notin openedSince[m]
=============================================================================
