----------------------------- MODULE Engagement -----------------------------
(***************************************************************************)
(* Events and announcements over one set of members: requests about either *)
(* run side by side in one thread pool, and one deletion of an account     *)
(* cascades into both (delete_user, delete_user_me, and the ON DELETE      *)
(* CASCADE of models.py).  The host of the event posted the announcement.  *)
(***************************************************************************)
EXTENDS Events

VARIABLES
    posted, views, viewed,          \* as in Announcements
    viewing,                        \* its handlers
    everViewed, viewsOverlapped     \* its history

A == INSTANCE Announcements WITH
        Author <- Host, thread <- viewing, overlapped <- viewsOverlapped

ownVars == <<event, regs, thread, booked, overlapped, edited>>
announcementVars == <<posted, views, viewed, viewing, everViewed, viewsOverlapped>>
allVars == <<members, ownVars, announcementVars>>

AllTypeOK == TypeOK /\ A!TypeOK

AllInit == Init /\ A!Init

(* A thread serves one request at a time.                                  *)
EventStep ==
    /\ \/ \E h \in Threads : viewing[h] = A!Idle /\ Handle(h)
       \/ DeleteEvent
    /\ UNCHANGED announcementVars

AnnouncementStep ==
    /\ \/ \E h \in Threads : thread[h] = Idle /\ A!Handle(h)
       \/ A!DeleteAnnouncement
    /\ UNCHANGED ownVars

(* One DELETE of the user; the database removes what refers to it.         *)
DeleteAccount(m) ==
    /\ DeleteMember(m)
    /\ A!MemberGone(m)
    /\ UNCHANGED viewing

AllNext ==
    \/ EventStep
    \/ AnnouncementStep
    \/ \E m \in members : DeleteAccount(m)

AllSpec == AllInit /\ [][AllNext]_allVars

-----------------------------------------------------------------------------
(* "Unique view recorded" (announcements.py:157; see Announcements): a     *)
(* member counts at most once.                                             *)
ViewsCountMembersOnce == A!ViewsCountMembersOnce

(* Neither registrations nor views survive what they belong to, whatever   *)
(* request was in flight when the account, the event or the announcement   *)
(* was deleted (delete_user, delete_event, delete_announcement).           *)
NoOrphans == NoOrphanRegistration /\ A!NoOrphanView
=============================================================================
