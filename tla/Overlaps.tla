------------------------------- MODULE Overlaps -------------------------------
(***************************************************************************)
(* Requests that overlap: on the row of one Task Execution                 *)
(* (TaskExecutionRace), and on the members and the keys of groups          *)
(* (Membership).                                                           *)
(***************************************************************************)
EXTENDS TaskExecutionRow

CONSTANTS
  Workers, Checker, MaxRequests,    \* of TaskExecutionRace
  Users, Groups, Invitations, Keys, Levels, MaxKeys, GroupRequests   \* of Membership

VARIABLES
  stored, session, lock, announcements, missed, requests,
  account, groups, member, level, invitation, key, asked, together

racevars == <<stored, session, lock, announcements, missed, requests>>
membervars == <<account, groups, member, level, invitation, key, asked, together>>

Race == INSTANCE TaskExecutionRace WITH
  row <- stored, announced <- announcements, heartbeatAlert <- missed

\* NULL is no process, and users send statuses.
RaceConstants ==
  /\ Checker \notin Workers /\ None \notin Workers \cup {Checker}
  /\ UpdateStatuses \subseteq Status \cup {None}
  /\ MaxRequests \in Nat

ASSUME RaceAssumption == RaceConstants

People == INSTANCE Membership WITH Requests <- GroupRequests, request <- asked

\* Levels of access are numbers, and NULL is none.
MemberConstants == Levels \subseteq Nat /\ None \notin Nat

ASSUME MemberAssumption == MemberConstants

-----------------------------------------------------------------------------
\* Whatever overlaps, users are told of a status at most once: the search for
\* an earlier event is made while the row is locked
\* (Execution.maybe_create_and_send_status_change_event).
AnnouncedOnce == Race!AnnouncedOnce

\* A group with an admin keeps one, unless requests overlap or an account is
\* deleted (GroupMembershipViewSet).
LastAdminStays == People!LastAdminStays

=============================================================================
