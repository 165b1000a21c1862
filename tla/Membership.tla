----------------------------- MODULE Membership -----------------------------
(***************************************************************************)
(* Who belongs to which group, with which access, and the API keys that    *)
(* act for them.  Users sign up with a group of their own, are invited,    *)
(* accept, are given and lose access, leave, and delete their accounts.    *)
(*                                                                         *)
(* A request reads in one step (Begin...) and writes in another            *)
(* (Finish...): nothing it has read is locked in between.  Requests with   *)
(* no decision to lose to an overlap are one step.  Superusers, who may    *)
(* do anything, are left out.                                              *)
(***************************************************************************)
EXTENDS Integers, FiniteSets

CONSTANTS
  None,           \* NULL
  Users, Groups, Invitations, Keys,
  Levels,         \* the access levels that requests name
  MaxKeys,        \* max_api_keys of the subscriptions of a group
  Requests        \* requests that may be under way at once

\* UserGroupAccessLevel
OBSERVER  == 1
DEVELOPER == 500
ADMIN     == 1000

VARIABLES
  account,      \* no User, inactive (invited), active
  groups,       \* the Groups that exist
  member,       \* user.groups
  level,        \* UserGroupAccessLevel
  invitation,   \* Invitation
  key,          \* SaasToken
  request,      \* what each request under way has read and asks for
  together      \* those of them that overlap with another request

rows == <<account, groups, member, level, invitation, key>>
vars == <<rows, request, together>>

Init ==
  /\ account = [u \in Users |-> "none"]
  /\ groups = {}
  /\ member = {}
  /\ level = [ug \in Users \X Groups |-> None]
  /\ invitation = [i \in Invitations |-> None]
  /\ key = [k \in Keys |-> None]
  /\ request = [r \in Requests |-> None]
  /\ together = {}

-----------------------------------------------------------------------------
(* Who may do what.                                                        *)

\* UserGroupAccessLevel.access_level_for_user_in_group
AccessLevel(u, g) ==
  IF level[u, g] # None THEN level[u, g]
  ELSE IF <<u, g>> \in member THEN OBSERVER ELSE None

\* UserGroupAccessLevel.admin_count
Admins(g) == { u \in Users : level[u, g] # None /\ level[u, g] >= ADMIN }

GroupsOf(u) == { g \in Groups : <<u, g>> \in member }

\* user_and_group_from_request: that of the key, or the only one of the user.
\* A request by a key that is not None is by that key's user.
MatchesRequestGroup(u, k, g) ==
  IF k # None THEN key[k].group = g
  ELSE \A h \in Groups : GroupsOf(u) = {h} => g = h

\* SaasTokenAuthentication, required_user_and_group_from_request
Authenticated(u, k) ==
  /\ account[u] = "active"
  /\ k # None => key[k] # None /\ key[k].user = u /\ key[k].enabled

\* What ensure_group_access_level lets a request do at most, and whether that is
\* enough.
EffectiveLevel(u, k, g) ==
  IF k # None /\ key[k].level < AccessLevel(u, g) THEN key[k].level ELSE AccessLevel(u, g)

HasAccess(u, k, g, least) ==
  /\ Authenticated(u, k)
  /\ MatchesRequestGroup(u, k, g)
  /\ AccessLevel(u, g) # None
  /\ EffectiveLevel(u, k, g) >= least

IsAdmin(u, g) == HasAccess(u, None, g, ADMIN)

-----------------------------------------------------------------------------
(* Requests.                                                               *)

UnderWay == { r \in Requests : request[r] # None }

\* Whoever changes rows overlaps with all that have read and not yet written.
Interferes ==
  /\ together' = together \cup UnderWay
  /\ UNCHANGED request

Begin(r, asked) ==
  /\ request[r] = None
  /\ request' = [request EXCEPT ![r] = asked]
  /\ together' = IF UnderWay = {} THEN together ELSE together \cup UnderWay \cup {r}
  /\ UNCHANGED rows

Asks(r, kind) == request[r] # None /\ request[r].kind = kind

Finish(r) ==
  /\ request' = [request EXCEPT ![r] = None]
  /\ together' = together \ {r}

\* Anything raised rolls the rows back: an email that is not sent, a password
\* that is refused, a row that is there already or whose user or group is gone.
Fail(r) ==
  /\ request[r] # None
  /\ Finish(r)
  /\ UNCHANGED rows

\* Saving a UserGroupAccessLevel that was read: it is updated, or inserted again
\* if it has been deleted.  A new one is inserted, unless there is one by now.
SaveLevel(u, g, read, new) ==
  /\ account[u] # "none" /\ g \in groups
  /\ read = None => level[u, g] = None
  /\ level' = [level EXCEPT ![<<u, g>>] = new]

Join(u, g) == member' = member \cup { <<u, g>> }

-----------------------------------------------------------------------------
(* Accounts and groups.                                                    *)

\* add_default_group_and_saas_token, when the address is confirmed: a group of
\* the user's own, and two keys.
SignUp(u, g, made) ==
  /\ account[u] = "none" /\ g \notin groups
  /\ Cardinality(made) = 2 /\ \A k \in made : key[k] = None
  /\ account' = [account EXCEPT ![u] = "active"]
  /\ groups' = groups \cup {g}
  /\ Join(u, g)
  /\ level' = [level EXCEPT ![<<u, g>>] = ADMIN]
  /\ \E task \in made :
       key' = [k \in Keys |->
                 IF k \notin made THEN key[k]
                 ELSE [ user |-> u, group |-> g, enabled |-> TRUE,
                        level |-> IF k = task THEN OBSERVER ELSE DEVELOPER ]]
  /\ Interferes
  /\ UNCHANGED invitation

\* GroupViewSet.create: the group has no member.
CreateGroup(u, g) ==
  /\ account[u] = "active" /\ g \notin groups
  /\ groups' = groups \cup {g}
  /\ Interferes
  /\ UNCHANGED <<account, member, level, invitation, key>>

\* Rows of others that refer to the one deleted go with it.
Without(table, gone(_)) ==
  [x \in DOMAIN table |-> IF table[x] # None /\ gone(table[x]) THEN None ELSE table[x]]

\* GroupViewSet.destroy
DeleteGroup(u, g) ==
  LET OfGroup(row) == row.group = g
  IN /\ IsAdmin(u, g)
     /\ groups' = groups \ {g}
     /\ member' = { ug \in member : ug[2] # g }
     /\ level' = [ug \in Users \X Groups |-> IF ug[2] = g THEN None ELSE level[ug]]
     /\ invitation' = Without(invitation, OfGroup)
     /\ key' = Without(key, OfGroup)
     /\ Interferes
     /\ UNCHANGED account

\* UserViewSet.destroy, by the user, who must be in some group to be found.
DeleteUser(u) ==
  LET Theirs(row) == row.user = u
      About(row) == u \in {row.user, row.by}
  IN /\ account[u] = "active" /\ GroupsOf(u) # {}
     /\ account' = [account EXCEPT ![u] = "none"]
     /\ member' = { ug \in member : ug[1] # u }
     /\ level' = [ug \in Users \X Groups |-> IF ug[1] = u THEN None ELSE level[ug]]
     /\ invitation' = Without(invitation, About)
     /\ key' = Without(key, Theirs)
     /\ Interferes
     /\ UNCHANGED groups

-----------------------------------------------------------------------------
(* GroupMembershipViewSet                                                  *)

\* A variant that also lets the last one go.
MayLower_Any(u, by, g) == TRUE

\* Only the access of the one who asks is held against the number of admins.
MayLower(u, by, g) == u = by => Cardinality(Admins(g)) > 1

BeginRemove(r, by, u, g) ==
  /\ IsAdmin(by, g) /\ account[u] # "none"
  /\ MayLower(u, by, g)
  /\ Begin(r, [ kind |-> "remove", user |-> u, group |-> g ])

FinishRemove(r) ==
  LET u == request[r].user  g == request[r].group
  IN /\ Asks(r, "remove")
     /\ level' = [level EXCEPT ![<<u, g>>] = None]
     /\ member' = member \ { <<u, g>> }
     /\ Finish(r)
     /\ UNCHANGED <<account, groups, invitation, key>>

BeginSetLevel(r, by, u, g, new) ==
  /\ IsAdmin(by, g) /\ account[u] # "none"
  /\ new = None \/ new < ADMIN => MayLower(u, by, g)
  /\ new # None => new <= AccessLevel(by, g)
  /\ Begin(r, [ kind |-> "level", user |-> u, group |-> g, new |-> new, read |-> level[u, g] ])

FinishSetLevel(r) ==
  LET u == request[r].user  g == request[r].group
      read == request[r].read  new == request[r].new
  IN /\ Asks(r, "level")
     /\ IF read = None /\ new = None THEN UNCHANGED level
        ELSE IF new = None THEN level' = [level EXCEPT ![<<u, g>>] = None]
        ELSE SaveLevel(u, g, read, new)
     /\ IF read = None
        THEN /\ account[u] # "none" /\ g \in groups
             /\ Join(u, g)
        ELSE UNCHANGED member
     /\ Finish(r)
     /\ UNCHANGED <<account, groups, invitation, key>>

-----------------------------------------------------------------------------
(* InvitationViewSet                                                       *)

BeginInvite(r, by, u, g, new) ==
  /\ IsAdmin(by, g)
  /\ new <= AccessLevel(by, g)
  /\ Begin(r, [ kind |-> "invite", by |-> by, user |-> u, group |-> g, new |-> new,
                account |-> account[u], read |-> level[u, g] ])

\* Invitation; the code to accept it with is sent by email.
NewInvitation(ask) ==
  [ by |-> ask.by, user |-> ask.user, group |-> ask.group, level |-> ask.new,
    accepted |-> FALSE ]

\* Who is not active yet gets an invitation, and an account if there is none.
FinishInvite(r, i) ==
  LET ask == request[r]
  IN /\ Asks(r, "invite") /\ ask.account # "active"
     /\ invitation[i] = None
     /\ account[ask.by] # "none" /\ ask.group \in groups
     /\ ask.account = "none" <=> account[ask.user] = "none"
     /\ account' = [account EXCEPT ![ask.user] = IF @ = "none" THEN "inactive" ELSE @]
     /\ invitation' = [invitation EXCEPT ![i] = NewInvitation(ask)]
     /\ Finish(r)
     /\ UNCHANGED <<groups, member, level, key>>

\* A level is not lowered by an invitation.
Raised(read, new) == IF read = None \/ read < new THEN new ELSE read

\* Who is active is a member at once.  get_or_create looks again if another
\* request has inserted the row.
FinishAdd(r) ==
  LET ask == request[r]  u == ask.user  g == ask.group
      read == IF ask.read = None THEN level[u, g] ELSE ask.read
  IN /\ Asks(r, "invite") /\ ask.account = "active"
     /\ account[u] # "none" /\ g \in groups
     /\ Join(u, g)
     /\ IF Raised(read, ask.new) = read THEN UNCHANGED level
        ELSE SaveLevel(u, g, read, Raised(read, ask.new))
     /\ Finish(r)
     /\ UNCHANGED <<account, groups, invitation, key>>

BeginAccept(r, i) ==
  /\ invitation[i] # None /\ ~invitation[i].accepted
  /\ Begin(r, [ kind |-> "accept", id |-> i, row |-> invitation[i],
                read |-> level[invitation[i].user, invitation[i].group] ])

\* The user and the invitation are saved as read: either is there again if it
\* was deleted in the meantime.
FinishAccept(r) ==
  LET row == request[r].row  u == row.user  g == row.group  read == request[r].read
  IN /\ Asks(r, "accept")
     /\ g \in groups /\ account[row.by] # "none"
     /\ account' = [account EXCEPT ![u] = "active"]
     /\ Join(u, g)
     /\ IF Raised(read, row.level) = read THEN UNCHANGED level
        ELSE /\ read = None => level[u, g] = None
             /\ level' = [level EXCEPT ![<<u, g>>] = Raised(read, row.level)]
     /\ invitation' = [invitation EXCEPT ![request[r].id] = [row EXCEPT !.accepted = TRUE]]
     /\ Finish(r)
     /\ UNCHANGED <<groups, key>>

Revoke(by, i) ==
  /\ invitation[i] # None /\ IsAdmin(by, invitation[i].group)
  /\ invitation' = [invitation EXCEPT ![i] = None]
  /\ Interferes
  /\ UNCHANGED <<account, groups, member, level, key>>

-----------------------------------------------------------------------------
(* SaasTokenViewSet: by the user in person (k = None) or with a key.       *)

KeysOf(g) == { k \in Keys : key[k] # None /\ key[k].group = g }

\* pre_save_saas_token
MayAddKey(g) == MaxKeys = None \/ Cardinality(KeysOf(g)) < MaxKeys

BeginCreateKey(r, by, k, g, new) ==
  /\ HasAccess(by, k, g, DEVELOPER)
  /\ new <= EffectiveLevel(by, k, g)
  /\ MayAddKey(g)
  /\ Begin(r, [ kind |-> "key", user |-> by, group |-> g, new |-> new ])

FinishCreateKey(r, k) ==
  LET ask == request[r]
  IN /\ Asks(r, "key") /\ key[k] = None
     /\ account[ask.user] # "none" /\ ask.group \in groups
     /\ key' = [key EXCEPT ![k] =
          [ user |-> ask.user, group |-> ask.group, level |-> ask.new, enabled |-> TRUE ]]
     /\ Finish(r)
     /\ UNCHANGED <<account, groups, member, level, invitation>>

\* SaasTokenPermission
MayTouch(by, k, edited) ==
  /\ key[edited] # None
  /\ HasAccess(by, k, key[edited].group, DEVELOPER)
  /\ HasAccess(by, k, key[edited].group, key[edited].level)

\* SaasTokenSerializer.to_internal_value: the key is now that of the one who
\* edits it, and may have moved to another group, where nobody counts it.
EditKey(by, k, edited, g, new, enabled) ==
  /\ MayTouch(by, k, edited)
  /\ HasAccess(by, k, g, DEVELOPER)
  /\ new <= EffectiveLevel(by, k, g)
  /\ key' = [key EXCEPT ![edited] =
       [ user |-> by, group |-> g, level |-> new, enabled |-> enabled ]]
  /\ Interferes
  /\ UNCHANGED <<account, groups, member, level, invitation>>

DeleteKey(by, k, edited) ==
  /\ MayTouch(by, k, edited)
  /\ key' = [key EXCEPT ![edited] = None]
  /\ Interferes
  /\ UNCHANGED <<account, groups, member, level, invitation>>

-----------------------------------------------------------------------------
Accounts ==
  \/ \E u \in Users, g \in Groups :
       \/ \E made \in SUBSET Keys : SignUp(u, g, made)
       \/ CreateGroup(u, g)
       \/ DeleteGroup(u, g)
  \/ \E u \in Users : DeleteUser(u)

Memberships ==
  \E r \in Requests :
    \/ \E by, u \in Users, g \in Groups :
         \/ BeginRemove(r, by, u, g)
         \/ \E new \in Levels \cup {None} : BeginSetLevel(r, by, u, g, new)
    \/ FinishRemove(r)
    \/ FinishSetLevel(r)
    \/ Fail(r)

Invites ==
  \/ \E r \in Requests :
       \/ \E by, u \in Users, g \in Groups, new \in Levels : BeginInvite(r, by, u, g, new)
       \/ \E i \in Invitations : FinishInvite(r, i) \/ BeginAccept(r, i)
       \/ FinishAdd(r)
       \/ FinishAccept(r)
  \/ \E by \in Users, i \in Invitations : Revoke(by, i)

KeyRequests ==
  \/ \E r \in Requests, by \in Users, k \in Keys \cup {None} :
       \E g \in Groups, new \in Levels : BeginCreateKey(r, by, k, g, new)
  \/ \E r \in Requests, k \in Keys : FinishCreateKey(r, k)
  \/ \E by \in Users, k \in Keys \cup {None}, edited \in Keys :
       \/ \E g \in Groups, new \in Levels, enabled \in BOOLEAN :
            EditKey(by, k, edited, g, new, enabled)
       \/ DeleteKey(by, k, edited)

Next == Accounts \/ Memberships \/ Invites \/ KeyRequests

Spec == Init /\ [][Next]_vars

-----------------------------------------------------------------------------
(* Properties.                                                             *)

\* A request that has overlapped with another, or with a change, is done.
OverlappingFinishes == \E r \in together : request[r] # None /\ request'[r] = None

\* A group that has an admin keeps one: GroupMembershipViewSet refuses to take
\* the last one's access.  Only an admin who deletes the account, or requests
\* that overlap, leave a group to nobody.
LastAdminStays ==
  [][ \A g \in groups \cap groups' :
        Admins(g) # {} /\ Admins(g)' = {}
          => OverlappingFinishes \/ \E u \in Admins(g) : account'[u] = "none" ]_vars

=============================================================================
