------------------------ MODULE MCTaskExecutionRace ------------------------
(* TLC instances of the modules about requests that overlap: of            *)
(* TaskExecutionRace, and of Membership, either for the members of one     *)
(* group with two levels of access or for the keys of two groups.          *)
EXTENDS Overlaps, FiniteSets, TLC

CONSTANTS u1, u2, g1, g2, i1, k1, k2, k3, r1, r2

VARIABLE instance   \* which of the three is explored

\* A wrapper that sends heartbeats and its outcome, a user who may stop it.  On
\* a row created RUNNING, a heartbeat with status RUNNING does what one with no
\* status does.
ClientUpdates == { None, "SUCCEEDED", "FAILED", "STOPPING" }

Symmetric ==
  UNION { Permutations(S) : S \in { {u1, u2}, {g1, g2}, {k1, k2, k3}, {r1, r2} } }

\* Users with access to two groups, who may move keys between them.
SignUps ==
  \E u \in {u1, u2}, g \in {g1, g2}, made \in SUBSET {k1, k2, k3} : People!SignUp(u, g, made)

Admits ==
  \E r \in {r1, r2} :
    /\ People!UnderWay \subseteq {r}
    /\ \/ \E by, u \in {u1, u2}, g \in {g1, g2} :
            by # u /\ People!BeginSetLevel(r, by, u, g, People!ADMIN)
       \/ People!FinishSetLevel(r)

\* Keys are disabled only while no request is under way.
Disabled == { k \in {k1, k2, k3} : key[k] # None /\ ~key[k].enabled }

MCInit == Race!Init /\ People!Init /\ instance \in { "execution", "members", "keys" }

MCNext ==
  /\ \/ instance = "execution" /\ Race!Next /\ UNCHANGED membervars
     \/ /\ instance = "members" /\ (People!Accounts \/ People!Memberships \/ People!Invites)
        /\ Cardinality(groups') <= 1 /\ UNCHANGED racevars
     \/ /\ instance = "keys" /\ (SignUps \/ Admits \/ People!KeyRequests)
        /\ (Disabled' = {} \/ People!UnderWay' = {}) /\ UNCHANGED racevars
  /\ UNCHANGED instance

MCSpec == MCInit /\ [][MCNext]_<<racevars, membervars, instance>>

-----------------------------------------------------------------------------
\* The update handler refuses to set RUNNING after a status that ends the
\* execution or asks it to stop, and so no commit should have that effect
\* (TaskExecutionRace).
EndedNeverRunsAgain == Race!EndedNeverRunsAgain

=============================================================================
