---------------------------- MODULE Organisations ----------------------------
(***************************************************************************)
(* The members of one client organisation (routers/organisations.py) and   *)
(* what their roles allow (workspace.py).  A request reads the rows, checks *)
(* them and writes at commit, without a lock: two requests may overlap.    *)
(*                                                                         *)
(* Names, users' accounts and the audit log are left out.                  *)
(***************************************************************************)
EXTENDS Naturals, FiniteSets

CONSTANTS
    People,         \* principals, members or not
    Administrators, \* platform administrators among them
    Founder,        \* the first owner
    MaxOrgChanges,  \* bound: requests committed
    MaxInFlight     \* bound: requests between their read and their commit

ASSUME OrganisationsAssumption ==
    /\ Administrators \subseteq People /\ Founder \in People
    /\ MaxOrgChanges \in Nat /\ MaxInFlight \in Nat

VARIABLES
    member,     \* role of each person; "none": no row
    request,    \* per caller, the request it has read and checked
    changed,    \* per caller, whether a row changed since its request read them
    changes

orgVars == <<member, request, changed, changes>>

\* ORG_ROLES and _NEED_RANK.
OrgRank == [viewer |-> 0, editor |-> 1, owner |-> 2]
NeedRank == [read |-> 0, write |-> 1, manage |-> 2]
NotAsking == [to |-> "none"]

OrgInit ==
    /\ member = [p \in People |-> IF p = Founder THEN "owner" ELSE "none"]
    /\ request = [p \in People |-> NotAsking]
    /\ changed = [p \in People |-> FALSE]
    /\ changes = 0

IsMember(p) == member[p] # "none"
IsAdministrator(p) == p \in Administrators

\* workspace.can: what a role allows; an administrator reads without one.
Can(p, need) ==
    \/ IsAdministrator(p) /\ need = "read"
    \/ IsMember(p) /\ OrgRank[member[p]] >= NeedRank[need]

Owners == {p \in People : member[p] = "owner"}

\* Mutant of KeepsAnOwner: only a removal is checked, not a demotion.
KeepsAnOwnerIfRemoved(q, to) == member[q] = "owner" /\ to = "none" => Cardinality(Owners) # 1

\* _owners: the last owner is neither removed nor given another role.
KeepsAnOwner(q, to) == member[q] = "owner" /\ to # "owner" => Cardinality(Owners) # 1

\* add_member and remove_member up to their write; to = "none" removes.
AskMember(p, q, to) ==
    /\ request[p] = NotAsking /\ changes < MaxOrgChanges
    /\ Cardinality({o \in People : request[o] # NotAsking}) < MaxInFlight
    /\ IsAdministrator(p) \/ Can(p, "manage")
    /\ to = "none" => IsMember(q)
    /\ KeepsAnOwner(q, to)
    /\ request' = [request EXCEPT ![p] = [who |-> q, was |-> member[q], to |-> to]]
    /\ changed' = [changed EXCEPT ![p] = FALSE]
    /\ UNCHANGED <<member, changes>>

\* Mutant of Committable: the row is written whatever became of it.
CommittableAlways(r) == TRUE

\* An insert meets the unique key, an update a deleted row: both are rolled
\* back.  Deleting a row that is gone and leaving a role as it was write nothing.
Committable(r) ==
    \/ r.to = "none" \/ r.to = r.was
    \/ (r.was = "none") = ~IsMember(r.who)

CommitMember(p) ==
    LET r == request[p]
        written == IF r.to = r.was THEN member ELSE [member EXCEPT ![r.who] = r.to]
    IN /\ r # NotAsking /\ Committable(r)
       /\ member' = written
       /\ changed' = [o \in People |-> changed[o] \/ written # member]
       /\ request' = [request EXCEPT ![p] = NotAsking]
       /\ changes' = changes + 1

RollBackMember(p) ==
    /\ request[p] # NotAsking /\ ~Committable(request[p])
    /\ request' = [request EXCEPT ![p] = NotAsking]
    /\ UNCHANGED <<member, changed, changes>>

OrgNext ==
    \E p \in People :
        \/ \E q \in People, to \in {"none"} \cup DOMAIN OrgRank : AskMember(p, q, to)
        \/ CommitMember(p)
        \/ RollBackMember(p)

OrgSpec == OrgInit /\ [][OrgNext]_orgVars

-----------------------------------------------------------------------------
(* Properties.                                                             *)

\* Type correctness of the membership.
OrgTypeOK ==
    /\ member \in [People -> {"none"} \cup DOMAIN OrgRank]
    /\ \A p \in People : request[p] = NotAsking \/ request[p].who \in People
    /\ changed \in [People -> BOOLEAN]
    /\ changes \in 0 .. MaxOrgChanges + MaxInFlight

\* The request of p says so of q, and no row changed since it was read that p may.
Ordered(p, q, to) ==
    /\ request[p] # NotAsking /\ request[p].who = q /\ request[p].to = to
    /\ changed[p] \/ IsAdministrator(p) \/ member[p] = "owner"

\* However requests overlap, a person is added, removed or given another role
\* only by a request that says so of them, whose caller is an administrator or
\* an owner unless a row changed since the request read them; who was removed
\* meanwhile is added back only by a request that found no row; and the last
\* owner goes only with a request that read rows another has changed since
\* (add_member, remove_member).
MembershipHolds ==
    [][/\ \A q \in People : member'[q] # member[q] =>
            \E p \in People :
               /\ request'[p] = NotAsking /\ Ordered(p, q, member'[q])
               /\ ~IsMember(q) => request[p].was = "none"
       /\ Owners # {} /\ Owners' = {} => \E p \in People : request'[p] # request[p] /\ changed[p]]_orgVars
=============================================================================
