---------------------------- MODULE Organization ----------------------------
(***************************************************************************)
(* Providers and the people who work for them.  An administrator reviews,  *)
(* suspends and restores a provider; its members invite, promote, demote   *)
(* and remove one another.  No handler runs in a transaction: it reads who *)
(* is asking, then whom the request is about, and writes last.             *)
(***************************************************************************)
EXTENDS Integers

CONSTANTS
    User,
    Provider,
    Founder,     \* Founder[p]: Provider.userId, the user who applied as p
    MaxMember,   \* bound: rows of organization_members ever created
    Call         \* requests about members that may be served at once

ASSUME FounderAssumption ==
    /\ MaxMember \in Nat
    /\ Founder \in [Provider -> User]
    /\ \A p, q \in Provider : Founder[p] = Founder[q] => p = q

VARIABLES
    standing,    \* Provider.status, "ABSENT" before the application
    desk,        \* what a suspend or unsuspend request past its check will write
    members,     \* the rows of organization_members
    issued,      \* the last id of a row
    call,        \* what each request about members has read
    overlapped,  \* history: two requests about its members were past their checks at once
    ownerless    \* history: approved while its founder worked for somebody else

orgVars == <<standing, desk, members, issued, call, overlapped, ownerless>>

Standing == {"ABSENT", "PENDING", "APPROVED", "REJECTED", "SUSPENDED"}
OrgMemberRole == {"OWNER", "MANAGER", "STAFF"}  \* the two staff roles manage nobody
Membership == 1..MaxMember  \* autoincrement: an id is never given again
Member == [id : Membership, org : Provider, user : User, role : OrgMemberRole]

Nobody == [org |-> "NONE", to |-> "NONE"]
Verdict == [org : Provider, to : {"APPROVED", "SUSPENDED"}]

\* a request was let in, and then found its target and passed its checks
Idle == [stage |-> "IDLE"]
Admitted == [stage : {"ADMITTED"}, kind : {"CREATE", "ROLE", "REMOVE"},
             org : Provider, by : OrgMemberRole]
Invitation == [stage : {"CHECKED"}, kind : {"CREATE"}, org : Provider,
               user : User, role : OrgMemberRole]
Change == [stage : {"CHECKED"}, kind : {"ROLE", "REMOVE"}, org : Provider,
           by : OrgMemberRole, row : Membership, role : OrgMemberRole]

Owners(p) == {m \in members : m.org = p /\ m.role = "OWNER"}

OrgInit ==
    /\ standing = [p \in Provider |-> "ABSENT"]
    /\ desk = Nobody
    /\ members = {} /\ issued = 0
    /\ call = [c \in Call |-> Idle]
    /\ overlapped = {} /\ ownerless = {}

NewMember(p, u, role) ==
    /\ issued < MaxMember
    /\ issued' = issued + 1
    /\ members' = members \cup {[id |-> issued + 1, org |-> p, user |-> u, role |-> role]}

-----------------------------------------------------------------------------
(* The life of a provider.                                                 *)

\* Provider.userId is unique: a second application of the same user fails.
Apply(p) ==
    /\ standing[p] = "ABSENT"
    /\ standing' = [standing EXCEPT ![p] = "PENDING"]
    /\ UNCHANGED <<desk, members, issued, call, overlapped, ownerless>>

\* review(APPROVED), from whatever status: the founder's membership is created
\* unless the founder has one, in this organization or in any other.
Approve(p) ==
    /\ standing[p] # "ABSENT"
    /\ standing' = [standing EXCEPT ![p] = "APPROVED"]
    /\ \/ /\ \A m \in members : m.user # Founder[p]
          /\ NewMember(p, Founder[p], "OWNER")
          /\ UNCHANGED ownerless
       \/ /\ \E m \in members : m.user = Founder[p]
          /\ ownerless' = IF Owners(p) = {} THEN ownerless \cup {p} ELSE ownerless
          /\ UNCHANGED <<members, issued>>
    /\ UNCHANGED <<desk, call, overlapped>>

\* review(REJECTED), from whatever status; the members keep their rows.
Reject(p) ==
    /\ standing[p] # "ABSENT"
    /\ standing' = [standing EXCEPT ![p] = "REJECTED"]
    /\ UNCHANGED <<desk, members, issued, call, overlapped, ownerless>>

\* suspend and unsuspend: the status is read, and written by another statement.
AskSuspend(p) ==
    /\ desk = Nobody
    /\ standing[p] = "APPROVED"
    /\ desk' = [org |-> p, to |-> "SUSPENDED"]
    /\ UNCHANGED <<standing, members, issued, call, overlapped, ownerless>>

AskUnsuspend(p) ==
    /\ desk = Nobody
    /\ standing[p] = "SUSPENDED"
    /\ desk' = [org |-> p, to |-> "APPROVED"]
    /\ UNCHANGED <<standing, members, issued, call, overlapped, ownerless>>

UpdateStatus ==
    /\ desk # Nobody
    /\ standing' = [standing EXCEPT ![desk.org] = desk.to]
    /\ desk' = Nobody
    /\ UNCHANGED <<members, issued, call, overlapped, ownerless>>

-----------------------------------------------------------------------------
(* The requests of the members.                                            *)

CanManageRole(by, role) == by = "OWNER" \/ (by = "MANAGER" /\ role = "STAFF")

\* What requireMembership lets through; member:manage belongs to OWNER and
\* MANAGER, and updateMemberRole asks for OWNER itself.
MayAsk(kind) == IF kind = "ROLE" THEN {"OWNER"} ELSE {"OWNER", "MANAGER"}

RequireMembership(c, m, kind) ==
    /\ call[c].stage = "IDLE"
    /\ standing[m.org] = "APPROVED"
    /\ m.role \in MayAsk(kind)
    /\ call' = [call EXCEPT ![c] =
         [stage |-> "ADMITTED", kind |-> kind, org |-> m.org, by |-> m.role]]
    /\ UNCHANGED <<standing, desk, members, issued, overlapped, ownerless>>

CheckInvitation(c, u, role) ==
    /\ call[c].stage = "ADMITTED" /\ call[c].kind = "CREATE"
    /\ CanManageRole(call[c].by, role)
    /\ \A m \in members : m.user # u
    /\ call' = [call EXCEPT ![c] = [stage |-> "CHECKED", kind |-> "CREATE",
                                    org |-> call[c].org, user |-> u, role |-> role]]
    /\ UNCHANGED <<standing, desk, members, issued, overlapped, ownerless>>

\* A check of the other kinds is over; another request about the same members
\* may be between its own check and its write.
Changing(c, p) == call[c].stage = "CHECKED" /\ call[c].kind # "CREATE" /\ call[c].org = p
Overlaps(c) == \E d \in Call \ {c} : Changing(d, call[c].org)

CheckTarget(c, m, role) ==
    /\ call' = [call EXCEPT ![c] = [stage |-> "CHECKED", kind |-> call[c].kind,
                                    org |-> call[c].org, by |-> call[c].by,
                                    row |-> m.id, role |-> role]]
    /\ overlapped' = IF Overlaps(c) THEN overlapped \cup {call[c].org} ELSE overlapped
    /\ UNCHANGED <<standing, desk, members, issued, ownerless>>

(* Mutant: the count of owners is compared with 0 instead of 1.            *)
AnyOwner(p) == Owners(p) # {}

NotLastOwner(p) == \E m, n \in Owners(p) : m # n

\* updateMemberRole: getOwnedMember and, when an owner loses the role, the count.
CheckRole(c, m, role) ==
    /\ call[c].stage = "ADMITTED" /\ call[c].kind = "ROLE"
    /\ m.org = call[c].org
    /\ m.role = "OWNER" /\ role # "OWNER" => NotLastOwner(m.org)
    /\ CheckTarget(c, m, role)

(* Mutant: the last owner is protected, the roles are not compared.        *)
CheckRemovalUnranked(c, m) ==
    /\ call[c].stage = "ADMITTED" /\ call[c].kind = "REMOVE"
    /\ m.org = call[c].org
    /\ m.role = "OWNER" => NotLastOwner(m.org)
    /\ CheckTarget(c, m, m.role)

\* removeMember: getOwnedMember, the roles compared, and the count for an owner.
CheckRemoval(c, m) ==
    /\ call[c].stage = "ADMITTED" /\ call[c].kind = "REMOVE"
    /\ m.org = call[c].org
    /\ CanManageRole(call[c].by, m.role)
    /\ m.role = "OWNER" => NotLastOwner(m.org)
    /\ CheckTarget(c, m, m.role)

\* One of the checks failed.
Refuse(c) ==
    /\ call[c].stage = "ADMITTED"
    /\ call' = [call EXCEPT ![c] = Idle]
    /\ UNCHANGED <<standing, desk, members, issued, overlapped, ownerless>>

\* The insert, or the unique key of userId refuses it.
CreateMember(c) ==
    /\ call[c].stage = "CHECKED" /\ call[c].kind = "CREATE"
    /\ call' = [call EXCEPT ![c] = Idle]
    /\ \/ /\ \A m \in members : m.user # call[c].user
          /\ NewMember(call[c].org, call[c].user, call[c].role)
       \/ /\ \E m \in members : m.user = call[c].user
          /\ UNCHANGED <<members, issued>>
    /\ UNCHANGED <<standing, desk, overlapped, ownerless>>

\* An UPDATE by id; the row may be gone, or hold another role than the one read.
Updated(m, i, role) == IF m.id = i THEN [m EXCEPT !.role = role] ELSE m

UpdateMemberRole(c) ==
    /\ call[c].stage = "CHECKED" /\ call[c].kind = "ROLE"
    /\ members' = {Updated(m, call[c].row, call[c].role) : m \in members}
    /\ call' = [call EXCEPT ![c] = Idle]
    /\ UNCHANGED <<standing, desk, issued, overlapped, ownerless>>

RemoveMember(c) ==
    /\ call[c].stage = "CHECKED" /\ call[c].kind = "REMOVE"
    /\ members' = {m \in members : m.id # call[c].row}
    /\ call' = [call EXCEPT ![c] = Idle]
    /\ UNCHANGED <<standing, desk, issued, overlapped, ownerless>>

-----------------------------------------------------------------------------
AdminStep ==
    \E p \in Provider : \/ Apply(p) \/ Approve(p) \/ Reject(p)
                        \/ AskSuspend(p) \/ AskUnsuspend(p)

MemberStep ==
    \E c \in Call :
      \/ \E m \in members, kind \in {"CREATE", "ROLE", "REMOVE"} :
           RequireMembership(c, m, kind)
      \/ \E u \in User, role \in OrgMemberRole : CheckInvitation(c, u, role)
      \/ \E m \in members, role \in OrgMemberRole : CheckRole(c, m, role)
      \/ \E m \in members : CheckRemoval(c, m)
      \/ Refuse(c) \/ CreateMember(c) \/ UpdateMemberRole(c) \/ RemoveMember(c)

OrgNext == AdminStep \/ UpdateStatus \/ MemberStep

OrgSpec == OrgInit /\ [][OrgNext]_orgVars

-----------------------------------------------------------------------------
(* Properties.                                                             *)

\* Every row and every request in flight is well formed.  A user works for one
\* organization at most, whatever the requests read: the unique key of userId.
OrgTypeOK ==
    /\ standing \in [Provider -> Standing]
    /\ desk \in Verdict \cup {Nobody}
    /\ members \subseteq Member
    /\ issued \in 0..MaxMember
    /\ call \in [Call -> {Idle} \cup Admitted \cup Invitation \cup Change]
    /\ overlapped \subseteq Provider /\ ownerless \subseteq Provider
    /\ \A m \in members : m.id <= issued
    /\ \A m, n \in members : m.id = n.id \/ m.user = n.user => m = n

\* "An organization must have at least one Owner": a provider that may trade has
\* one, unless two requests about its members crossed between check and write,
\* or its founder had joined another organization before the approval.
OwnerUnlessOverlapped ==
    \A p \in Provider :
      standing[p] \in {"APPROVED", "SUSPENDED"} =>
        Owners(p) # {} \/ p \in overlapped \/ p \in ownerless

\* The same as the message of assertNotLastOwner states it: no step takes the
\* last owner away.  Two owners removing each other do.
LastOwnerStays ==
    [][\A p \in Provider : Owners(p) # {} => Owners(p)' # {}]_orgVars

\* removeMember removes nobody its caller may not manage, although the member may
\* have been promoted since the roles were compared: only a crossing request does that.
RankRespected ==
    [][\A c \in Call : RemoveMember(c) =>
         \A m \in members \ members' :
           CanManageRole(call[c].by, m.role) \/ m.org \in overlapped]_orgVars

=============================================================================
