------------------------- MODULE OrganizationProofs -------------------------
(***************************************************************************)
(* Proofs about Organization, for any users, providers and requests.       *)
(***************************************************************************)
EXTENDS Organization, TLAPS

LEMMA OrgTypeInit == OrgInit => OrgTypeOK
  BY FounderAssumption DEF OrgInit, OrgTypeOK, Standing, Nobody, Idle

\* A row added with the next id keeps rows and ids apart.
LEMMA NewMemberType ==
  ASSUME OrgTypeOK, NEW p \in Provider, NEW u \in User, NEW r \in OrgMemberRole,
         \A m \in members : m.user # u, NewMember(p, u, r)
  PROVE  /\ members' \subseteq Member
         /\ issued' \in 0..MaxMember
         /\ \A m \in members' : m.id <= issued'
         /\ \A m, n \in members' : m.id = n.id \/ m.user = n.user => m = n
<1> DEFINE new == [id |-> issued + 1, org |-> p, user |-> u, role |-> r]
<1>1. issued' \in 0..MaxMember /\ issued + 1 \in Membership /\ issued' = issued + 1
  BY FounderAssumption DEF OrgTypeOK, NewMember, Membership
<1>2. new \in Member
  BY <1>1 DEF Member
<1>3. members' = members \cup {new}
  BY DEF NewMember
<1>4. \A m \in members : m.id \in Int /\ m.id # issued + 1 /\ m.id <= issued + 1
  BY <1>1 DEF OrgTypeOK, Member, Membership
<1>5. \A m \in members' : m.id <= issued'
  BY <1>1, <1>3, <1>4
<1>6. \A m, n \in members' : m.id = n.id \/ m.user = n.user => m = n
  BY <1>3, <1>4 DEF OrgTypeOK
<1> QED
  BY <1>1, <1>2, <1>3, <1>5, <1>6 DEF OrgTypeOK

LEMMA OrgTypeStep == OrgTypeOK /\ [OrgNext]_orgVars => OrgTypeOK'
<1> SUFFICES ASSUME OrgTypeOK, [OrgNext]_orgVars
             PROVE  OrgTypeOK'
  OBVIOUS
<1>1. ASSUME NEW p \in Provider, Apply(p) \/ Reject(p) \/ AskSuspend(p) \/ AskUnsuspend(p)
      PROVE  OrgTypeOK'
  BY <1>1 DEF Apply, Reject, AskSuspend, AskUnsuspend, OrgTypeOK, Standing, Verdict
<1>2. ASSUME NEW p \in Provider, Approve(p)
      PROVE  OrgTypeOK'
  <2>1. standing' \in [Provider -> Standing] /\ ownerless' \subseteq Provider
    BY <1>2 DEF Approve, OrgTypeOK, Standing
  <2>2. CASE \A m \in members : m.user # Founder[p]
    <3>1. NewMember(p, Founder[p], "OWNER")
      BY <1>2, <2>2 DEF Approve
    <3> QED
      BY <1>2, <2>1, <2>2, <3>1, NewMemberType, FounderAssumption
      DEF Approve, OrgTypeOK, OrgMemberRole
  <2>3. CASE \E m \in members : m.user = Founder[p]
    BY <1>2, <2>1, <2>3 DEF Approve, OrgTypeOK
  <2> QED
    BY <2>2, <2>3
<1>3. CASE UpdateStatus
  BY <1>3 DEF UpdateStatus, OrgTypeOK, Standing, Verdict, Nobody
<1>4. ASSUME NEW c \in Call, NEW m \in members, NEW kind \in {"CREATE", "ROLE", "REMOVE"},
             RequireMembership(c, m, kind)
      PROVE  OrgTypeOK'
  <2>1. [stage |-> "ADMITTED", kind |-> kind, org |-> m.org, by |-> m.role] \in Admitted
    BY DEF OrgTypeOK, Member, Admitted
  <2> QED
    BY <1>4, <2>1 DEF RequireMembership, OrgTypeOK
<1>5. ASSUME NEW c \in Call, NEW u \in User, NEW role \in OrgMemberRole,
             CheckInvitation(c, u, role)
      PROVE  OrgTypeOK'
  <2>1. call[c] \in Admitted
    BY <1>5 DEF CheckInvitation, OrgTypeOK, Idle, Invitation, Change
  <2>2. [stage |-> "CHECKED", kind |-> "CREATE", org |-> call[c].org, user |-> u,
         role |-> role] \in Invitation
    BY <2>1 DEF Admitted, Invitation
  <2> QED
    BY <1>5, <2>2 DEF CheckInvitation, OrgTypeOK
<1>6. ASSUME NEW c \in Call, NEW m \in members, NEW role \in OrgMemberRole,
             CheckTarget(c, m, role), call[c].stage = "ADMITTED", call[c].kind # "CREATE"
      PROVE  OrgTypeOK'
  <2>1. call[c] \in Admitted
    BY <1>6 DEF OrgTypeOK, Idle, Invitation, Change
  <2>2. [stage |-> "CHECKED", kind |-> call[c].kind, org |-> call[c].org,
         by |-> call[c].by, row |-> m.id, role |-> role] \in Change
    BY <1>6, <2>1 DEF Admitted, Change, OrgTypeOK, Member
  <2>3. overlapped' \subseteq Provider
    BY <1>6, <2>1 DEF CheckTarget, OrgTypeOK, Admitted
  <2> QED
    BY <1>6, <2>2, <2>3 DEF CheckTarget, OrgTypeOK
<1>7. ASSUME NEW c \in Call, Refuse(c)
      PROVE  OrgTypeOK'
  BY <1>7 DEF Refuse, OrgTypeOK
<1>8. ASSUME NEW c \in Call, CreateMember(c)
      PROVE  OrgTypeOK'
  <2>1. call[c] \in Invitation
    BY <1>8 DEF CreateMember, OrgTypeOK, Idle, Admitted, Change
  <2>2. CASE \A m \in members : m.user # call[c].user
    <3>1. NewMember(call[c].org, call[c].user, call[c].role)
      BY <1>8, <2>2 DEF CreateMember
    <3>2. /\ call[c].org \in Provider /\ call[c].user \in User
          /\ call[c].role \in OrgMemberRole
      BY <2>1 DEF Invitation
    <3> QED
      BY <1>8, <2>2, <3>1, <3>2, NewMemberType DEF CreateMember, OrgTypeOK
  <2>3. CASE \E m \in members : m.user = call[c].user
    BY <1>8, <2>3 DEF CreateMember, OrgTypeOK
  <2> QED
    BY <2>2, <2>3
<1>9. ASSUME NEW c \in Call, UpdateMemberRole(c)
      PROVE  OrgTypeOK'
  <2>1. call[c] \in Change
    BY <1>9 DEF UpdateMemberRole, OrgTypeOK, Idle, Admitted, Invitation
  <2>2. call[c].role \in OrgMemberRole
    BY <2>1 DEF Change
  <2>3. \A m \in members : LET k == Updated(m, call[c].row, call[c].role)
                           IN  k \in Member /\ k.id = m.id /\ k.user = m.user
    BY <2>2 DEF OrgTypeOK, Member, Updated
  <2>4. \A k \in members' : \E m \in members : k = Updated(m, call[c].row, call[c].role)
    BY <1>9 DEF UpdateMemberRole
  <2> QED
    BY <1>9, <2>3, <2>4 DEF UpdateMemberRole, OrgTypeOK
<1>10. ASSUME NEW c \in Call, RemoveMember(c)
       PROVE  OrgTypeOK'
  BY <1>10 DEF RemoveMember, OrgTypeOK
<1>11. CASE UNCHANGED orgVars
  BY <1>11 DEF orgVars, OrgTypeOK
<1> QED
  BY <1>1, <1>2, <1>3, <1>4, <1>5, <1>6, <1>7, <1>8, <1>9, <1>10, <1>11
  DEF OrgNext, AdminStep, MemberStep, CheckRole, CheckRemoval, OrgTypeOK, Member

\* Rows and requests are well formed, and nobody works for two organizations.
THEOREM OrgTypeCorrect == OrgSpec => []OrgTypeOK
  BY OrgTypeInit, OrgTypeStep, PTL DEF OrgSpec

-----------------------------------------------------------------------------
(* The strengthening.  Outside the overlapped organizations one request at *)
(* a time is between check and write, so what it checked still holds.      *)

Pending(c) == call[c].stage = "CHECKED" /\ call[c].kind # "CREATE"
Demotes(c) == call[c].kind = "REMOVE" \/ call[c].role # "OWNER"

RowsKnown ==
    \A c \in Call : Pending(c) =>
      /\ call[c].row <= issued
      /\ \A m \in members : m.id = call[c].row => m.org = call[c].org

Solo ==
    \A c, d \in Call : Pending(c) /\ Pending(d) /\ call[c].org = call[d].org =>
      c = d \/ call[c].org \in overlapped

Ready ==
    \A c \in Call, m \in members :
      Pending(c) /\ m.id = call[c].row /\ call[c].org \notin overlapped =>
        /\ call[c].kind = "REMOVE" => CanManageRole(call[c].by, m.role)
        /\ m.role = "OWNER" /\ Demotes(c) => NotLastOwner(m.org)

Owned ==
    \A p \in Provider :
      \/ p \in overlapped \/ p \in ownerless \/ Owners(p) # {}
      \/ /\ standing[p] \in {"ABSENT", "PENDING", "REJECTED"}
         /\ desk = Nobody \/ desk.org # p

OrgInv == OrgTypeOK /\ RowsKnown /\ Solo /\ Ready /\ Owned

LEMMA OrgInvInit == OrgInit => OrgInv
<1> SUFFICES ASSUME OrgInit PROVE OrgInv
  OBVIOUS
<1>1. OrgTypeOK
  BY OrgTypeInit
<1>2. \A c \in Call : ~Pending(c)
  BY DEF OrgInit, Pending, Idle
<1>3. Owned
  BY DEF OrgInit, Owned
<1> QED
  BY <1>1, <1>2, <1>3 DEF OrgInv, RowsKnown, Solo, Ready

\* The steps of administrators touch no row but the founder's.
LEMMA OrgInvStanding ==
  ASSUME OrgInv, NEW p \in Provider, Apply(p) \/ Reject(p) \/ AskSuspend(p) \/ AskUnsuspend(p)
  PROVE  OrgInv'
<1>1. OrgTypeOK'
  BY OrgTypeStep DEF OrgInv, OrgNext, AdminStep
<1>2. UNCHANGED <<members, issued, call, overlapped, ownerless>>
  BY DEF Apply, Reject, AskSuspend, AskUnsuspend
<1>3. RowsKnown' /\ Solo' /\ Ready'
  BY <1>2 DEF OrgInv, RowsKnown, Solo, Ready, Pending, Demotes, NotLastOwner, Owners
<1>4. Owned'
  BY <1>2 DEF OrgInv, OrgTypeOK, Owned, Owners, Apply, Reject, AskSuspend, AskUnsuspend,
              Nobody
<1> QED
  BY <1>1, <1>3, <1>4 DEF OrgInv

LEMMA OrgInvUpdateStatus == OrgInv /\ UpdateStatus => OrgInv'
<1> SUFFICES ASSUME OrgInv, UpdateStatus PROVE OrgInv'
  OBVIOUS
<1>1. OrgTypeOK'
  BY OrgTypeStep DEF OrgInv, OrgNext
<1>2. UNCHANGED <<members, issued, call, overlapped, ownerless>>
  BY DEF UpdateStatus
<1>3. RowsKnown' /\ Solo' /\ Ready'
  BY <1>2 DEF OrgInv, RowsKnown, Solo, Ready, Pending, Demotes, NotLastOwner, Owners
<1>4. Owned'
  BY <1>2 DEF OrgInv, OrgTypeOK, Owned, Owners, UpdateStatus
<1> QED
  BY <1>1, <1>3, <1>4 DEF OrgInv

\* A new row has a new id: no request in flight is about it.
LEMMA NewMemberKeeps ==
  ASSUME OrgInv, OrgTypeOK', NEW p \in Provider, NEW u \in User, NEW r \in OrgMemberRole,
         NewMember(p, u, r), UNCHANGED overlapped,
         \A c \in Call : Pending(c)' => Pending(c) /\ call'[c] = call[c]
  PROVE  /\ RowsKnown' /\ Solo' /\ Ready'
         /\ \A q \in Provider : Owners(q) \subseteq Owners(q)'
<1> DEFINE new == [id |-> issued + 1, org |-> p, user |-> u, role |-> r]
<1>1. members' = members \cup {new} /\ issued' = issued + 1 /\ issued \in Nat
  BY FounderAssumption DEF NewMember, OrgInv, OrgTypeOK
<1>2. \A c \in Call : Pending(c) => call[c].row \in Nat
  BY DEF OrgInv, OrgTypeOK, Pending, Idle, Admitted, Invitation, Change, Membership
<1>3. \A c \in Call : Pending(c)' => call[c].row # new.id
  BY <1>1, <1>2 DEF OrgInv, RowsKnown
<1>4. RowsKnown'
  BY <1>1, <1>2, <1>3 DEF OrgInv, RowsKnown
<1>5. Solo'
  BY DEF OrgInv, Solo
<1>6. \A q \in Provider : Owners(q) \subseteq Owners(q)'
  BY <1>1 DEF Owners
<1>7. \A q \in Provider : NotLastOwner(q) => NotLastOwner(q)'
  BY <1>6 DEF NotLastOwner
<1>8. Ready'
  <2> SUFFICES ASSUME NEW c \in Call, NEW m \in members', Pending(c)', m.id = call'[c].row,
                      call'[c].org \notin overlapped'
               PROVE  /\ call'[c].kind = "REMOVE" => CanManageRole(call'[c].by, m.role)
                      /\ m.role = "OWNER" /\ Demotes(c)' => NotLastOwner(m.org)'
    BY DEF Ready, CanManageRole
  <2>1. m \in members
    BY <1>1, <1>3
  <2> QED
    BY <2>1, <1>7 DEF OrgInv, OrgTypeOK, Member, Ready, Demotes
<1> QED
  BY <1>4, <1>5, <1>6, <1>8

LEMMA OrgInvApprove == ASSUME OrgInv, NEW p \in Provider, Approve(p) PROVE OrgInv'
<1>1. OrgTypeOK'
  BY OrgTypeStep DEF OrgInv, OrgNext, AdminStep
<1>2. UNCHANGED <<desk, call, overlapped>> /\ standing' = [standing EXCEPT ![p] = "APPROVED"]
  BY DEF Approve
<1>3. CASE NewMember(p, Founder[p], "OWNER") /\ UNCHANGED ownerless
  <2>1. RowsKnown' /\ Solo' /\ Ready' /\ \A q \in Provider : Owners(q) \subseteq Owners(q)'
    BY <1>1, <1>2, <1>3, NewMemberKeeps, FounderAssumption DEF Pending, OrgMemberRole
  <2>2. [id |-> issued + 1, org |-> p, user |-> Founder[p], role |-> "OWNER"] \in Owners(p)'
    BY <1>3 DEF NewMember, Owners
  <2>3. Owned'
    BY <1>2, <1>3, <2>1, <2>2 DEF OrgInv, OrgTypeOK, Owned
  <2> QED
    BY <1>1, <2>1, <2>3 DEF OrgInv
<1>4. CASE /\ ownerless' = IF Owners(p) = {} THEN ownerless \cup {p} ELSE ownerless
           /\ UNCHANGED <<members, issued>>
  <2>1. RowsKnown' /\ Solo' /\ Ready'
    BY <1>2, <1>4 DEF OrgInv, RowsKnown, Solo, Ready, Pending, Demotes, NotLastOwner, Owners
  <2>2. Owned'
    BY <1>2, <1>4 DEF OrgInv, OrgTypeOK, Owned, Owners
  <2> QED
    BY <1>1, <2>1, <2>2 DEF OrgInv
<1> QED
  BY <1>3, <1>4 DEF Approve

\* Requests that are let in, refused, or about an invitation.
LEMMA OrgInvAsk ==
  ASSUME OrgInv, OrgTypeOK', NEW c \in Call,
         UNCHANGED <<standing, desk, members, issued, overlapped, ownerless>>,
         \A d \in Call \ {c} : call'[d] = call[d], ~Pending(c)'
  PROVE  OrgInv'
<1>1. \A d \in Call : Pending(d)' => Pending(d) /\ call'[d] = call[d]
  BY DEF Pending
<1>2. RowsKnown' /\ Solo'
  BY <1>1 DEF OrgInv, RowsKnown, Solo
<1>3. Ready'
  BY <1>1 DEF OrgInv, Ready, Demotes, NotLastOwner, Owners
<1>4. Owned'
  BY DEF OrgInv, Owned, Owners
<1> QED
  BY <1>2, <1>3, <1>4 DEF OrgInv

LEMMA OrgInvCheckTarget ==
  ASSUME OrgInv, OrgTypeOK', NEW c \in Call, NEW m \in members, NEW role \in OrgMemberRole,
         CheckRole(c, m, role) \/ (role = m.role /\ CheckRemoval(c, m))
  PROVE  OrgInv'
<1>1. /\ CheckTarget(c, m, role) /\ call[c].stage = "ADMITTED" /\ call[c].kind # "CREATE"
      /\ m.org = call[c].org
  BY DEF CheckRole, CheckRemoval
<1>2. /\ call[c] \in Admitted
      /\ call'[c] = [stage |-> "CHECKED", kind |-> call[c].kind, org |-> call[c].org,
                     by |-> call[c].by, row |-> m.id, role |-> role]
      /\ \A d \in Call \ {c} : call'[d] = call[d]
  BY <1>1 DEF CheckTarget, OrgInv, OrgTypeOK, Idle, Invitation, Change
<1>3. /\ UNCHANGED <<standing, desk, members, issued, ownerless>>
      /\ overlapped \subseteq overlapped'
      /\ Overlaps(c) => call[c].org \in overlapped'
  BY <1>1 DEF CheckTarget
<1>4. RowsKnown'
  BY <1>1, <1>2, <1>3 DEF OrgInv, OrgTypeOK, RowsKnown, Pending
<1>5. Solo'
  BY <1>2, <1>3 DEF OrgInv, Solo, Pending, Overlaps, Changing
<1>6. Ready'
  <2> SUFFICES ASSUME NEW d \in Call, NEW n \in members, Pending(d)', n.id = call'[d].row,
                      call'[d].org \notin overlapped'
               PROVE  /\ call'[d].kind = "REMOVE" => CanManageRole(call'[d].by, n.role)
                      /\ n.role = "OWNER" /\ Demotes(d)' => NotLastOwner(n.org)'
    BY <1>3 DEF Ready, CanManageRole
  <2>1. NotLastOwner(n.org)' <=> NotLastOwner(n.org)
    BY <1>3 DEF NotLastOwner, Owners
  <2>2. CASE d = c
    <3>1. n = m
      BY <1>2, <2>2 DEF OrgInv, OrgTypeOK
    <3> QED
      BY <1>1, <1>2, <2>1, <2>2, <3>1 DEF CheckRole, CheckRemoval, Demotes
  <2>3. CASE d # c
    BY <1>2, <1>3, <2>1, <2>3 DEF OrgInv, Ready, Pending, Demotes
  <2> QED
    BY <2>2, <2>3
<1>7. Owned'
  BY <1>3 DEF OrgInv, Owned, Owners
<1> QED
  BY <1>4, <1>5, <1>6, <1>7 DEF OrgInv

LEMMA OrgInvCreateMember == ASSUME OrgInv, NEW c \in Call, CreateMember(c) PROVE OrgInv'
<1>1. OrgTypeOK'
  BY OrgTypeStep DEF OrgInv, OrgNext, MemberStep
<1>2. UNCHANGED <<standing, desk, overlapped, ownerless>> /\ call' = [call EXCEPT ![c] = Idle]
  BY DEF CreateMember
<1>3. \A d \in Call : Pending(d)' => Pending(d) /\ call'[d] = call[d]
  BY <1>2 DEF OrgInv, OrgTypeOK, Pending, Idle
<1>4. CASE UNCHANGED <<members, issued>>
  BY <1>1, <1>2, <1>3, <1>4, OrgInvAsk DEF OrgInv, OrgTypeOK, Pending, Idle
<1>5. CASE NewMember(call[c].org, call[c].user, call[c].role)
  <2>1. call[c] \in Invitation
    BY DEF CreateMember, OrgInv, OrgTypeOK, Idle, Admitted, Change
  <2>2. RowsKnown' /\ Solo' /\ Ready' /\ \A q \in Provider : Owners(q) \subseteq Owners(q)'
    BY <1>1, <1>2, <1>3, <1>5, <2>1, NewMemberKeeps DEF Invitation
  <2>3. Owned'
    BY <1>2, <2>2 DEF OrgInv, Owned
  <2> QED
    BY <1>1, <2>2, <2>3 DEF OrgInv
<1> QED
  BY <1>4, <1>5 DEF CreateMember

\* What the two writes have in common: rows of other organizations stay, and in
\* this one only the row of the request may be lost to the owners.
Writes(c) ==
    /\ Pending(c) /\ call' = [call EXCEPT ![c] = Idle]
    /\ UNCHANGED <<standing, desk, issued, overlapped, ownerless>>
    /\ \A n \in members' : \E m \in members : n.id = m.id /\ n.org = m.org
                             /\ (m.id # call[c].row => n = m)
    /\ \A m \in members : m.id # call[c].row => m \in members'
    /\ \A m \in members : m.id = call[c].row /\ m.role = "OWNER" /\ ~Demotes(c) => m \in members'

LEMMA UpdateWrites == ASSUME OrgTypeOK, NEW c \in Call, UpdateMemberRole(c) PROVE Writes(c)
<1>1. \A m \in members : LET n == Updated(m, call[c].row, call[c].role)
                         IN  /\ n.id = m.id /\ n.org = m.org
                             /\ m.id # call[c].row => n = m
                             /\ m.role = "OWNER" /\ call[c].role = "OWNER" => n = m
  BY DEF OrgTypeOK, Member, Updated
<1>2. /\ \A n \in members' : \E m \in members : n = Updated(m, call[c].row, call[c].role)
      /\ \A m \in members : Updated(m, call[c].row, call[c].role) \in members'
  BY DEF UpdateMemberRole
<1>3. /\ Pending(c) /\ call' = [call EXCEPT ![c] = Idle] /\ call[c].kind = "ROLE"
      /\ UNCHANGED <<standing, desk, issued, overlapped, ownerless>>
  BY DEF UpdateMemberRole, Pending
<1>4. \A n \in members' : \E m \in members : n.id = m.id /\ n.org = m.org
                             /\ (m.id # call[c].row => n = m)
  BY <1>1, <1>2
<1>5. \A m \in members : m.id # call[c].row => m \in members'
  BY <1>1, <1>2
<1>6. \A m \in members : m.id = call[c].row /\ m.role = "OWNER" /\ ~Demotes(c) => m \in members'
  BY <1>1, <1>2 DEF Demotes
<1> QED
  BY <1>3, <1>4, <1>5, <1>6 DEF Writes

LEMMA RemoveWrites == ASSUME OrgTypeOK, NEW c \in Call, RemoveMember(c) PROVE Writes(c)
  BY DEF RemoveMember, Writes, Pending, Demotes

LEMMA OrgInvWrite == ASSUME OrgInv, OrgTypeOK', NEW c \in Call, Writes(c) PROVE OrgInv'
<1>1. /\ call[c] \in Change
      /\ \A d \in Call : Pending(d)' => d # c /\ Pending(d) /\ call'[d] = call[d]
  BY DEF Writes, Pending, OrgInv, OrgTypeOK, Idle, Admitted, Invitation
<1>2. RowsKnown'
  BY <1>1 DEF Writes, OrgInv, RowsKnown
<1>3. Solo'
  BY <1>1 DEF Writes, OrgInv, Solo
\* Rows of other organizations are left alone.
<1>4. \A m \in members : m.org # call[c].org => m \in members'
  BY DEF Writes, OrgInv, RowsKnown
<1>5. \A n \in members' : n.org # call[c].org => n \in members
  BY DEF Writes, OrgInv, RowsKnown
<1>6. \A q \in Provider : q # call[c].org => Owners(q)' = Owners(q)
  BY <1>4, <1>5 DEF Owners
<1>7. Ready'
  <2> SUFFICES ASSUME NEW d \in Call, NEW n \in members', Pending(d)', n.id = call'[d].row,
                      call'[d].org \notin overlapped'
               PROVE  /\ call'[d].kind = "REMOVE" => CanManageRole(call'[d].by, n.role)
                      /\ n.role = "OWNER" /\ Demotes(d)' => NotLastOwner(n.org)'
    BY DEF Ready, CanManageRole
  <2>1. call[d].org # call[c].org
    BY <1>1 DEF Writes, OrgInv, Solo
  <2>2. n.org = call[d].org
    BY <1>1, <1>2 DEF RowsKnown
  <2>3. n \in members
    BY <1>5, <2>1, <2>2
  <2>4. n.org \in Provider
    BY <2>3 DEF OrgInv, OrgTypeOK, Member
  <2>5. NotLastOwner(n.org) => NotLastOwner(n.org)'
    BY <1>6, <2>1, <2>2, <2>4 DEF NotLastOwner
  <2> QED
    BY <1>1, <2>3, <2>5 DEF OrgInv, Ready, Demotes, Writes
<1>8. ASSUME NEW p \in Provider, p = call[c].org, p \notin overlapped, Owners(p) # {}
      PROVE  Owners(p)' # {}
  <2>1. PICK o \in Owners(p) : TRUE
    BY <1>8
  <2>2. CASE \E m \in members : m.id = call[c].row /\ m.role = "OWNER" /\ Demotes(c)
    <3>1. PICK m \in members : m.id = call[c].row /\ m.role = "OWNER" /\ Demotes(c)
      BY <2>2
    <3>2. m.org = p /\ NotLastOwner(p)
      BY <1>8, <3>1 DEF Writes, OrgInv, RowsKnown, Ready
    <3>3. PICK k \in Owners(p) : k # m
      BY <3>2 DEF NotLastOwner
    <3>4. k.id # call[c].row
      BY <3>1, <3>3 DEF Owners, OrgInv, OrgTypeOK
    <3> QED
      BY <3>3, <3>4 DEF Owners, Writes
  <2>3. CASE ~\E m \in members : m.id = call[c].row /\ m.role = "OWNER" /\ Demotes(c)
    BY <2>1, <2>3 DEF Owners, Writes
  <2> QED
    BY <2>2, <2>3
<1>9. Owned'
  <2>1. \A p \in Provider : p \in overlapped \/ Owners(p) = {} \/ Owners(p)' # {}
    BY <1>6, <1>8
  <2> QED
    BY <2>1 DEF OrgInv, Owned, Writes
<1> QED
  BY <1>2, <1>3, <1>7, <1>9 DEF OrgInv

LEMMA OrgInvStep == OrgInv /\ [OrgNext]_orgVars => OrgInv'
<1> SUFFICES ASSUME OrgInv, [OrgNext]_orgVars PROVE OrgInv'
  OBVIOUS
<1>1. OrgTypeOK /\ OrgTypeOK'
  BY OrgTypeStep DEF OrgInv
<1>2. ASSUME NEW c \in Call, NEW m \in members, NEW kind \in {"CREATE", "ROLE", "REMOVE"},
             RequireMembership(c, m, kind)
      PROVE  OrgInv'
  BY <1>1, <1>2, OrgInvAsk DEF RequireMembership, OrgTypeOK, Pending
<1>3. ASSUME NEW c \in Call, NEW u \in User, NEW role \in OrgMemberRole,
             CheckInvitation(c, u, role)
      PROVE  OrgInv'
  BY <1>1, <1>3, OrgInvAsk DEF CheckInvitation, OrgTypeOK, Pending
<1>4. ASSUME NEW c \in Call, Refuse(c)
      PROVE  OrgInv'
  BY <1>1, <1>4, OrgInvAsk DEF Refuse, OrgTypeOK, Pending, Idle
<1>5. ASSUME NEW c \in Call, NEW m \in members, NEW role \in OrgMemberRole,
             CheckRole(c, m, role)
      PROVE  OrgInv'
  BY <1>1, <1>5, OrgInvCheckTarget
<1>6. ASSUME NEW c \in Call, NEW m \in members, CheckRemoval(c, m)
      PROVE  OrgInv'
  <2>1. m.role \in OrgMemberRole
    BY <1>1 DEF OrgTypeOK, Member
  <2> QED
    BY <1>1, <1>6, <2>1, OrgInvCheckTarget
<1>7. ASSUME NEW c \in Call, UpdateMemberRole(c) \/ RemoveMember(c)
      PROVE  OrgInv'
  BY <1>1, <1>7, UpdateWrites, RemoveWrites, OrgInvWrite
<1>8. CASE UNCHANGED orgVars
  BY <1>1, <1>8 DEF orgVars, OrgInv, RowsKnown, Solo, Ready, Owned, Pending, Demotes,
                    NotLastOwner, Owners
<1> QED
  BY <1>2, <1>3, <1>4, <1>5, <1>6, <1>7, <1>8,
     OrgInvStanding, OrgInvApprove, OrgInvUpdateStatus, OrgInvCreateMember
  DEF OrgNext, AdminStep, MemberStep

\* An organization that may trade has an owner, but for the two ways to lose it:
\* crossing requests and a founder who joined another one.
THEOREM OwnersRemain == OrgSpec => []OwnerUnlessOverlapped
<1>1. OrgInv => OwnerUnlessOverlapped
  BY DEF OrgInv, Owned, OwnerUnlessOverlapped
<1> QED
  BY <1>1, OrgInvInit, OrgInvStep, PTL DEF OrgSpec

\* Nobody is removed by a member of no higher rank unless requests cross.
THEOREM RankAlwaysRespected == OrgSpec => RankRespected
<1>1. OrgInv /\ [OrgNext]_orgVars =>
        [\A c \in Call : RemoveMember(c) =>
           \A m \in members \ members' :
             CanManageRole(call[c].by, m.role) \/ m.org \in overlapped]_orgVars
  <2> SUFFICES ASSUME OrgInv, NEW c \in Call, RemoveMember(c), NEW m \in members \ members',
                      m.org \notin overlapped
               PROVE  CanManageRole(call[c].by, m.role)
    BY DEF CanManageRole
  <2>1. m.id = call[c].row /\ Pending(c)
    BY DEF RemoveMember, Pending
  <2>2. m.org = call[c].org
    BY <2>1 DEF OrgInv, RowsKnown
  <2> QED
    BY <2>1, <2>2 DEF OrgInv, Ready, RemoveMember
<1> QED
  BY <1>1, OrgInvInit, OrgInvStep, PTL DEF OrgSpec, RankRespected
=============================================================================
