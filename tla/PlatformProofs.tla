--------------------------- MODULE PlatformProofs ---------------------------
(***************************************************************************)
(* The parts that serve the others, and the platform they make up          *)
(* together: sessions, background jobs, the keys of the catalogue and the  *)
(* walk through a list, each on its own; then, by those theorems and the   *)
(* ones of TravelProofs and MoneyProofs, what holds of every part in       *)
(* Platform.                                                               *)
(***************************************************************************)
EXTENDS Platform, TravelProofs, MoneyProofs, FiniteSetTheorems, TLAPS

-----------------------------------------------------------------------------
(* Sessions.                                                               *)

\* A row of refresh_tokens.
TokenRow == [issued : Nat, revoked : BOOLEAN]

\* The kinds of what sessions keep.
SessionShape ==
    /\ now \in Second /\ active \in BOOLEAN
    /\ tokens \in Seq(TokenRow)
    /\ \A i \in DOMAIN tokens : tokens[i].issued \in 1..now
    /\ holds \in [Device -> 0..now]
    /\ given \in [Device -> SUBSET (1..now)]
    /\ refreshing \in [Refresh -> [stage : {"IDLE", "FOUND", "REVOKED"}, of : Nat, row : Nat,
                                   device : Device \cup {0}]]
    /\ exchanged \in [Second -> Nat]
    /\ shared \subseteq Second /\ overlapped \subseteq Second /\ interrupted \subseteq Device

\* A token that was issued has a row; one that two devices got was issued twice, and so
\* was one with two rows.
TokensOwned ==
    /\ \A d \in Device : holds[d] # 0 => holds[d] \in given[d]
    /\ \A d \in Device : \A s \in given[d] : \E i \in DOMAIN tokens : tokens[i].issued = s
    /\ \A d, e \in Device : d # e => given[d] \cap given[e] \subseteq shared
    /\ \A i, j \in DOMAIN tokens :
         tokens[i].issued = tokens[j].issued /\ tokens[i].issued \notin shared => i = j

\* A request under way has a row of a token its device was given.
RefreshesReal ==
    \A q \in Refresh :
      LET r == refreshing[q]
      IN  /\ r.stage # "IDLE" => /\ r.device \in Device /\ r.of \in given[r.device]
                                 /\ r.row \in DOMAIN tokens /\ tokens[r.row].issued = r.of
          /\ r.stage = "IDLE" => r = Idle
          /\ r.stage = "REVOKED" => tokens[r.row].revoked

\* Until requests for it overlap, a token is spent by one of them; a token that was
\* exchanged has rows, and all of them are revoked.
SpentOnce ==
    \A s \in Second \ (shared \cup overlapped) :
      /\ \A p, q \in Refresh : refreshing[p].of = s /\ refreshing[q].of = s => p = q
      /\ \A q \in Refresh : refreshing[q].of = s => exchanged[s] = 0
      /\ exchanged[s] <= 1
      /\ exchanged[s] = 1 =>
           /\ \E i \in DOMAIN tokens : tokens[i].issued = s
           /\ \A i \in DOMAIN tokens : tokens[i].issued = s => tokens[i].revoked

\* What a device holds has a row left, or is being exchanged.
HeldIsGood ==
    \A d \in Device \ interrupted :
      holds[d] # 0 /\ holds[d] \notin shared /\ (\A q \in Refresh : refreshing[q].of # holds[d])
        => \E i \in DOMAIN tokens : tokens[i].issued = holds[d] /\ ~tokens[i].revoked

SessionInv == SessionShape /\ TokensOwned /\ RefreshesReal /\ SpentOnce /\ HeldIsGood

LEMMA SessionInitInv == SessionInit => SessionInv
<1> SUFFICES ASSUME SessionInit PROVE SessionInv
  OBVIOUS
<1> USE SessionAssumption DEF SessionInit
<1>1. \A d \in Device : given[d] # {} => d = First
  OBVIOUS
<1>2. Len(tokens) = 1 /\ tokens[1] = [issued |-> 1, revoked |-> FALSE] /\ DOMAIN tokens = {1}
  OBVIOUS
<1>3. SessionShape
  BY <1>2 DEF SessionShape, Second, Idle, TokenRow
<1>4. TokensOwned
  BY <1>1, <1>2 DEF TokensOwned
<1>5. RefreshesReal
  BY DEF RefreshesReal, Idle
<1>6. SpentOnce
  BY DEF SpentOnce, Second, Idle
<1>7. HeldIsGood
  BY <1>2 DEF HeldIsGood
<1> QED
  BY <1>3, <1>4, <1>5, <1>6, <1>7 DEF SessionInv

\* What issuing a pair changes.
Issued(d) ==
    /\ tokens' \in Seq(TokenRow)
    /\ DOMAIN tokens' = DOMAIN tokens \cup {Len(tokens) + 1}
    /\ Len(tokens) + 1 \notin DOMAIN tokens
    /\ \A i \in DOMAIN tokens : tokens'[i] = tokens[i]
    /\ tokens'[Len(tokens) + 1] = [issued |-> now, revoked |-> FALSE]
    /\ shared \subseteq shared' /\ shared' \subseteq shared \cup {now}
    /\ \A i \in DOMAIN tokens : tokens[i].issued = now => now \in shared'
    /\ \A e \in Device : holds'[e] = IF e = d THEN now ELSE holds[e]
    /\ \A e \in Device : given'[e] = IF e = d THEN given[e] \cup {now} ELSE given[e]
    /\ holds' \in [Device -> 0..now] /\ given' \in [Device -> SUBSET (1..now)]
    /\ interrupted' = interrupted \ {d}
    /\ now \in 1..now /\ now \in Second /\ now' = now /\ now \in Nat /\ now # 0

LEMMA IssueIsIssued ==
    ASSUME SessionInv, NEW d \in Device, IssueTokens(d), now' = now
    PROVE  Issued(d)
<1>1. /\ tokens \in Seq(TokenRow) /\ now \in Nat /\ now # 0 /\ now \in Second /\ now \in 1..now
      /\ holds \in [Device -> 0..now] /\ given \in [Device -> SUBSET (1..now)]
  BY SessionAssumption DEF SessionInv, SessionShape, Second
<1>2. /\ tokens' = Append(tokens, [issued |-> now, revoked |-> FALSE])
      /\ holds' = [holds EXCEPT ![d] = now] /\ given' = [given EXCEPT ![d] = @ \cup {now}]
      /\ shared' = IF \E i \in DOMAIN tokens : tokens[i].issued = now
                   THEN shared \cup {now} ELSE shared
      /\ interrupted' = interrupted \ {d}
  BY DEF IssueTokens
<1>3. [issued |-> now, revoked |-> FALSE] \in TokenRow
  BY <1>1 DEF TokenRow
<1>4. /\ tokens' \in Seq(TokenRow)
      /\ DOMAIN tokens' = DOMAIN tokens \cup {Len(tokens) + 1}
      /\ Len(tokens) + 1 \notin DOMAIN tokens
      /\ \A i \in DOMAIN tokens : tokens'[i] = tokens[i]
      /\ tokens'[Len(tokens) + 1] = [issued |-> now, revoked |-> FALSE]
  BY <1>1, <1>2, <1>3
<1>5. /\ \A e \in Device : holds'[e] = IF e = d THEN now ELSE holds[e]
      /\ \A e \in Device : given'[e] = IF e = d THEN given[e] \cup {now} ELSE given[e]
      /\ holds' \in [Device -> 0..now] /\ given' \in [Device -> SUBSET (1..now)]
  <2>1. now \in 0..now /\ given[d] \cup {now} \in SUBSET (1..now)
    BY <1>1
  <2>2. given' = [given EXCEPT ![d] = given[d] \cup {now}]
    BY <1>1, <1>2
  <2> QED
    BY <1>1, <1>2, <2>1, <2>2
<1> QED
  BY <1>1, <1>2, <1>4, <1>5 DEF Issued

LEMMA IssueOwned ==
    ASSUME SessionInv, NEW d \in Device, Issued(d)
    PROVE  TokensOwned'
<1>3. TokensOwned
  BY DEF SessionInv, SessionShape
<1>5. \A e \in Device : holds'[e] # 0 => holds'[e] \in given'[e]
  BY <1>3 DEF TokensOwned, Issued
<1>6. ASSUME NEW e \in Device, NEW s \in given'[e]
      PROVE \E i \in DOMAIN tokens' : tokens'[i].issued = s
  <2>1. CASE s = now
    BY <2>1 DEF Issued
  <2>2. CASE s # now
    <3>1. PICK i \in DOMAIN tokens : tokens[i].issued = s
      BY <1>3, <1>6, <2>2 DEF TokensOwned, Issued
    <3> QED
      BY <3>1 DEF Issued
  <2> QED
    BY <2>1, <2>2
<1>7. ASSUME NEW e \in Device, NEW f \in Device, e # f, NEW s \in given'[e] \cap given'[f]
      PROVE  s \in shared'
  BY <1>3, <1>7 DEF TokensOwned, Issued
<1>8. ASSUME NEW i \in DOMAIN tokens', NEW j \in DOMAIN tokens',
             tokens'[i].issued = tokens'[j].issued, tokens'[i].issued \notin shared'
      PROVE  i = j
  BY <1>3, <1>8 DEF TokensOwned, Issued
<1> QED
  BY <1>5, <1>6, <1>7, <1>8 DEF TokensOwned

\* A step that revokes rows of S and changes nothing else about them.
Keeps(S) ==
    /\ tokens' \in Seq(TokenRow)
    /\ DOMAIN tokens' = DOMAIN tokens
    /\ \A i \in DOMAIN tokens :
         /\ tokens'[i].issued = tokens[i].issued
         /\ tokens[i].revoked => tokens'[i].revoked
         /\ i \notin S => tokens'[i] = tokens[i]

LEMMA LoginInv ==
    ASSUME SessionInv, NEW d \in Device, Login(d) PROVE SessionInv'
<1>1. Issued(d) /\ UNCHANGED <<active, refreshing, exchanged, overlapped>>
  BY IssueIsIssued DEF Login
<1>2. TokensOwned'
  BY <1>1, IssueOwned
<1>3. SessionShape'
  BY <1>1 DEF SessionInv, SessionShape, Issued
<1>4. RefreshesReal'
  BY <1>1 DEF SessionInv, RefreshesReal, Issued
<1>5. SpentOnce'
  <2> SUFFICES ASSUME NEW s \in Second \ (shared' \cup overlapped')
               PROVE  /\ \A p, q \in Refresh : refreshing[p].of = s /\ refreshing[q].of = s => p = q
                      /\ \A q \in Refresh : refreshing[q].of = s => exchanged[s] = 0
                      /\ exchanged[s] <= 1
                      /\ exchanged[s] = 1 =>
                           /\ \E i \in DOMAIN tokens' : tokens'[i].issued = s
                           /\ \A i \in DOMAIN tokens' : tokens'[i].issued = s => tokens'[i].revoked
    BY <1>1 DEF SpentOnce
  <2>1. s \in Second \ (shared \cup overlapped)
    BY <1>1 DEF Issued
  <2> QED
    BY <1>1, <2>1 DEF SessionInv, SpentOnce, Issued
<1>6. HeldIsGood'
  <2> SUFFICES ASSUME NEW e \in Device \ interrupted', holds'[e] # 0, holds'[e] \notin shared',
                      \A q \in Refresh : refreshing[q].of # holds'[e]
               PROVE  \E i \in DOMAIN tokens' : tokens'[i].issued = holds'[e] /\ ~tokens'[i].revoked
    BY <1>1 DEF HeldIsGood
  <2>1. CASE e = d
    BY <1>1, <2>1 DEF Issued
  <2>2. CASE e # d
    <3>1. PICK i \in DOMAIN tokens : tokens[i].issued = holds[e] /\ ~tokens[i].revoked
      BY <1>1, <2>2 DEF SessionInv, HeldIsGood, Issued
    <3> QED
      BY <1>1, <2>2, <3>1 DEF Issued
  <2> QED
    BY <2>1, <2>2
<1> QED
  BY <1>2, <1>3, <1>4, <1>5, <1>6 DEF SessionInv

LEMMA FindActiveInv ==
    ASSUME SessionInv, NEW q \in Refresh, NEW d \in Device, NEW s \in Second, FindActive(q, d, s)
    PROVE  SessionInv'
<1>1. PICK i \in ActiveRows(s) :
         refreshing' = [refreshing EXCEPT ![q] =
            [stage |-> "FOUND", of |-> s, row |-> i, device |-> d]]
  BY DEF FindActive
<1>2. /\ refreshing[q] = Idle /\ s \in given[d]
      /\ i \in DOMAIN tokens /\ tokens[i].issued = s /\ ~tokens[i].revoked
      /\ UNCHANGED <<now, active, tokens, holds, given, exchanged, shared, interrupted>>
      /\ overlapped' = IF \E p \in Refresh : refreshing[p].of = s
                       THEN overlapped \cup {s} ELSE overlapped
  BY <1>1 DEF FindActive, ActiveRows, Rows
<1>3. s \in Nat /\ i \in Nat /\ s # 0
  BY <1>2 DEF Second, SessionInv, SessionShape
<1>4. \A p \in Refresh : refreshing'[p] =
          IF p = q THEN [stage |-> "FOUND", of |-> s, row |-> i, device |-> d] ELSE refreshing[p]
  BY <1>1 DEF SessionInv, SessionShape
<1>5. SessionShape'
  BY <1>1, <1>2, <1>3 DEF SessionInv, SessionShape
<1>6. TokensOwned'
  BY <1>2 DEF SessionInv, TokensOwned
<1>7. RefreshesReal'
  BY <1>2, <1>4 DEF SessionInv, RefreshesReal
<1>8. SpentOnce'
  <2> SUFFICES ASSUME NEW t \in Second \ (shared' \cup overlapped')
               PROVE  /\ \A p, r \in Refresh : refreshing'[p].of = t /\ refreshing'[r].of = t => p = r
                      /\ \A p \in Refresh : refreshing'[p].of = t => exchanged[t] = 0
                      /\ exchanged[t] <= 1
                      /\ exchanged[t] = 1 =>
                           /\ \E j \in DOMAIN tokens : tokens[j].issued = t
                           /\ \A j \in DOMAIN tokens : tokens[j].issued = t => tokens[j].revoked
    BY <1>2 DEF SpentOnce
  <2>1. t \in Second \ (shared \cup overlapped)
    BY <1>2
  <2>2. exchanged[s] \in Nat
    BY DEF SessionInv, SessionShape
  <2>3. s = t => exchanged[t] = 0 /\ \A p \in Refresh : refreshing[p].of # s
    BY <1>2, <2>1, <2>2 DEF SessionInv, SpentOnce
  <2> QED
    BY <1>4, <2>1, <2>3 DEF SessionInv, SpentOnce
<1>9. HeldIsGood'
  BY <1>2, <1>3, <1>4 DEF SessionInv, HeldIsGood, Idle
<1> QED
  BY <1>5, <1>6, <1>7, <1>8, <1>9 DEF SessionInv

LEMMA RevokeInv ==
    ASSUME SessionInv, NEW q \in Refresh, Revoke(q) PROVE SessionInv'
<1> DEFINE r == refreshing[q]
<1>1. /\ r.stage = "FOUND" /\ r.device \in Device /\ r.of \in given[r.device]
      /\ r.row \in DOMAIN tokens /\ tokens[r.row].issued = r.of
      /\ tokens' = [tokens EXCEPT ![r.row].revoked = TRUE]
      /\ UNCHANGED <<now, active, holds, given, exchanged, shared, overlapped>>
  BY DEF Revoke, SessionInv, RefreshesReal
<1>2. Keeps({r.row}) /\ tokens'[r.row].revoked
  <2>1. tokens \in Seq(TokenRow)
    BY DEF SessionInv, SessionShape
  <2>2. [tokens[r.row] EXCEPT !.revoked = TRUE] \in TokenRow
        /\ [tokens[r.row] EXCEPT !.revoked = TRUE].revoked
        /\ [tokens[r.row] EXCEPT !.revoked = TRUE].issued = tokens[r.row].issued
    <3>1. tokens[r.row] \in TokenRow
      BY <1>1, <2>1
    <3> QED
      BY <3>1 DEF TokenRow
  <2>3. /\ tokens' \in Seq(TokenRow) /\ DOMAIN tokens' = DOMAIN tokens
        /\ \A i \in DOMAIN tokens : tokens'[i] =
             IF i = r.row THEN [tokens[r.row] EXCEPT !.revoked = TRUE] ELSE tokens[i]
    BY <1>1, <2>1, <2>2
  <2> QED
    BY <1>1, <2>2, <2>3 DEF Keeps
<1>3. \/ refreshing' = [refreshing EXCEPT ![q].stage = "REVOKED"] /\ interrupted' = interrupted
      \/ refreshing' = [refreshing EXCEPT ![q] = Idle]
           /\ interrupted' = interrupted \cup {r.device}
  BY DEF Revoke
<1>4. /\ \A p \in Refresh : p # q => refreshing'[p] = refreshing[p]
      /\ \/ /\ refreshing'[q] = [r EXCEPT !.stage = "REVOKED"] /\ interrupted' = interrupted
         \/ refreshing'[q] = Idle /\ interrupted' = interrupted \cup {r.device}
  BY <1>3 DEF SessionInv, SessionShape
<1>5. /\ \A p \in Refresh : refreshing'[p].of \in {refreshing[p].of, 0}
      /\ \/ refreshing'[q] = Idle /\ r.device \in interrupted'
         \/ /\ refreshing'[q].stage = "REVOKED" /\ refreshing'[q].of = r.of
            /\ refreshing'[q].row = r.row /\ refreshing'[q].device = r.device
      /\ r.of # 0
  <2>1. r \in [stage : {"IDLE", "FOUND", "REVOKED"}, of : Nat, row : Nat, device : Device \cup {0}]
    BY DEF SessionInv, SessionShape
  <2>2. CASE refreshing'[q] = [r EXCEPT !.stage = "REVOKED"]
    <3>1. /\ refreshing'[q].stage = "REVOKED" /\ refreshing'[q].of = r.of
          /\ refreshing'[q].row = r.row /\ refreshing'[q].device = r.device
      BY <2>1, <2>2
    <3>2. r.of # 0 /\ r.of \in Nat
      BY <1>1, <2>1, SessionAssumption DEF SessionInv, SessionShape, Second
    <3> QED
      BY <1>4, <3>1, <3>2
  <2>3. CASE refreshing'[q] = Idle
    <3>1. r.of # 0 /\ refreshing'[q].of = 0
      BY <1>1, <2>3, SessionAssumption DEF SessionInv, SessionShape, Second, Idle
    <3>2. r.device \in interrupted'
      <4>1. CASE refreshing'[q] = [r EXCEPT !.stage = "REVOKED"]
        BY <2>1, <2>3, <4>1 DEF Idle
      <4>2. CASE refreshing'[q] # [r EXCEPT !.stage = "REVOKED"]
        BY <1>4, <4>2
      <4> QED
        BY <4>1, <4>2
    <3> QED
      BY <1>4, <2>3, <3>1, <3>2
  <2> QED
    BY <1>4, <2>2, <2>3
<1>6. SessionShape'
  <2>1. refreshing' \in [Refresh -> [stage : {"IDLE", "FOUND", "REVOKED"}, of : Nat, row : Nat,
                                     device : Device \cup {0}]]
    <3>1. /\ r \in [stage : {"IDLE", "FOUND", "REVOKED"}, of : Nat, row : Nat, device : Device \cup {0}]
          /\ Idle \in [stage : {"IDLE", "FOUND", "REVOKED"}, of : Nat, row : Nat, device : Device \cup {0}]
      BY DEF SessionInv, SessionShape, Idle
    <3>2. [r EXCEPT !.stage = "REVOKED"]
            \in [stage : {"IDLE", "FOUND", "REVOKED"}, of : Nat, row : Nat, device : Device \cup {0}]
      BY <3>1
    <3> QED
      BY <1>3, <3>1, <3>2 DEF SessionInv, SessionShape
  <2> QED
    BY <1>1, <1>2, <1>3, <2>1 DEF SessionInv, SessionShape, Keeps
<1>7. TokensOwned'
  BY <1>1, <1>2 DEF SessionInv, TokensOwned, Keeps
<1>8. RefreshesReal'
  BY <1>1, <1>2, <1>4, <1>5 DEF SessionInv, RefreshesReal, Idle, Keeps
<1>9. SpentOnce'
  BY <1>1, <1>2, <1>5 DEF SessionInv, SpentOnce, Keeps, Second
<1>10. HeldIsGood'
  <2> SUFFICES ASSUME NEW d \in Device \ interrupted', holds[d] # 0, holds[d] \notin shared,
                      \A p \in Refresh : refreshing'[p].of # holds[d]
               PROVE  \E i \in DOMAIN tokens' : tokens'[i].issued = holds[d] /\ ~tokens'[i].revoked
    BY <1>1 DEF HeldIsGood
  <2>1. r.of # holds[d]
    <3>1. CASE r.device = d
      <4>1. refreshing'[q].of = r.of
        <5>1. d \notin interrupted'
          OBVIOUS
        <5> QED
          BY <1>5, <3>1, <5>1
      <4> QED
        BY <4>1
    <3>2. CASE r.device # d
      BY <1>1, <3>2 DEF SessionInv, TokensOwned
    <3> QED
      BY <3>1, <3>2
  <2>2. \A p \in Refresh : refreshing[p].of # holds[d]
    BY <1>4, <2>1
  <2>3. PICK i \in DOMAIN tokens : tokens[i].issued = holds[d] /\ ~tokens[i].revoked
    BY <1>4, <2>2 DEF SessionInv, HeldIsGood
  <2> QED
    BY <1>1, <1>2, <2>1, <2>3 DEF Keeps
<1> QED
  BY <1>6, <1>7, <1>8, <1>9, <1>10 DEF SessionInv

LEMMA ExchangeInv ==
    ASSUME SessionInv, NEW q \in Refresh, Exchange(q) PROVE SessionInv'
<1> DEFINE r == refreshing[q]
<1>1. /\ r.stage = "REVOKED" /\ r.device \in Device /\ r.of \in given[r.device]
      /\ r.row \in DOMAIN tokens /\ tokens[r.row].issued = r.of /\ tokens[r.row].revoked
      /\ refreshing' = [refreshing EXCEPT ![q] = Idle]
      /\ UNCHANGED <<now, active, overlapped>>
  BY DEF Exchange, SessionInv, RefreshesReal
<1>2. /\ \A p \in Refresh : refreshing'[p] = IF p = q THEN Idle ELSE refreshing[p]
      /\ refreshing' \in [Refresh -> [stage : {"IDLE", "FOUND", "REVOKED"}, of : Nat, row : Nat,
                                      device : Device \cup {0}]]
      /\ Idle.of = 0 /\ Idle.stage = "IDLE" /\ r.of \in Second /\ r.of # 0
  <2>1. /\ refreshing \in [Refresh -> [stage : {"IDLE", "FOUND", "REVOKED"}, of : Nat, row : Nat,
                                        device : Device \cup {0}]]
        /\ Idle \in [stage : {"IDLE", "FOUND", "REVOKED"}, of : Nat, row : Nat,
                      device : Device \cup {0}]
        /\ Idle.of = 0 /\ Idle.stage = "IDLE"
    BY DEF SessionInv, SessionShape, Idle
  <2>2. now \in Nat /\ now <= LastSecond /\ LastSecond \in Nat /\ r.of \in 1..now
    BY <1>1, SessionAssumption DEF SessionInv, SessionShape, Second
  <2>3. r.of \in Second /\ r.of # 0
    BY <2>2 DEF Second
  <2> QED
    BY <1>1, <2>1, <2>3
<1>3. ASSUME NEW d \in Device, d # r.device, holds[d] # 0, holds[d] \notin shared
      PROVE  holds[d] # r.of
  BY <1>1, <1>3 DEF SessionInv, TokensOwned
<1>4. CASE /\ IssueTokens(r.device)
           /\ exchanged' = [exchanged EXCEPT ![r.of] = @ + 1]
  <2>1. Issued(r.device)
    BY <1>1, <1>4, IssueIsIssued
  <2>2. TokensOwned'
    BY <1>1, <2>1, IssueOwned
  <2>3. SessionShape'
    <3>1. exchanged' \in [Second -> Nat]
      BY <1>2, <1>4 DEF SessionInv, SessionShape
    <3>2. \A i \in DOMAIN tokens' : tokens'[i].issued \in 1..now
      BY <2>1 DEF SessionInv, SessionShape, Issued
    <3>3. shared' \subseteq Second /\ interrupted' \subseteq Device
      BY <2>1 DEF SessionInv, SessionShape, Issued
    <3> QED
      BY <1>1, <1>2, <2>1, <3>1, <3>2, <3>3 DEF SessionInv, SessionShape, Issued
  <2>4. RefreshesReal'
    <3> SUFFICES ASSUME NEW p \in Refresh, p # q
                 PROVE  LET u == refreshing[p]
                        IN  /\ u.stage # "IDLE" =>
                                 /\ u.device \in Device /\ u.of \in given'[u.device]
                                 /\ u.row \in DOMAIN tokens' /\ tokens'[u.row].issued = u.of
                            /\ u.stage = "IDLE" => u = Idle
                            /\ u.stage = "REVOKED" => tokens'[u.row].revoked
      BY <1>2 DEF RefreshesReal, Idle
    <3> QED
      BY <2>1 DEF SessionInv, RefreshesReal, Issued
  <2>5. SpentOnce'
    <3> SUFFICES ASSUME NEW s \in Second \ (shared' \cup overlapped')
                 PROVE  /\ \A p, u \in Refresh : refreshing'[p].of = s /\ refreshing'[u].of = s => p = u
                        /\ \A p \in Refresh : refreshing'[p].of = s => exchanged'[s] = 0
                        /\ exchanged'[s] <= 1
                        /\ exchanged'[s] = 1 =>
                             /\ \E i \in DOMAIN tokens' : tokens'[i].issued = s
                             /\ \A i \in DOMAIN tokens' : tokens'[i].issued = s => tokens'[i].revoked
      BY DEF SpentOnce
    <3>1. s \in Second \ (shared \cup overlapped) /\ s # 0 /\ exchanged[s] \in Nat
      BY <1>1, <2>1 DEF Issued, Second, SessionInv, SessionShape
    <3>2. exchanged'[s] = IF s = r.of THEN exchanged[s] + 1 ELSE exchanged[s]
      BY <1>4, <3>1 DEF SessionInv, SessionShape
    <3>3. CASE s = r.of
      <4>1. exchanged[s] = 0 /\ \A p \in Refresh : refreshing'[p].of # s
        BY <1>2, <3>1, <3>3 DEF SessionInv, SpentOnce
      <4>2. s # now
        BY <1>1, <2>1, <3>3 DEF Issued
      <4>3. \A i \in DOMAIN tokens : tokens[i].issued = s => i = r.row
        BY <1>1, <3>1, <3>3 DEF SessionInv, TokensOwned
      <4> QED
        <5>1. \A i \in DOMAIN tokens' : tokens'[i].issued = s => i = r.row
          BY <2>1, <4>2, <4>3 DEF Issued
        <5>2. tokens'[r.row].issued = s /\ tokens'[r.row].revoked /\ r.row \in DOMAIN tokens'
          BY <1>1, <2>1, <3>3 DEF Issued
        <5>3. exchanged'[s] = 1
          BY <3>2, <3>3, <4>1
        <5> QED
          BY <4>1, <5>1, <5>2, <5>3, <1>2
    <3>4. CASE s # r.of
      <4>1. \A p \in Refresh : refreshing'[p].of = s => refreshing[p].of = s
        BY <1>2, <3>1
      <4> QED
        BY <2>1, <3>1, <3>2, <3>4, <4>1 DEF SessionInv, SpentOnce, Issued
    <3> QED
      BY <3>3, <3>4
  <2>6. HeldIsGood'
    <3> SUFFICES ASSUME NEW e \in Device \ interrupted', holds'[e] # 0, holds'[e] \notin shared',
                        \A p \in Refresh : refreshing'[p].of # holds'[e]
                 PROVE  \E i \in DOMAIN tokens' : tokens'[i].issued = holds'[e] /\ ~tokens'[i].revoked
      BY DEF HeldIsGood
    <3>1. CASE e = r.device
      BY <2>1, <3>1 DEF Issued
    <3>2. CASE e # r.device
      <4>1. holds'[e] = holds[e] /\ holds[e] # 0 /\ holds[e] \notin shared /\ e \notin interrupted
        BY <2>1, <3>2 DEF Issued
      <4>2. \A p \in Refresh : refreshing[p].of # holds[e]
        BY <1>2, <1>3, <3>2, <4>1
      <4>3. PICK i \in DOMAIN tokens : tokens[i].issued = holds[e] /\ ~tokens[i].revoked
        BY <4>1, <4>2 DEF SessionInv, HeldIsGood
      <4> QED
        BY <2>1, <4>1, <4>3 DEF Issued
    <3> QED
      BY <3>1, <3>2
  <2> QED
    BY <2>2, <2>3, <2>4, <2>5, <2>6 DEF SessionInv
<1>5. CASE /\ interrupted' = interrupted \cup {r.device}
           /\ UNCHANGED <<tokens, holds, given, shared, exchanged>>
  <2>1. SessionShape'
    BY <1>1, <1>2, <1>5 DEF SessionInv, SessionShape
  <2>2. TokensOwned'
    BY <1>5 DEF SessionInv, TokensOwned
  <2>3. RefreshesReal'
    BY <1>2, <1>5 DEF SessionInv, RefreshesReal
  <2>4. SpentOnce'
    BY <1>1, <1>2, <1>5 DEF SessionInv, SpentOnce, Second
  <2>5. HeldIsGood'
    <3> SUFFICES ASSUME NEW e \in Device \ interrupted', holds[e] # 0, holds[e] \notin shared,
                        \A p \in Refresh : refreshing'[p].of # holds[e]
                 PROVE  \E i \in DOMAIN tokens : tokens[i].issued = holds[e] /\ ~tokens[i].revoked
      BY <1>5 DEF HeldIsGood
    <3>1. \A p \in Refresh : refreshing[p].of # holds[e]
      BY <1>2, <1>3, <1>5
    <3> QED
      BY <1>5, <3>1 DEF SessionInv, HeldIsGood
  <2> QED
    BY <2>1, <2>2, <2>3, <2>4, <2>5 DEF SessionInv
<1> QED
  BY <1>4, <1>5 DEF Exchange

LEMMA LogoutInv ==
    ASSUME SessionInv, NEW d \in Device, Logout(d) PROVE SessionInv'
<1>1. /\ holds[d] # 0
      /\ tokens' = [i \in DOMAIN tokens |->
           IF i \in Rows(holds[d]) THEN [tokens[i] EXCEPT !.revoked = TRUE] ELSE tokens[i]]
      /\ holds' = [holds EXCEPT ![d] = 0]
      /\ UNCHANGED <<now, active, given, refreshing, exchanged, shared, overlapped, interrupted>>
  BY DEF Logout, RevokedByHash
<1>2. Keeps(Rows(holds[d]))
  <2>1. tokens \in Seq(TokenRow)
    BY DEF SessionInv, SessionShape
  <2>2. \A i \in DOMAIN tokens :
          /\ [tokens[i] EXCEPT !.revoked = TRUE] \in TokenRow
          /\ [tokens[i] EXCEPT !.revoked = TRUE].revoked
          /\ [tokens[i] EXCEPT !.revoked = TRUE].issued = tokens[i].issued
          /\ tokens[i] \in TokenRow
    <3> SUFFICES ASSUME NEW i \in DOMAIN tokens
                 PROVE  /\ [tokens[i] EXCEPT !.revoked = TRUE] \in TokenRow
                        /\ [tokens[i] EXCEPT !.revoked = TRUE].revoked
                        /\ [tokens[i] EXCEPT !.revoked = TRUE].issued = tokens[i].issued
                        /\ tokens[i] \in TokenRow
      OBVIOUS
    <3>1. tokens[i] \in TokenRow
      BY <2>1
    <3> QED
      BY <3>1 DEF TokenRow
  <2>3. /\ DOMAIN tokens' = DOMAIN tokens
        /\ \A i \in DOMAIN tokens : tokens'[i] =
             IF i \in Rows(holds[d]) THEN [tokens[i] EXCEPT !.revoked = TRUE] ELSE tokens[i]
    BY <1>1
  <2>4. tokens' \in Seq(TokenRow)
    BY <1>1, <2>1, <2>2
  <2> QED
    BY <2>2, <2>3, <2>4 DEF Keeps
<1>3. holds' \in [Device -> 0..now] /\ \A e \in Device : holds'[e] = IF e = d THEN 0 ELSE holds[e]
  BY <1>1 DEF SessionInv, SessionShape, Second
<1>4. SessionShape'
  BY <1>1, <1>2, <1>3 DEF SessionInv, SessionShape, Keeps
<1>5. TokensOwned'
  BY <1>1, <1>2, <1>3 DEF SessionInv, TokensOwned, Keeps
<1>6. RefreshesReal'
  BY <1>1, <1>2 DEF SessionInv, RefreshesReal, Keeps
<1>7. SpentOnce'
  BY <1>1, <1>2 DEF SessionInv, SpentOnce, Keeps
<1>8. HeldIsGood'
  <2> SUFFICES ASSUME NEW e \in Device \ interrupted, e # d, holds[e] # 0, holds[e] \notin shared,
                      \A q \in Refresh : refreshing[q].of # holds[e]
               PROVE  \E i \in DOMAIN tokens' : tokens'[i].issued = holds[e] /\ ~tokens'[i].revoked
    BY <1>1, <1>3 DEF HeldIsGood
  <2>1. PICK i \in DOMAIN tokens : tokens[i].issued = holds[e] /\ ~tokens[i].revoked
    BY DEF SessionInv, HeldIsGood
  <2>2. holds[e] # holds[d]
    BY <1>1 DEF SessionInv, TokensOwned
  <2>3. i \notin Rows(holds[d])
    BY <2>1, <2>2 DEF Rows
  <2> QED
    BY <1>2, <2>1, <2>3 DEF Keeps
<1> QED
  BY <1>4, <1>5, <1>6, <1>7, <1>8 DEF SessionInv

LEMMA SessionStep == SessionInv /\ [SessionNext]_sessionVars => SessionInv'
<1> SUFFICES ASSUME SessionInv, [SessionNext]_sessionVars PROVE SessionInv'
  OBVIOUS
<1>1. CASE Tick
  <2>1. now \in Nat /\ now' \in Second /\ now < now'
    BY <1>1, SessionAssumption DEF Tick, SessionInv, SessionShape, Second
  <2>2. SessionShape'
    BY <1>1, <2>1 DEF Tick, SessionInv, SessionShape
  <2> QED
    BY <1>1, <2>2 DEF Tick, SessionInv, TokensOwned, RefreshesReal, SpentOnce, HeldIsGood
<1>2. CASE ChangeStatus
  BY <1>2 DEF ChangeStatus, SessionInv, SessionShape, TokensOwned, RefreshesReal, SpentOnce, HeldIsGood
<1>3. CASE UNCHANGED sessionVars
  BY <1>3 DEF sessionVars, SessionInv, SessionShape, TokensOwned, RefreshesReal, SpentOnce, HeldIsGood
<1> QED
  BY <1>1, <1>2, <1>3, LoginInv, FindActiveInv, RevokeInv, ExchangeInv, LogoutInv DEF SessionNext

\* The rows, tokens and requests keep their shapes.
THEOREM SessionTypeCorrect == SessionSpec => []SessionTypeOK
<1>1. SessionInv => SessionTypeOK
  <2> SUFFICES ASSUME SessionInv, NEW q \in Refresh PROVE refreshing[q].row \in 0..Len(tokens)
    BY DEF SessionInv, SessionShape, SessionTypeOK
  <2>1. refreshing[q].row = 0 \/ refreshing[q].row \in DOMAIN tokens
    BY DEF SessionInv, SessionShape, RefreshesReal, Idle
  <2> QED
    BY <2>1 DEF SessionInv, SessionShape
<1> QED
  BY <1>1, SessionInitInv, SessionStep, PTL DEF SessionSpec

\* For any devices and requests: until two requests with one token overlap, or two devices
\* share a second, a token is exchanged once, and a device nothing interrupted can go on
\* with the pair it holds (login, refresh and logout).
THEOREM SessionsAreSound == SessionSpec => []SessionsSound
<1>1. SessionInv => SessionsSound
  <2> SUFFICES ASSUME SessionInv PROVE ExchangedOnce /\ SessionsIndependent
    BY DEF SessionsSound
  <2>1. ExchangedOnce
    BY DEF SessionInv, SpentOnce, ExchangedOnce
  <2>2. SessionsIndependent
    BY DEF SessionInv, HeldIsGood, SessionsIndependent, ActiveRows, Rows
  <2> QED
    BY <2>1, <2>2
<1> QED
  BY <1>1, SessionInitInv, SessionStep, PTL DEF SessionSpec

-----------------------------------------------------------------------------
(* Background jobs.                                                        *)

\* The kinds of what the queues and tables keep.
JobsShape ==
    /\ job \in [Job -> {"NONE", "ASKED", "WAITING", "ACTIVE", "DONE", "DEAD"}]
    /\ step \in [Job -> {"NONE", "START", "CATCH", "EMIT", "END"}]
    /\ tries \in [Job -> Nat] /\ stalls \in [Job -> Nat] /\ lost \in [Job -> Nat]
    /\ status \in [Report -> {"NONE", "PENDING", "COMPLETED", "FAILED"}]
    /\ rows \in [Notice -> Nat] /\ unread \in [Notice -> Nat]

\* How often a job has run says where it is; a run that has not ended has been counted.
RunsCounted(j) ==
    /\ tries[j] <= Attempts /\ stalls[j] <= MaxStalls + 1 /\ tries[j] + stalls[j] <= MaxRows
    /\ job[j] \in {"NONE", "ASKED"} => tries[j] = 0 /\ stalls[j] = 0
    /\ job[j] = "WAITING" => tries[j] < Attempts /\ stalls[j] <= MaxStalls
    /\ job[j] = "ACTIVE" <=> step[j] # "NONE"
    /\ job[j] = "ACTIVE" => tries[j] > 0 /\ stalls[j] <= MaxStalls

\* A report is pending from its request on and is worked on once.
ReportPlaced(r) ==
    /\ status[r] = "NONE" <=> job[r] = "NONE"
    /\ job[r] = "WAITING" => tries[r] = 0
    /\ job[r] = "ACTIVE" => tries[r] = 1

\* The row of a run that is past its INSERT, and of one that has ended.
LeftRow(n) == IF step[n] \in {"EMIT", "END"} \/ job[n] = "DONE" THEN 1 ELSE 0

\* Every row is of a run that came past the INSERT: of the one that delivered it, of
\* one that died, or of one that was not answered.
RowsCounted(n) ==
    /\ unread[n] <= rows[n]
    /\ step[n] # "CATCH"
    /\ rows[n] <= tries[n] + stalls[n]
    /\ step[n] = "START" => rows[n] < tries[n] + stalls[n]
    /\ rows[n] <= stalls[n] + lost[n] + LeftRow(n)

JobsInv ==
    /\ JobsShape
    /\ \A j \in Job : RunsCounted(j)
    /\ \A r \in Report : ReportPlaced(r)
    /\ \A n \in Notice : RowsCounted(n)

LEMMA JobsInitInv == JobsInit => JobsInv
  BY JobsAssumption DEF JobsInit, JobsInv, JobsShape, RunsCounted, ReportPlaced, RowsCounted, LeftRow,
                        Job, MaxRows

\* What concerns job j alone.
JobSound(j) ==
    /\ RunsCounted(j)
    /\ j \in Report => ReportPlaced(j)
    /\ j \in Notice => RowsCounted(j)

\* A step for one job leaves the others as they are.
LEMMA OthersKept ==
    ASSUME JobsInv, JobsShape', NEW j \in Job, JobSound(j)',
           \A k \in Job \ {j} : /\ job'[k] = job[k] /\ step'[k] = step[k] /\ tries'[k] = tries[k]
                                /\ stalls'[k] = stalls[k] /\ lost'[k] = lost[k]
                                /\ k \in Report => status'[k] = status[k]
                                /\ k \in Notice => rows'[k] = rows[k] /\ unread'[k] = unread[k]
    PROVE  JobsInv'
  BY DEF JobsInv, JobSound, RunsCounted, ReportPlaced, RowsCounted, LeftRow, Job

LEMMA JobsStep == JobsInv /\ [JobsNext]_jobVars => JobsInv'
<1> SUFFICES ASSUME JobsInv, [JobsNext]_jobVars PROVE JobsInv'
  OBVIOUS
<1> USE JobsAssumption DEF JobsInv, JobsShape, Job
<1>1. \A j \in Job : /\ tries[j] \in Nat /\ stalls[j] \in Nat /\ lost[j] \in Nat
                     /\ j \in Notice => rows[j] \in Nat /\ unread[j] \in Nat
  OBVIOUS
<1>2. ASSUME NEW j \in Job, Take(j) PROVE JobsInv'
  <2>1. JobsShape'
    BY <1>2 DEF Take, Goes
  <2>2. JobSound(j)'
    BY <1>1, <1>2 DEF Take, Goes, JobSound, RunsCounted, ReportPlaced, RowsCounted, LeftRow, MaxRows
  <2> QED
    BY <1>2, <2>1, <2>2, OthersKept DEF Take, Goes
<1>3. ASSUME NEW j \in Job, Finish(j) PROVE JobsInv'
  <2>1. JobsShape'
    BY <1>3 DEF Finish, Goes
  <2>2. JobSound(j)'
    BY <1>1, <1>3 DEF Finish, Goes, Running, JobSound, RunsCounted, ReportPlaced, RowsCounted, LeftRow
  <2> QED
    BY <1>3, <2>1, <2>2, OthersKept DEF Finish, Goes
<1>4. ASSUME NEW j \in Job, Stall(j) PROVE JobsInv'
  <2>1. tries[j] > 0 /\ tries[j] \in Nat
    BY <1>1, <1>4 DEF Stall, RunsCounted
  <2>2. JobsShape'
    BY <1>4, <2>1 DEF Stall, Goes
  <2>3. JobSound(j)'
    BY <1>1, <1>4, <2>1 DEF Stall, Goes, JobSound, RunsCounted, ReportPlaced, RowsCounted, LeftRow,
                            MaxRows
  <2> QED
    BY <1>4, <2>2, <2>3, OthersKept DEF Stall, Goes
<1>5. ASSUME NEW r \in Report, CreateReport(r) \/ AddReport(r) PROVE JobsInv'
  <2>1. JobsShape'
    BY <1>5 DEF CreateReport, AddReport, Goes
  <2>2. JobSound(r)'
    BY <1>1, <1>5 DEF CreateReport, AddReport, Goes, JobSound, RunsCounted, ReportPlaced, MaxRows
  <2> QED
    BY <1>5, <2>1, <2>2, OthersKept DEF CreateReport, AddReport, Goes
<1>6. ASSUME NEW r \in Report, MarkCompleted(r) \/ AnalyticsThrows(r) \/ MarkFailed(r)
      PROVE  JobsInv'
  <2>1. JobsShape'
    BY <1>6 DEF MarkCompleted, AnalyticsThrows, MarkFailed, Goes
  <2>2. JobSound(r)'
    BY <1>1, <1>6 DEF MarkCompleted, AnalyticsThrows, MarkFailed, Goes, Running, JobSound, RunsCounted,
                      ReportPlaced
  <2> QED
    BY <1>6, <2>1, <2>2, OthersKept DEF MarkCompleted, AnalyticsThrows, MarkFailed, Goes
<1>7. ASSUME NEW r \in Report, MarkFailedThrows(r) PROVE JobsInv'
  <2>1. /\ Running(r, "CATCH") /\ Goes(r, "DEAD", "NONE")
        /\ UNCHANGED <<tries, stalls, status, rows, unread, lost>>
    BY <1>7 DEF MarkFailedThrows, Thrown
  <2>2. JobsShape'
    BY <2>1 DEF Goes
  <2>3. JobSound(r)'
    BY <1>1, <2>1 DEF Goes, Running, JobSound, RunsCounted, ReportPlaced
  <2> QED
    BY <2>1, <2>2, <2>3, OthersKept DEF Goes
<1>8. ASSUME NEW n \in Notice, Notify(n) \/ EmitToUser(n) PROVE JobsInv'
  <2>1. JobsShape'
    BY <1>8 DEF Notify, EmitToUser, Goes
  <2>2. JobSound(n)'
    BY <1>1, <1>8 DEF Notify, EmitToUser, Goes, Running, JobSound, RunsCounted, RowsCounted, LeftRow
  <2> QED
    BY <1>8, <2>1, <2>2, OthersKept DEF Notify, EmitToUser, Goes
<1>9. ASSUME NEW n \in Notice, CreateNotification(n) \/ CreateThrows(n) PROVE JobsInv'
  <2>1. /\ Running(n, "START")
        /\ \/ Goes(n, "ACTIVE", "EMIT")
           \/ tries[n] < Attempts /\ Goes(n, "WAITING", "NONE")
           \/ ~(tries[n] < Attempts) /\ Goes(n, "DEAD", "NONE")
        /\ UNCHANGED <<tries, stalls, status>>
    BY <1>9 DEF CreateNotification, CreateThrows, Thrown
  <2>2. JobsShape'
    BY <1>9, <2>1 DEF CreateNotification, CreateThrows, Goes
  <2>3. RunsCounted(n)' /\ step'[n] # "START" /\ step'[n] # "CATCH"
    BY <1>1, <2>1 DEF Goes, Running, RunsCounted
  <2>4. RowsCounted(n)'
    BY <1>1, <1>9, <2>1, <2>3 DEF CreateNotification, CreateThrows, Thrown, Goes, Running, RowsCounted,
                                  RunsCounted, LeftRow
  <2>5. JobSound(n)'
    BY <2>3, <2>4 DEF JobSound
  <2> QED
    BY <1>9, <2>1, <2>2, <2>5, OthersKept DEF Goes, CreateNotification, CreateThrows
<1>10. ASSUME NEW n \in Notice, MarkNoticeRead(n) PROVE JobsInv'
  <2>1. JobsShape' /\ rows' = rows /\ \A m \in Notice : unread'[m] <= unread[m]
    BY <1>1, <1>10 DEF MarkNoticeRead
  <2> QED
    BY <1>1, <1>10, <2>1 DEF MarkNoticeRead, RunsCounted, ReportPlaced, RowsCounted, LeftRow
<1>11. CASE MarkAllNoticesRead
  BY <1>1, <1>11 DEF MarkAllNoticesRead, RunsCounted, ReportPlaced, RowsCounted, LeftRow
<1>12. CASE UNCHANGED jobVars
  BY <1>12 DEF jobVars, RunsCounted, ReportPlaced, RowsCounted, LeftRow
<1> QED
  BY <1>2, <1>3, <1>4, <1>5, <1>6, <1>7, <1>8, <1>9, <1>10, <1>11, <1>12 DEF JobsNext, Work

\* Everything is of its kind; what is unread was written.
THEOREM JobsTypeCorrect == JobsSpec => []JobsTypeOK
<1>1. JobsInv => JobsTypeOK
  <2> SUFFICES ASSUME JobsInv PROVE JobsTypeOK
    OBVIOUS
  <2>1. /\ \A j \in Job : tries[j] \in 0..Attempts /\ stalls[j] \in 0..(MaxStalls + 1)
        /\ \A n \in Notice : rows[n] \in 0..MaxRows /\ unread[n] \in 0..rows[n]
    BY JobsAssumption DEF JobsInv, JobsShape, RunsCounted, RowsCounted, Job, MaxRows
  <2> QED
    BY <2>1 DEF JobsInv, JobsShape, JobsTypeOK
<1> QED
  BY <1>1, JobsInitInv, JobsStep, PTL DEF JobsSpec

\* A notification is written once, and again only for a run that died or an INSERT
\* whose answer was lost.
THEOREM JobsDeliverOnce == JobsSpec => []DeliveredOnce
<1>1. JobsInv => DeliveredOnce
  BY JobsAssumption DEF JobsInv, JobsShape, RowsCounted, LeftRow, DeliveredOnce, Job
<1> QED
  BY <1>1, JobsInitInv, JobsStep, PTL DEF JobsSpec

-----------------------------------------------------------------------------
(* Catalogue.                                                              *)

\* A listing that is not there holds no key.
ListingInv == ListingTypeOK /\ \A l \in Listing : verdict[l] = "ABSENT" => keyOf[l] = 0

LEMMA CatalogueStep == ListingInv /\ [CatalogueNext]_catalogueVars => ListingInv'
<1> SUFFICES ASSUME ListingInv, [CatalogueNext]_catalogueVars PROVE ListingInv'
  OBVIOUS
<1> USE ListingAssumption DEF ListingInv, ListingTypeOK, Created, Version
<1>1. ASSUME NEW l \in Listing, NEW k \in Key, Draft(l, k) \/ DraftKey(l, k) PROVE ListingInv'
  BY <1>1 DEF Draft, DraftKey
<1>2. ASSUME NEW l \in Listing, NEW s \in {"PENDING", "APPROVED"}, Insert(l, s) PROVE ListingInv'
  BY <1>2 DEF Insert, Free
<1>3. ASSUME NEW l \in Listing, NEW s \in {"PENDING", "APPROVED"}, InsertKeyless(l, s)
      PROVE  ListingInv'
  BY <1>3 DEF InsertKeyless
<1>4. ASSUME NEW l \in Listing, Edit(l) PROVE ListingInv'
  BY <1>4 DEF Edit
<1>5. ASSUME NEW l \in Listing, WriteKey(l) PROVE ListingInv'
  BY <1>5 DEF WriteKey, Free
<1>6. ASSUME NEW l \in Created, NEW s \in {"APPROVED", "REJECTED"}, Judge(l, s) PROVE ListingInv'
  BY <1>6 DEF Judge
<1>7. ASSUME NEW l \in Created, Withdraw(l) PROVE ListingInv'
  BY <1>7 DEF Withdraw
<1>8. ASSUME NEW P \in {Approved, Kept}, FindPopular(P) PROVE ListingInv'
  BY <1>8 DEF FindPopular, Approved, Kept
<1>9. CASE CachePopular \/ Lapse
  BY <1>9 DEF CachePopular, Lapse
<1>10. CASE UNCHANGED catalogueVars
  BY <1>10 DEF catalogueVars, listingVars
<1>11. ASSUME NEW l \in Listing, Create(l) PROVE ListingInv'
  <2>1. \/ \E k \in Key : Draft(l, k)
        \/ \E s \in {"PENDING", "APPROVED"} : Insert(l, s) \/ InsertKeyless(l, s)
    BY <1>11 DEF Create, CreateProperty, CreateTour, CreateExperience, CreateDestination,
       CreateTravelGuide, CreateBlog, CreateAircraft, CreateVehicle, CreateAirport, InsertRow,
       NewStatus, CreateRoute, CreateRoom, CreatePost, CreateComment
  <2> QED
    BY <1>1, <1>2, <1>3, <2>1
<1>12. ASSUME NEW l \in Listing, Update(l) PROVE ListingInv'
  <2>1. /\ l \in Created
        /\ \/ Edit(l) \/ WriteKey(l) \/ \E k \in Key : DraftKey(l, k)
           \/ \E s \in {"APPROVED", "REJECTED"} : Judge(l, s)
    BY <1>12 DEF Update, UpdateProperty, UpdateTour, UpdateExperience, UpdateDestination,
       UpdateTravelGuide, UpdateBlog, UpdateRoute, UpdatePost, UpdateComment, UpdateRoom,
       UpdateAircraft, UpdateVehicle, UpdateAirport, RecodeAircraft, RecodeVehicle, RecodeAirport
  <2> QED
    BY <1>1, <1>4, <1>5, <1>6, <2>1
<1>13. ASSUME NEW l \in Listing, Moderation(l) \/ Remove(l) PROVE ListingInv'
  <2>1. l \in Created /\ (Withdraw(l) \/ \E s \in {"APPROVED", "REJECTED"} : Judge(l, s))
    BY <1>13 DEF Moderation, ReviewProperty, ReviewTour, ReviewExperience, ReviewAircraft,
       ReviewVehicle, ReviewRoute, Remove, RemoveProperty, RemoveTour, RemoveExperience,
       RemoveDestination, RemoveTravelGuide, RemoveBlog, RemoveAircraft, RemoveVehicle,
       RemoveAirport, RemoveRoute, RemoveRoom, RemovePost, RemoveComment
  <2> QED
    BY <1>6, <1>7, <2>1
<1>14. CASE Popular
  BY <1>8, <1>9, <1>14 DEF Popular, PopularProperties, PopularTours, PopularExperiences,
     PopularDestinations
<1> QED
  BY <1>10, <1>11, <1>12, <1>13, <1>14 DEF CatalogueNext

\* No two listings that are there share a key, whatever creations, edits and deletions
\* overlap (the unique columns of the catalogue, with the look before the write).
THEOREM KeysAreUnique == CatalogueSpec => []ListingTypeOK
<1>1. CatalogueInit => ListingInv
  BY ListingAssumption DEF CatalogueInit, ListingInit, ListingInv, ListingTypeOK, Created, Version
<1>2. ListingInv => ListingTypeOK
  BY DEF ListingInv
<1> QED
  BY <1>1, <1>2, CatalogueStep, PTL DEF CatalogueSpec

-----------------------------------------------------------------------------
(* Lists.                                                                  *)

\* A row of the table.
EntryRow == [rank : 1..LastRank, fits : BOOLEAN, live : BOOLEAN, status : Status]

\* The rows before r on the list, and whether r has a place of its own there.
Ahead(r) == {o \in Shown : Before(o, r)}
Untied(r) == \A o \in Shown \ {r} : entry[o].rank # entry[r].rank

EntryShape ==
    /\ DOMAIN entry \subseteq Entry /\ IsFiniteSet(DOMAIN entry)
    /\ \A e \in DOMAIN entry : entry[e] \in EntryRow

\* The kinds of what a walk keeps.
WalkShape ==
    /\ PagesTypeOK /\ EntryShape
    /\ page \in Nat /\ more \in BOOLEAN
    /\ \A e \in Entry \ DOMAIN entry : seen[e] = 0
    /\ page = 0 => seen = [e \in Entry |-> 0]
    /\ pushed \in [Entry -> Nat]

\* A row that was not seen, and has not slipped through, is still to come; one that was
\* seen is behind the reader, unless it was moved back since.
WalkKeepsUp ==
    \A r \in DOMAIN entry \ tied :
      /\ r \in Shown \ slipped /\ seen[r] = 0 => Cardinality(Ahead(r)) >= page * limit
      /\ seen[r] # 0 => \/ seen[r] <= pushed[r]
                        \/ seen[r] <= 1 + pushed[r] /\ Cardinality(Ahead(r)) < page * limit

\* Comments come with the oldest first, and nothing moves those back.
OldestNotPushed == list.order = "OLDEST" => \A r \in Entry : pushed[r] = 0

\* The last page is the one no row is behind.
EndsBehindAll == ~more => Cardinality(Shown) <= page * limit

WalkInv == WalkShape /\ WalkKeepsUp /\ OldestNotPushed /\ EndsBehindAll

-----------------------------------------------------------------------------
\* The rows of a list can be counted.
LEMMA ShownFinite ==
    ASSUME EntryShape, NEW r
    PROVE  /\ IsFiniteSet(Shown) /\ Cardinality(Shown) \in Nat
           /\ IsFiniteSet(Ahead(r)) /\ Cardinality(Ahead(r)) \in Nat
<1>1. Shown \in SUBSET DOMAIN entry /\ Ahead(r) \in SUBSET Shown
  BY DEF Shown, ShownIn, Ahead
<1>2. IsFiniteSet(Shown)
  BY <1>1, FS_Subset DEF EntryShape
<1>3. IsFiniteSet(Ahead(r))
  BY <1>1, <1>2, FS_Subset
<1> QED
  BY <1>2, <1>3, FS_CardinalityType

\* Ranks order the rows.
LEMMA BeforeIsOrder ==
    ASSUME EntryShape, NEW a \in DOMAIN entry, NEW b \in DOMAIN entry
    PROVE  /\ ~Before(a, a) /\ ~(Before(a, b) /\ Before(b, a))
           /\ Before(a, b) \/ Before(b, a) \/ entry[a].rank = entry[b].rank
<1>1. entry[a].rank \in Int /\ entry[b].rank \in Int
  BY PagesAssumption DEF EntryShape, EntryRow
<1> QED
  BY <1>1 DEF Before, Precedes

\* A row of the list is not among those before it.
LEMMA AheadIsFewer ==
    ASSUME EntryShape, NEW r, NEW S \in SUBSET Shown, r \in S, Ahead(r) \subseteq S
    PROVE  Cardinality(Ahead(r)) < Cardinality(S) /\ Cardinality(S) \in Nat
<1>1. r \notin Ahead(r)
  BY BeforeIsOrder DEF Ahead, Shown, ShownIn
<1>2. IsFiniteSet(Shown) /\ Cardinality(Ahead(r)) \in Nat
  BY ShownFinite
<1>3. IsFiniteSet(S)
  BY <1>2, FS_Subset
<1>4. Ahead(r) \in SUBSET (S \ {r})
  BY <1>1
<1>5. IsFiniteSet(S \ {r}) /\ Cardinality(S \ {r}) = Cardinality(S) - 1
  BY <1>3, FS_RemoveElement
<1>6. Cardinality(Ahead(r)) <= Cardinality(S \ {r})
  BY <1>4, <1>5, FS_Subset
<1>7. Cardinality(S) \in Nat
  BY <1>3, FS_CardinalityType
<1> QED
  BY <1>2, <1>5, <1>6, <1>7

\* A page begins where the one before it ends.
LEMMA SkipIsNat ==
    ASSUME NEW p \in Nat \ {0}, limit \in 1..MaxLimit
    PROVE  /\ Skip(p) \in Nat /\ limit \in Nat \ {0}
           /\ Skip(p) = (p - 1) * limit /\ p * limit = Skip(p) + limit
<1>1. limit \in Nat \ {0}
  BY PagesAssumption
<1>2. (p - 1) * limit \in Nat /\ p * limit = (p - 1) * limit + limit
  BY <1>1
<1> QED
  BY <1>1, <1>2 DEF Skip

\* A page, and the rows skipped for it.
SkippedFor(skipped, on, p) ==
    /\ skipped \cup on \in SUBSET Shown /\ skipped \cap on = {}
    /\ InOrder(skipped, Shown \ skipped)
    /\ InOrder(on, Shown \ (skipped \cup on))
    /\ IsFiniteSet(skipped \cup on)
    /\ Cardinality(skipped) = Skip(p) /\ Cardinality(on) \in Nat
    /\ Cardinality(skipped \cup on) = Skip(p) + Cardinality(on)
    /\ Cardinality(on) <= limit
    /\ Cardinality(on) = limit \/ skipped \cup on = Shown

\* What a page holds, and what it skips.
LEMMA PageParts ==
    ASSUME EntryShape, limit \in 1..MaxLimit, NEW p \in Nat \ {0}, NEW on \in PageOf(p)
    PROVE  \/ on = {} /\ Cardinality(Shown) <= Skip(p)
           \/ \E skipped : SkippedFor(skipped, on, p)
<1> DEFINE left == Cardinality(Shown) - Skip(p)
<1>1. Cardinality(Shown) \in Nat /\ IsFiniteSet(Shown)
  BY ShownFinite
<1>2. Skip(p) \in Nat /\ limit \in Nat \ {0}
  BY SkipIsNat
<1>3. CASE left <= 0
  <2>1. on = {}
    BY <1>3 DEF PageOf
  <2> QED
    BY <1>1, <1>2, <1>3, <2>1
<1>4. CASE ~(left <= 0)
  <2>1. /\ on \in SUBSET Shown
        /\ Cardinality(on) = IF left < limit THEN left ELSE limit
        /\ \E skipped \in SUBSET (Shown \ on) :
              /\ Cardinality(skipped) = Skip(p)
              /\ InOrder(skipped, Shown \ skipped)
              /\ InOrder(on, Shown \ (skipped \cup on))
    BY <1>4 DEF PageOf
  <2>2. PICK skipped \in SUBSET (Shown \ on) :
              /\ Cardinality(skipped) = Skip(p)
              /\ InOrder(skipped, Shown \ skipped)
              /\ InOrder(on, Shown \ (skipped \cup on))
    BY <2>1
  <2>3. IsFiniteSet(on) /\ IsFiniteSet(skipped) /\ skipped \in SUBSET Shown
    BY <1>1, <2>1, FS_Subset
  <2>4. skipped \cap on = {} /\ Cardinality(skipped \cap on) = 0
    BY FS_EmptySet
  <2>5. Cardinality(on) \in Nat
    BY <2>3, FS_CardinalityType
  <2>6. IsFiniteSet(skipped \cup on)
        /\ Cardinality(skipped \cup on) = Skip(p) + Cardinality(on)
    <3>1. Cardinality(skipped \cup on)
            = Cardinality(skipped) + Cardinality(on) - Cardinality(skipped \cap on)
          /\ IsFiniteSet(skipped \cup on)
      BY <2>3, FS_Union
    <3> QED
      BY <1>2, <2>2, <2>4, <2>5, <3>1
  <2>7. Cardinality(on) <= limit /\ (Cardinality(on) = limit \/ Cardinality(on) = left)
    BY <1>1, <1>2, <2>1
  <2>8. ASSUME Cardinality(on) = left
        PROVE  skipped \cup on = Shown
    <3>1. skipped \cup on \in SUBSET Shown
      BY <2>1, <2>3
    <3>2. Cardinality(skipped \cup on) = Cardinality(Shown)
      BY <1>1, <1>2, <2>6, <2>8
    <3> QED
      BY <1>1, <3>1, <3>2, FS_Subset
  <2>9. Cardinality(on) = limit \/ skipped \cup on = Shown
    BY <2>7, <2>8
  <2>10. skipped \cup on \in SUBSET Shown
    BY <2>1, <2>3
  <2> HIDE DEF left
  <2> QED
    BY <2>2, <2>4, <2>5, <2>6, <2>7, <2>9, <2>10 DEF SkippedFor
<1> QED
  BY <1>3, <1>4

\* Who is on a page has fewer rows ahead than are read with it.
LEMMA OnPageIsWithin ==
    ASSUME EntryShape, limit \in 1..MaxLimit, NEW p \in Nat \ {0}, NEW on \in PageOf(p),
           NEW r \in on
    PROVE  /\ Cardinality(Ahead(r)) < p * limit
           /\ Untied(r) => Cardinality(Ahead(r)) >= Skip(p)
<1>0. PICK skipped : SkippedFor(skipped, on, p)
  BY PageParts
<1>1. /\ InOrder(skipped, Shown \ skipped) /\ InOrder(on, Shown \ (skipped \cup on))
      /\ Cardinality(skipped) = Skip(p) /\ Cardinality(on) \in Nat
      /\ Cardinality(skipped \cup on) = Skip(p) + Cardinality(on) /\ Cardinality(on) <= limit
  BY <1>0 DEF SkippedFor
<1>2. on \subseteq Shown /\ skipped \in SUBSET (Shown \ on)
  BY <1>0 DEF SkippedFor
<1>3. Skip(p) \in Nat /\ limit \in Nat /\ p * limit = Skip(p) + limit
  BY SkipIsNat
<1>4. Ahead(r) \subseteq skipped \cup on /\ skipped \cup on \in SUBSET Shown
  BY <1>1, <1>2 DEF Ahead, InOrder
<1>5. Cardinality(Ahead(r)) < Cardinality(skipped \cup on)
  BY <1>4, AheadIsFewer
<1>6. Cardinality(Ahead(r)) \in Nat /\ IsFiniteSet(Ahead(r))
  BY ShownFinite
<1>7. Cardinality(Ahead(r)) < p * limit
  BY <1>1, <1>3, <1>5, <1>6
<1>8. ASSUME Untied(r)
      PROVE  Cardinality(Ahead(r)) >= Skip(p)
  <2>1. ASSUME NEW s \in skipped PROVE s \in Ahead(r)
    <3>1. ~Before(r, s) /\ s # r
      BY <1>1, <1>2 DEF InOrder
    <3>2. s \in DOMAIN entry /\ r \in DOMAIN entry /\ s \in Shown
      BY <1>2 DEF Shown, ShownIn
    <3>3. entry[s].rank # entry[r].rank
      BY <1>8, <3>1, <3>2 DEF Untied
    <3> QED
      BY <3>1, <3>2, <3>3, BeforeIsOrder DEF Ahead
  <2>2. skipped \in SUBSET Ahead(r)
    BY <2>1
  <2>3. Cardinality(skipped) <= Cardinality(Ahead(r))
    BY <1>6, <2>2, FS_Subset
  <2> QED
    BY <1>1, <1>3, <1>6, <2>3
<1> QED
  BY <1>7, <1>8

\* Who is not on a page, and not among those skipped for it, is behind it.
LEMMA OffPageIsBehind ==
    ASSUME EntryShape, limit \in 1..MaxLimit, NEW p \in Nat \ {0}, NEW on \in PageOf(p),
           NEW r \in Shown, r \notin on, Untied(r), Cardinality(Ahead(r)) >= Skip(p)
    PROVE  Cardinality(Ahead(r)) >= p * limit
<1>1. Skip(p) \in Nat /\ limit \in Nat /\ p * limit = Skip(p) + limit
  BY SkipIsNat
<1>2. Cardinality(Ahead(r)) \in Nat /\ IsFiniteSet(Ahead(r)) /\ Cardinality(Shown) \in Nat
  BY ShownFinite
<1>3. Cardinality(Ahead(r)) < Cardinality(Shown)
  BY AheadIsFewer DEF Ahead
<1>4. CASE on = {} /\ Cardinality(Shown) <= Skip(p)
  BY <1>1, <1>2, <1>3, <1>4
<1>5. CASE ~(on = {} /\ Cardinality(Shown) <= Skip(p))
  <2>0. PICK skipped : SkippedFor(skipped, on, p)
    BY <1>5, PageParts
  <2>1. /\ InOrder(skipped, Shown \ skipped) /\ InOrder(on, Shown \ (skipped \cup on))
        /\ IsFiniteSet(skipped \cup on) /\ Cardinality(skipped) = Skip(p)
        /\ Cardinality(skipped \cup on) = Skip(p) + Cardinality(on)
        /\ Cardinality(on) = limit \/ skipped \cup on = Shown
    BY <2>0 DEF SkippedFor
  <2>2. on \subseteq Shown /\ skipped \in SUBSET (Shown \ on)
    BY <2>0 DEF SkippedFor
  <2>3. r \notin skipped
    <3> SUFFICES ASSUME r \in skipped PROVE FALSE
      OBVIOUS
    <3>1. Ahead(r) \subseteq skipped
      BY <2>1 DEF Ahead, InOrder
    <3>2. skipped \in SUBSET Shown
      BY <2>2
    <3>3. Cardinality(Ahead(r)) < Cardinality(skipped)
      BY <3>1, <3>2, AheadIsFewer
    <3> QED
      BY <1>1, <1>2, <2>1, <3>3
  <2>4. ASSUME NEW s \in skipped \cup on PROVE s \in Ahead(r)
    <3>1. ~Before(r, s) /\ s # r
      BY <2>1, <2>2, <2>3 DEF InOrder
    <3>2. s \in DOMAIN entry /\ r \in DOMAIN entry /\ s \in Shown
      BY <2>1, <2>2 DEF Shown, ShownIn
    <3>3. entry[s].rank # entry[r].rank
      BY <3>1, <3>2 DEF Untied
    <3> QED
      BY <3>1, <3>2, <3>3, BeforeIsOrder DEF Ahead
  <2>5. skipped \cup on \in SUBSET Ahead(r)
    BY <2>4
  <2>6. Cardinality(skipped \cup on) <= Cardinality(Ahead(r))
    BY <1>2, <2>5, FS_Subset
  <2>7. Cardinality(on) = limit
    BY <2>1, <2>3
  <2> QED
    BY <1>1, <1>2, <2>1, <2>6, <2>7
<1> QED
  BY <1>4, <1>5

\* The last page leaves nothing behind it.
LEMMA LastPage ==
    ASSUME limit \in Nat \ {0}, NEW n \in Nat, NEW p \in Nat \ {0}, ~(p < TotalPages(n))
    PROVE  n <= p * limit
<1> DEFINE q == (n + limit - 1) \div limit
<1>1. CASE n = 0
  BY <1>1
<1>2. CASE n # 0
  <2>1. q \in Int /\ q <= p
    BY <1>2 DEF TotalPages
  <2>2. n <= q * limit
    BY <1>2
  <2>3. q * limit <= p * limit
    <3> HIDE DEF q
    <3> QED
      BY <2>1
  <2>4. q * limit \in Int
    BY <2>1
  <2>5. p * limit \in Int
    OBVIOUS
  <2> HIDE DEF q
  <2> QED
    BY <2>2, <2>3, <2>4, <2>5
<1> QED
  BY <1>1, <1>2

\* As long as the rows are the same, so is the list.
LEMMA SameList ==
    ASSUME UNCHANGED <<list, asked, entry>>
    PROVE  /\ Shown' = Shown /\ EntryShape' = EntryShape
           /\ \A r : Ahead(r)' = Ahead(r)
<1>1. Shown' = Shown
  BY DEF Shown, ShownIn, Shows
<1>2. EntryShape' = EntryShape
  BY DEF EntryShape
<1>3. ASSUME NEW r PROVE Ahead(r)' = Ahead(r)
  BY <1>1 DEF Ahead, Before, Precedes
<1> QED
  BY <1>1, <1>2, <1>3

\* A page is read.
LEMMA ReadKeepsWalk ==
    ASSUME WalkInv, ReadPage
    PROVE  WalkInv'
<1> USE DEF WalkInv
<1>1. /\ UNCHANGED <<list, asked, limit, entry, slipped, pushed>>
      /\ page' = page + 1 /\ page' \in Nat \ {0} /\ page \in Nat
      /\ limit \in 1..MaxLimit /\ limit \in Nat \ {0} /\ tied' = tied \cup Tied
  BY PagesAssumption DEF ReadPage, WalkShape, PagesTypeOK
<1>2. /\ Shown' = Shown /\ EntryShape' = EntryShape
      /\ \A r : Ahead(r)' = Ahead(r)
  BY <1>1, SameList
<1>3. EntryShape /\ seen \in [Entry -> Nat] /\ pushed \in [Entry -> Nat]
  BY DEF WalkShape, PagesTypeOK
<1>4. PICK on \in PageOf(page') :
        seen' = [e \in Entry |-> IF e \in on THEN seen[e] + 1 ELSE seen[e]]
  BY DEF ReadPage
<1>5. on \in SUBSET Shown
  <2>1. on = {} \/ \E skipped : SkippedFor(skipped, on, page')
    BY <1>1, <1>3, PageParts
  <2> QED
    BY <2>1 DEF SkippedFor
<1>6. Skip(page') = page * limit /\ page * limit \in Nat /\ page' * limit \in Nat
      /\ page' * limit = page * limit + limit
  BY <1>1, SkipIsNat
<1>7. WalkShape'
  <2>1. seen' \in [Entry -> Nat]
    BY <1>3, <1>4
  <2>2. PagesTypeOK'
    BY <1>1, <2>1 DEF WalkShape, PagesTypeOK
  <2>3. \A e \in Entry \ DOMAIN entry : seen'[e] = 0
    BY <1>3, <1>4, <1>5 DEF WalkShape, Shown, ShownIn
  <2>4. more' \in BOOLEAN
    BY DEF ReadPage
  <2> QED
    BY <1>1, <1>2, <1>3, <2>2, <2>3, <2>4 DEF WalkShape
<1>8. WalkKeepsUp'
  <2> SUFFICES ASSUME NEW r \in DOMAIN entry, r \notin tied, r \notin Tied
               PROVE  /\ r \in Shown \ slipped /\ seen'[r] = 0 =>
                           Cardinality(Ahead(r)) >= page' * limit
                      /\ seen'[r] # 0 =>
                           \/ seen'[r] <= pushed[r]
                           \/ seen'[r] <= 1 + pushed[r] /\ Cardinality(Ahead(r)) < page' * limit
    BY <1>1, <1>2 DEF WalkKeepsUp
  <2>1. /\ r \in Entry /\ seen[r] \in Nat /\ pushed[r] \in Nat
        /\ seen'[r] = IF r \in on THEN seen[r] + 1 ELSE seen[r]
    BY <1>3, <1>4 DEF EntryShape
  <2>2. r \in Shown => Untied(r)
    BY DEF Tied, Untied
  <2>3. ASSUME r \in Shown \ slipped, seen'[r] = 0
        PROVE  Cardinality(Ahead(r)) >= page' * limit
    <3>1. r \notin on /\ seen[r] = 0
      BY <2>1, <2>3
    <3>2. Cardinality(Ahead(r)) >= page * limit
      BY <2>3, <3>1 DEF WalkKeepsUp
    <3>3. Cardinality(Ahead(r)) >= Skip(page')
      BY <1>6, <3>2
    <3> QED
      BY <1>1, <1>3, <2>2, <2>3, <3>1, <3>3, OffPageIsBehind
  <2>4. ASSUME seen'[r] # 0
        PROVE  \/ seen'[r] <= pushed[r]
               \/ seen'[r] <= 1 + pushed[r] /\ Cardinality(Ahead(r)) < page' * limit
    <3>1. Cardinality(Ahead(r)) \in Nat
      BY <1>3, ShownFinite
    <3>2. seen[r] # 0 => \/ seen[r] <= pushed[r]
                         \/ seen[r] <= 1 + pushed[r] /\ Cardinality(Ahead(r)) < page * limit
      BY DEF WalkKeepsUp
    <3>3. CASE r \in on
      <4>1. /\ Cardinality(Ahead(r)) < page' * limit
            /\ Cardinality(Ahead(r)) >= Skip(page')
        BY <1>1, <1>3, <1>5, <2>2, <3>3, OnPageIsWithin
      <4>2. seen[r] <= pushed[r]
        BY <1>6, <2>1, <3>1, <3>2, <4>1
      <4> QED
        BY <2>1, <3>3, <4>1, <4>2
    <3>4. CASE r \notin on
      BY <1>1, <1>6, <2>1, <2>4, <3>1, <3>2, <3>4
    <3> QED
      BY <3>3, <3>4
  <2> QED
    BY <2>3, <2>4
<1>9. EndsBehindAll'
  <2> SUFFICES ASSUME ~more' PROVE Cardinality(Shown) <= page' * limit
    BY <1>1, <1>2 DEF EndsBehindAll
  <2>1. Cardinality(Shown) \in Nat
    BY <1>3, ShownFinite
  <2>2. ~(page' < TotalPages(Cardinality(Shown)))
    BY DEF ReadPage
  <2> QED
    BY <1>1, <2>1, <2>2, LastPage
<1>10. OldestNotPushed'
  BY <1>1 DEF OldestNotPushed
<1> QED
  BY <1>7, <1>8, <1>9, <1>10

\* Of the lists, only the comments of a post begin with the oldest.
LEMMA OldestIsComments ==
    ASSUME list \in Lists, list.order = "OLDEST"
    PROVE  list.narrows = FALSE /\ list.shows = "OWN LIVE"
<1>1. /\ \A s, n : list \notin AsList(s, n, {"NEWEST"})
      /\ \A s, n : list \notin AsList(s, n, {"NEWEST", "NAME"})
      /\ \A s, n : list \notin AsList(s, n, {"CODE"})
  BY DEF AsList
<1>2. list \in ListComments => list.narrows = FALSE /\ list.shows = "OWN LIVE"
  BY DEF ListComments, AsList
<1>3. /\ list \notin ListProperties
      /\ list \notin ListMyProperties
      /\ list \notin ListPropertiesForModeration
      /\ list \notin ListTours
      /\ list \notin ListMyTours
      /\ list \notin ListToursForModeration
      /\ list \notin ListExperiences
      /\ list \notin ListMyExperiences
      /\ list \notin ListExperiencesForModeration
      /\ list \notin ListFlights
      /\ list \notin ListMyFlights
      /\ list \notin ListFlightsForModeration
  BY <1>1 DEF
    ListProperties, ListMyProperties, ListPropertiesForModeration, ListTours,
    ListMyTours, ListToursForModeration, ListExperiences, ListMyExperiences,
    ListExperiencesForModeration, ListFlights, ListMyFlights,
    ListFlightsForModeration
<1>4. /\ list \notin ListRoutes
      /\ list \notin ListMyRoutes
      /\ list \notin ListRoutesForModeration
      /\ list \notin ListVehicles
      /\ list \notin ListMyVehicles
      /\ list \notin ListVehiclesForModeration
      /\ list \notin ListMyAircraft
      /\ list \notin ListAircraftForModeration
      /\ list \notin ListAirports
      /\ list \notin ListDestinations
      /\ list \notin ListTravelGuides
      /\ list \notin ListBlogPosts
  BY <1>1 DEF
    ListRoutes, ListMyRoutes, ListRoutesForModeration, ListVehicles, ListMyVehicles,
    ListVehiclesForModeration, ListMyAircraft, ListAircraftForModeration,
    ListAirports, ListDestinations, ListTravelGuides, ListBlogPosts
<1>5. /\ list \notin ListPosts
      /\ list \notin ListMyPosts
      /\ list \notin ListCommentsForModeration
      /\ list \notin ListReviews
      /\ list \notin ListReviewsAsProvider
      /\ list \notin ListTrips
      /\ list \notin ListMessages
      /\ list \notin ListNotifications
      /\ list \notin ListUsers
      /\ list \notin ListProviders
      /\ list \notin ListHotelBookings
      /\ list \notin ListTourBookings
  BY <1>1 DEF
    ListPosts, ListMyPosts, ListCommentsForModeration, ListReviews,
    ListReviewsAsProvider, ListTrips, ListMessages, ListNotifications, ListUsers,
    ListProviders, ListHotelBookings, ListTourBookings
<1>6. /\ list \notin ListExperienceBookings
      /\ list \notin ListTransportBookings
      /\ list \notin ListFlightBookings
      /\ list \notin ListPayments
      /\ list \notin ListMyPayments
      /\ list \notin ListCommissions
      /\ list \notin ListMyCommissions
      /\ list \notin ListCoupons
      /\ list \notin ListPromotions
      /\ list \notin ListMyPromotions
      /\ list \notin ListReports
      /\ list \notin ListActivityLogs
  BY <1>1 DEF
    ListExperienceBookings, ListTransportBookings, ListFlightBookings, ListPayments,
    ListMyPayments, ListCommissions, ListMyCommissions, ListCoupons, ListPromotions,
    ListMyPromotions, ListReports, ListActivityLogs
<1> QED
  BY <1>2, <1>3, <1>4, <1>5, <1>6 DEF Lists

\* A set has at least as many elements as a part of it.
LEMMA BiggerSet ==
    ASSUME NEW S, NEW T, IsFiniteSet(T), S \subseteq T
    PROVE  Cardinality(S) \in Nat /\ Cardinality(T) \in Nat
           /\ Cardinality(S) <= Cardinality(T)
<1>1. S \in SUBSET T
  OBVIOUS
<1> QED
  BY <1>1, FS_Subset, FS_CardinalityType

\* Any change of the rows that drops none and keeps codes apart, and comments where they are.
LEMMA WriteKeepsWalk ==
    ASSUME WalkInv, more, NEW newEntry, Write(newEntry),
           IsFiniteSet(DOMAIN newEntry), DOMAIN entry \subseteq DOMAIN newEntry,
           DOMAIN newEntry \subseteq Entry, \A e \in DOMAIN newEntry : newEntry[e] \in EntryRow,
           list.order = "CODE" =>
             \A a, b \in DOMAIN newEntry : a # b => newEntry[a].rank # newEntry[b].rank,
           list.order = "OLDEST" =>
             \A r \in DOMAIN entry : AheadIn(newEntry, r) \subseteq AheadIn(entry, r)
    PROVE  WalkInv'
<1> USE DEF WalkInv
<1>1. /\ UNCHANGED <<list, asked, limit, page, more, seen, tied>> /\ entry' = newEntry
      /\ page \in Nat /\ limit \in Nat /\ EntryShape
      /\ seen \in [Entry -> Nat] /\ pushed \in [Entry -> Nat]
  BY PagesAssumption DEF Write, WalkShape, PagesTypeOK
<1>2. IF page = 0 THEN slipped' = slipped /\ pushed' = pushed
      ELSE /\ slipped' = slipped \cup Slips(newEntry)
           /\ pushed' = [r \in Entry |-> IF r \in Pushes(newEntry) THEN pushed[r] + 1
                                         ELSE pushed[r]]
  BY DEF Write
<1>3. /\ Shown' = ShownIn(newEntry)
      /\ \A r : Ahead(r) = AheadIn(entry, r) /\ Ahead(r)' = AheadIn(newEntry, r)
  <2>1. Shown' = ShownIn(newEntry)
    BY <1>1 DEF Shown, ShownIn, Shows
  <2>2. ASSUME NEW r PROVE Ahead(r) = AheadIn(entry, r)
    BY DEF Ahead, AheadIn, Shown, Before
  <2>3. ASSUME NEW r PROVE Ahead(r)' = AheadIn(newEntry, r)
    BY <1>1, <2>1 DEF Ahead, AheadIn, Before, Precedes
  <2> QED
    BY <2>1, <2>2, <2>3
<1>4. EntryShape'
  BY <1>1 DEF EntryShape
<1>5. pushed' \in [Entry -> Nat]
  BY <1>1, <1>2
<1>6. WalkShape'
  <2>1. PagesTypeOK'
    BY <1>1 DEF WalkShape, PagesTypeOK
  <2>2. \A e \in Entry \ DOMAIN newEntry : seen[e] = 0
    BY DEF WalkShape
  <2> QED
    BY <1>1, <1>4, <1>5, <2>1, <2>2 DEF WalkShape
<1>7. EndsBehindAll'
  BY <1>1 DEF EndsBehindAll
<1>8. OldestNotPushed'
  <2> SUFFICES ASSUME list.order = "OLDEST", NEW r \in Entry PROVE pushed'[r] = 0
    BY <1>1 DEF OldestNotPushed
  <2>1. r \notin Pushes(newEntry)
    BY DEF Pushes
  <2> QED
    BY <1>2, <2>1 DEF OldestNotPushed
<1>9. WalkKeepsUp'
  <2> SUFFICES ASSUME NEW r \in DOMAIN newEntry, r \notin tied
               PROVE  /\ r \in ShownIn(newEntry) \ slipped' /\ seen[r] = 0 =>
                           Cardinality(AheadIn(newEntry, r)) >= page * limit
                      /\ seen[r] # 0 =>
                           \/ seen[r] <= pushed'[r]
                           \/ /\ seen[r] <= 1 + pushed'[r]
                              /\ Cardinality(AheadIn(newEntry, r)) < page * limit
    BY <1>1, <1>3 DEF WalkKeepsUp
  <2>1. r \in Entry /\ seen[r] \in Nat /\ pushed[r] \in Nat /\ pushed'[r] \in Nat
    BY <1>1, <1>5
  <2>2. /\ IsFiniteSet(AheadIn(newEntry, r)) /\ Cardinality(AheadIn(newEntry, r)) \in Nat
        /\ IsFiniteSet(Ahead(r)) /\ Cardinality(Ahead(r)) \in Nat /\ page * limit \in Nat
    <3>1. AheadIn(newEntry, r) \in SUBSET DOMAIN newEntry
      BY DEF AheadIn, ShownIn
    <3> QED
      BY <1>1, <3>1, ShownFinite, FS_Subset, FS_CardinalityType
  <2>3. CASE page = 0
    <3>1. seen[r] = 0
      BY <2>1, <2>3 DEF WalkShape
    <3>2. page * limit = 0
      BY <1>1, <2>3
    <3> QED
      BY <2>2, <3>1, <3>2
  <2>4. CASE page # 0
    <3>1. ASSUME r \in ShownIn(newEntry) \ slipped', seen[r] = 0
          PROVE  Cardinality(AheadIn(newEntry, r)) >= page * limit
      <4>1. r \notin slipped /\ r \notin Slips(newEntry)
        BY <1>2, <2>4, <3>1
      <4>2. r \in Shown /\ AheadIn(entry, r) \subseteq AheadIn(newEntry, r)
        BY <3>1, <4>1 DEF Slips
      <4>3. r \in DOMAIN entry
        BY <4>2 DEF Shown, ShownIn
      <4>4. Cardinality(Ahead(r)) >= page * limit
        BY <3>1, <4>1, <4>2, <4>3 DEF WalkKeepsUp
      <4>5. Cardinality(Ahead(r)) <= Cardinality(AheadIn(newEntry, r))
        BY <1>3, <2>2, <4>2, BiggerSet
      <4> QED
        BY <2>2, <4>4, <4>5
    <3>2. ASSUME seen[r] # 0
          PROVE  \/ seen[r] <= pushed'[r]
                 \/ /\ seen[r] <= 1 + pushed'[r]
                    /\ Cardinality(AheadIn(newEntry, r)) < page * limit
      <4>1. r \in DOMAIN entry
        BY <2>1, <3>2 DEF WalkShape
      <4>2. \/ seen[r] <= pushed[r]
            \/ seen[r] <= 1 + pushed[r] /\ Cardinality(Ahead(r)) < page * limit
        BY <3>2, <4>1 DEF WalkKeepsUp
      <4>3. CASE r \in Pushes(newEntry)
        <5>1. pushed'[r] = pushed[r] + 1
          BY <1>2, <2>1, <2>4, <4>3
        <5> QED
          BY <2>1, <4>2, <5>1
      <4>4. CASE r \notin Pushes(newEntry)
        <5>1. pushed'[r] = pushed[r]
          BY <1>2, <2>1, <2>4, <4>4
        <5>2. AheadIn(newEntry, r) \subseteq Ahead(r)
          BY <1>3, <2>1, <3>2, <4>1, <4>4 DEF Pushes
        <5>3. Cardinality(AheadIn(newEntry, r)) <= Cardinality(Ahead(r))
          BY <2>2, <5>2, BiggerSet
        <5> QED
          BY <2>1, <2>2, <4>2, <5>1, <5>3
      <4> QED
        BY <4>3, <4>4
    <3> QED
      BY <3>1, <3>2
  <2> QED
    BY <2>3, <2>4
<1> QED
  BY <1>6, <1>7, <1>8, <1>9

\* A new rank is one of the column, free where the rows have codes and no smaller than
\* the others where the oldest come first.
LEMMA NewRank ==
    ASSUME NEW k \in Ranks
    PROVE  /\ k \in 1..LastRank
           /\ list.order = "CODE" => \A e \in DOMAIN entry : entry[e].rank # k
           /\ list.order = "OLDEST" /\ EntryShape => \A e \in DOMAIN entry : entry[e].rank <= k
<1>1. k \in 1..LastRank
  BY DEF Ranks
<1>2. ASSUME list.order = "CODE" PROVE \A e \in DOMAIN entry : entry[e].rank # k
  BY <1>2 DEF Ranks
<1>3. ASSUME list.order = "OLDEST", EntryShape, NEW e \in DOMAIN entry
      PROVE  entry[e].rank <= k
  <2>1. entry[e].rank \in Int /\ k \in Int
    BY <1>1, <1>3, PagesAssumption DEF EntryShape, EntryRow
  <2>2. entry[e].rank <= k \/ entry[e].rank <= k - 1
    BY <1>3 DEF Ranks
  <2> QED
    BY <2>1, <2>2
<1> QED
  BY <1>1, <1>2, <1>3

LEMMA AddKeepsWalk ==
    ASSUME WalkInv, more, AddEntry
    PROVE  WalkInv'
<1>1. PICK e \in Entry \ DOMAIN entry, k \in Ranks,
           f \in (IF Owned \/ Searched THEN BOOLEAN ELSE {TRUE}),
           st \in (IF page = 0 /\ HasStatus THEN Status ELSE {"PENDING"}) :
        /\ \A o \in Entry : o < e => o \in DOMAIN entry
        /\ Write([o \in DOMAIN entry \cup {e} |->
                 IF o = e THEN [rank |-> k, fits |-> f, live |-> TRUE, status |-> st]
                          ELSE entry[o]])
  BY Zenon DEF AddEntry
<1> DEFINE new == [rank |-> k, fits |-> f, live |-> TRUE, status |-> st]
           newEntry == [o \in DOMAIN entry \cup {e} |-> IF o = e THEN new ELSE entry[o]]
<1>2. /\ k \in 1..LastRank
      /\ list.order = "CODE" => \A o \in DOMAIN entry : entry[o].rank # k
      /\ list.order = "OLDEST" /\ EntryShape => \A o \in DOMAIN entry : entry[o].rank <= k
  BY NewRank
<1>3. /\ EntryShape /\ PagesTypeOK /\ f \in BOOLEAN /\ st \in Status
  BY DEF WalkInv, WalkShape, Status
<1>4. new \in EntryRow /\ new.rank = k
  BY <1>2, <1>3 DEF EntryRow
<1> HIDE DEF new
<1>5. /\ DOMAIN newEntry = DOMAIN entry \cup {e} /\ newEntry[e] = new
      /\ \A o \in DOMAIN entry : newEntry[o] = entry[o]
  OBVIOUS
<1>6. Write(newEntry)
  BY <1>1 DEF new
<1> HIDE DEF newEntry
<1>7. IsFiniteSet(DOMAIN newEntry)
  BY <1>3, <1>5, FS_AddElement DEF EntryShape
<1>8. DOMAIN newEntry \subseteq Entry /\ \A o \in DOMAIN newEntry : newEntry[o] \in EntryRow
  BY <1>3, <1>4, <1>5 DEF EntryShape
<1>9. ASSUME list.order = "CODE", NEW a \in DOMAIN newEntry, NEW b \in DOMAIN newEntry, a # b
      PROVE  newEntry[a].rank # newEntry[b].rank
  BY <1>2, <1>3, <1>4, <1>5, <1>9 DEF PagesTypeOK
<1>10. ASSUME list.order = "OLDEST", NEW r \in DOMAIN entry, NEW o \in AheadIn(newEntry, r)
       PROVE  o \in AheadIn(entry, r)
  <2>1. o \in DOMAIN newEntry /\ Shows(newEntry[o]) /\ newEntry[o].rank < newEntry[r].rank
    BY <1>10 DEF AheadIn, ShownIn, Precedes
  <2>2. entry[r].rank <= k /\ entry[r].rank \in Int /\ k \in Int
    BY <1>2, <1>3, <1>10, PagesAssumption DEF EntryShape, EntryRow
  <2>3. o # e
    BY <1>4, <1>5, <1>10, <2>1, <2>2
  <2> QED
    BY <1>5, <1>10, <2>1, <2>3 DEF AheadIn, ShownIn, Precedes
<1> QED
  BY <1>5, <1>6, <1>7, <1>8, <1>9, <1>10, WriteKeepsWalk

\* Comments are not searched.
LEMMA OldestNotSearched ==
    ASSUME list.order = "OLDEST"
    PROVE  ~Searched
BY DEF Searched, AsList, ListProperties, ListTours, ListExperiences, ListFlights, ListRoutes,
       ListVehicles, ListAirports, ListDestinations, ListTravelGuides, ListBlogPosts, ListUsers,
       ListCoupons

\* One row is changed: its status, its columns, or whether it is there.
LEMMA ChangeKeepsWalk ==
    ASSUME WalkInv, more, NEW e \in DOMAIN entry,
           \/ \E s \in Status : SetStatus(e, s)
           \/ \E k \in 1..LastRank, f \in BOOLEAN : EditEntry(e, k, f)
           \/ DeleteEntry(e)
           \/ RestoreEntry(e)
    PROVE  WalkInv'
<1>1. EntryShape /\ PagesTypeOK /\ entry[e] \in EntryRow
  BY DEF WalkInv, WalkShape, EntryShape
<1>2. ASSUME NEW new \in EntryRow, Write([entry EXCEPT ![e] = new]),
             list.order = "CODE" =>
               \/ new.rank = entry[e].rank
               \/ \A o \in DOMAIN entry : entry[o].rank # new.rank,
             list.order = "OLDEST" => ~Shows(new) /\ new.rank = entry[e].rank
      PROVE  WalkInv'
  <2> DEFINE newEntry == [entry EXCEPT ![e] = new]
  <2>1. /\ DOMAIN newEntry = DOMAIN entry /\ newEntry[e] = new
        /\ \A o \in DOMAIN entry \ {e} : newEntry[o] = entry[o]
    OBVIOUS
  <2>2. Write(newEntry)
    BY <1>2
  <2> HIDE DEF newEntry
  <2>3. /\ IsFiniteSet(DOMAIN newEntry) /\ DOMAIN newEntry \subseteq Entry
        /\ \A o \in DOMAIN newEntry : newEntry[o] \in EntryRow
    BY <1>1, <1>2, <2>1 DEF EntryShape
  <2>4. ASSUME list.order = "CODE", NEW a \in DOMAIN newEntry, NEW b \in DOMAIN newEntry, a # b
        PROVE  newEntry[a].rank # newEntry[b].rank
    <3>1. entry[a].rank # entry[b].rank
      BY <1>1, <2>1, <2>4 DEF PagesTypeOK
    <3> QED
      BY <1>2, <2>1, <2>4, <3>1
  <2>5. ASSUME list.order = "OLDEST", NEW r \in DOMAIN entry, NEW o \in AheadIn(newEntry, r)
        PROVE  o \in AheadIn(entry, r)
    <3>1. o \in DOMAIN newEntry /\ Shows(newEntry[o]) /\ newEntry[o].rank < newEntry[r].rank
      BY <2>5 DEF AheadIn, ShownIn, Precedes
    <3>2. o # e /\ newEntry[r].rank = entry[r].rank
      BY <1>2, <2>1, <2>5, <3>1
    <3> QED
      BY <2>1, <2>5, <3>1, <3>2 DEF AheadIn, ShownIn, Precedes
  <2> QED
    BY <2>1, <2>2, <2>3, <2>4, <2>5, WriteKeepsWalk
<1>3. CASE \E s \in Status : SetStatus(e, s)
  <2>1. PICK s \in Status : SetStatus(e, s)
    BY <1>3
  <2>2. [entry[e] EXCEPT !.status = s] \in EntryRow
        /\ [entry[e] EXCEPT !.status = s].rank = entry[e].rank
    BY <1>1 DEF EntryRow
  <2>3. Write([entry EXCEPT ![e] = [entry[e] EXCEPT !.status = s]])
    BY <2>1 DEF SetStatus
  <2>4. list.order # "OLDEST"
    BY <1>1, <2>1, OldestIsComments DEF PagesTypeOK, SetStatus, HasStatus
  <2> QED
    BY <1>2, <2>2, <2>3, <2>4
<1>4. CASE \E k \in 1..LastRank, f \in BOOLEAN : EditEntry(e, k, f)
  <2>1. PICK k \in 1..LastRank, f \in BOOLEAN : EditEntry(e, k, f)
    BY <1>4
  <2> DEFINE new == [entry[e] EXCEPT !.rank = k, !.fits = f]
  <2>2. new \in EntryRow /\ new.rank = k
    BY <1>1 DEF EntryRow
  <2>3. Write([entry EXCEPT ![e] = new])
    <3>1. [entry EXCEPT ![e].rank = k, ![e].fits = f] = [entry EXCEPT ![e] = new]
      BY <1>1
    <3> QED
      BY <2>1, <3>1 DEF EditEntry
  <2>4. list.order # "OLDEST"
    BY <2>1, OldestNotSearched DEF EditEntry
  <2>5. k = entry[e].rank \/ k \in Ranks
    BY <2>1 DEF EditEntry
  <2>6. list.order = "CODE" => k = entry[e].rank \/ \A o \in DOMAIN entry : entry[o].rank # k
    BY <2>5, NewRank
  <2> HIDE DEF new
  <2> QED
    BY <1>2, <2>2, <2>3, <2>4, <2>6
<1>5. CASE DeleteEntry(e)
  <2>1. [entry[e] EXCEPT !.live = FALSE] \in EntryRow
        /\ [entry[e] EXCEPT !.live = FALSE].rank = entry[e].rank
    BY <1>1 DEF EntryRow
  <2>2. ~Shows([entry[e] EXCEPT !.live = FALSE])
    BY <1>1 DEF Shows, EntryRow
  <2>3. Write([entry EXCEPT ![e] = [entry[e] EXCEPT !.live = FALSE]])
    BY <1>5 DEF DeleteEntry
  <2> QED
    BY <1>2, <2>1, <2>2, <2>3
<1>6. CASE RestoreEntry(e)
  <2>1. [entry[e] EXCEPT !.live = TRUE] \in EntryRow
        /\ [entry[e] EXCEPT !.live = TRUE].rank = entry[e].rank
    BY <1>1 DEF EntryRow
  <2>2. list.order # "OLDEST"
    BY <1>6 DEF RestoreEntry, ListReviews, ListReviewsAsProvider, AsList
  <2>3. Write([entry EXCEPT ![e] = [entry[e] EXCEPT !.live = TRUE]])
    BY <1>6 DEF RestoreEntry
  <2> QED
    BY <1>2, <2>1, <2>2, <2>3
<1> QED
  BY <1>3, <1>4, <1>5, <1>6

\* What several reviews are of is removed at once.
LEMMA RemoveKeepsWalk ==
    ASSUME WalkInv, more, NEW S \in SUBSET DOMAIN entry, RemoveSubject(S)
    PROVE  WalkInv'
<1> DEFINE newEntry == [e \in DOMAIN entry |->
                          IF e \in S THEN [entry[e] EXCEPT !.fits = FALSE] ELSE entry[e]]
<1>1. EntryShape /\ PagesTypeOK /\ Write(newEntry)
  BY DEF WalkInv, WalkShape, RemoveSubject
<1>2. \A e \in DOMAIN entry : newEntry[e] \in EntryRow /\ newEntry[e].rank = entry[e].rank
  BY <1>1 DEF EntryShape, EntryRow
<1>3. DOMAIN newEntry = DOMAIN entry
  OBVIOUS
<1> HIDE DEF newEntry
<1>4. list.order # "OLDEST"
  BY DEF RemoveSubject, ListReviewsAsProvider, AsList
<1>5. list.order = "CODE" =>
        \A a, b \in DOMAIN newEntry : a # b => newEntry[a].rank # newEntry[b].rank
  BY <1>1, <1>2, <1>3 DEF PagesTypeOK
<1> QED
  BY <1>1, <1>2, <1>3, <1>4, <1>5, WriteKeepsWalk DEF EntryShape

LEMMA StutterKeepsWalk ==
    ASSUME WalkInv, UNCHANGED pageVars
    PROVE  WalkInv'
<1>1. /\ UNCHANGED <<list, asked, entry>>
      /\ UNCHANGED <<limit, page, more, seen, slipped, pushed, tied>>
  BY DEF pageVars
<1>2. Shown' = Shown /\ EntryShape' = EntryShape /\ \A r : Ahead(r)' = Ahead(r)
  BY <1>1, SameList
<1>3. WalkShape' /\ EndsBehindAll' /\ OldestNotPushed'
  BY <1>1, <1>2 DEF WalkInv, WalkShape, PagesTypeOK, EndsBehindAll, OldestNotPushed
<1>4. WalkKeepsUp'
  BY <1>1, <1>2 DEF WalkInv, WalkKeepsUp
<1> QED
  BY <1>3, <1>4 DEF WalkInv

\* A limit that is given, too large or missing gives a limit in the range.
LEMMA LimitInRange ==
    ASSUME NEW wish \in 0..(MaxLimit + 1)
    PROVE  Limit(wish) \in 1..MaxLimit
<1>1. MaxLimit \in Nat \ {0} /\ DefaultLimit \in 1..MaxLimit
  BY PagesAssumption
<1>2. CASE wish = 0
  BY <1>1, <1>2 DEF Limit
<1>3. CASE wish # 0
  <2>1. \E n \in 1..MaxLimit : n = wish \/ (wish > MaxLimit /\ n = MaxLimit)
    <3>1. CASE wish > MaxLimit
      BY <1>1, <3>1
    <3>2. CASE ~(wish > MaxLimit)
      BY <1>1, <1>3, <3>2
    <3> QED
      BY <3>1, <3>2
  <2> QED
    BY <1>3, <2>1 DEF Limit
<1> QED
  BY <1>2, <1>3

LEMMA PagesInitInv ==
    ASSUME PagesInit
    PROVE  WalkInv
<1>1. DOMAIN entry = {} /\ page = 0 /\ more = TRUE /\ pushed = [e \in Entry |-> 0]
      /\ seen = [e \in Entry |-> 0] /\ list \in Lists
  BY DEF PagesInit
<1>2. limit \in 1..MaxLimit
  BY LimitInRange DEF PagesInit
<1>3. IsFiniteSet(DOMAIN entry)
  BY <1>1, FS_EmptySet
<1>4. WalkShape
  BY <1>1, <1>2, <1>3 DEF WalkShape, PagesTypeOK, EntryShape
<1> QED
  BY <1>1, <1>4 DEF WalkInv, WalkKeepsUp, OldestNotPushed, EndsBehindAll

LEMMA PagesNextInv ==
    ASSUME WalkInv, [PagesNext]_pageVars
    PROVE  WalkInv'
<1>1. CASE ReadPage
  BY <1>1, ReadKeepsWalk
<1>2. CASE more /\ AddEntry
  BY <1>2, AddKeepsWalk
<1>3. ASSUME more, NEW e \in DOMAIN entry,
             \/ \E s \in Status : SetStatus(e, s)
             \/ \E k \in 1..LastRank, f \in BOOLEAN : EditEntry(e, k, f)
             \/ DeleteEntry(e) \/ RestoreEntry(e)
      PROVE  WalkInv'
  BY <1>3, ChangeKeepsWalk
<1>4. ASSUME more, NEW S \in SUBSET DOMAIN entry, RemoveSubject(S)
      PROVE  WalkInv'
  BY <1>4, RemoveKeepsWalk
<1>5. CASE UNCHANGED pageVars
  BY <1>5, StutterKeepsWalk
<1> QED
  BY <1>1, <1>2, <1>3, <1>4, <1>5 DEF PagesNext

\* At the end of the walk the rows it keeps up with are the rows of the list.
LEMMA WalkInvIsWhole ==
    ASSUME WalkInv
    PROVE  WalkIsWhole
<1>1. EntryShape /\ seen \in [Entry -> Nat] /\ pushed \in [Entry -> Nat]
  BY DEF WalkInv, WalkShape, PagesTypeOK
<1>2. ASSUME NEW r \in DOMAIN entry \ tied
      PROVE  seen[r] <= 1 + pushed[r] /\ (list.order = "OLDEST" => seen[r] <= 1)
  <2>1. r \in Entry /\ seen[r] \in Nat /\ pushed[r] \in Nat
    BY <1>1 DEF EntryShape
  <2>2. seen[r] <= 1 + pushed[r]
    BY <2>1 DEF WalkInv, WalkKeepsUp
  <2> QED
    BY <2>1, <2>2 DEF WalkInv, OldestNotPushed
<1>3. ASSUME ~more, NEW r \in Shown \ tied, seen[r] = 0, r \notin slipped
      PROVE  FALSE
  <2>1. r \in DOMAIN entry
    BY DEF Shown, ShownIn
  <2>2. Cardinality(Shown) <= page * limit /\ page * limit \in Nat
    BY <1>3, PagesAssumption DEF WalkInv, EndsBehindAll, WalkShape, PagesTypeOK
  <2>3. Cardinality(Ahead(r)) < Cardinality(Shown) /\ Cardinality(Shown) \in Nat
    BY <1>1, AheadIsFewer DEF Ahead
  <2>4. Cardinality(Ahead(r)) \in Nat
    BY <1>1, ShownFinite
  <2>5. Cardinality(Ahead(r)) >= page * limit
    BY <1>3, <2>1 DEF WalkInv, WalkKeepsUp
  <2> QED
    BY <2>2, <2>3, <2>4, <2>5
<1> QED
  BY <1>2, <1>3 DEF WalkIsWhole

\* What the walk keeps is of its kind, and no two rows have the same code (resolvePagination,
\* buildPaginated and the repositories' list queries), whatever the rows and the limits.
THEOREM PagesTypeCorrect == PagesSpec => []PagesTypeOK
<1>1. PagesSpec => []WalkInv
  BY PagesInitInv, PagesNextInv, PTL DEF PagesSpec
<1>2. WalkInv => PagesTypeOK
  BY DEF WalkInv, WalkShape
<1> QED
  BY <1>1, <1>2, PTL

\* A reader sees a row again at most as often as it was moved back, a comment never, and
\* misses at the end only rows that came in or moved up during his walk; rows that were
\* level with another one on a page he read are left aside.
THEOREM WalksAreWhole == PagesSpec => []WalkIsWhole
<1>1. PagesSpec => []WalkInv
  BY PagesInitInv, PagesNextInv, PTL DEF PagesSpec
<1> QED
  BY <1>1, WalkInvIsWhole, PTL

-----------------------------------------------------------------------------
(* The platform.                                                           *)

\* A behaviour of the platform is one of each part: of the one it is about, and of the
\* others at rest.
LEMMA PartsBegin ==
    PlatformInit => /\ StaffInit /\ PlanInit /\ CatalogueInit /\ FleetInit /\ ReviewInit
                    /\ ConversationInit /\ JobsInit /\ LedgerInit /\ SessionInit /\ PagesInit
                    /\ PricingInit /\ FiguresInit
  BY DEF PlatformInit

LEMMA PartsStep ==
    [PlatformNext]_platformVars =>
        /\ [StaffNext]_staffVars /\ [PlanNext]_planVars /\ [CatalogueNext]_catalogueVars
        /\ [FleetNext]_fleetVars /\ [ReviewNext]_reviewVars
        /\ [ConversationNext]_conversationVars /\ [JobsNext]_jobVars /\ [LedgerNext]_ledgerVars
        /\ [SessionNext]_sessionVars /\ [PagesNext]_pageVars /\ [PricingNext]_pricingVars
        /\ [FiguresNext]_figuresVars
  BY DEF PlatformNext, platformVars

\* The platform implements each of its parts.
THEOREM PartsOfPlatform ==
    PlatformSpec => /\ StaffSpec /\ PlanSpec /\ CatalogueSpec /\ FleetSpec /\ ReviewSpec
                    /\ ConversationSpec /\ JobsSpec /\ LedgerSpec /\ SessionSpec /\ PagesSpec
                    /\ PricingSpec /\ FiguresSpec
  BY PartsBegin, PartsStep, PTL DEF PlatformSpec, StaffSpec, PlanSpec, CatalogueSpec, FleetSpec,
     ReviewSpec, ConversationSpec, JobsSpec, LedgerSpec, SessionSpec, PagesSpec, PricingSpec,
     FiguresSpec

\* Everything the platform keeps is of its kind; keys are unique, references are to rows
\* that are there.
THEOREM PlatformTypeCorrect == PlatformSpec => []PlatformTypeOK
  BY PartsOfPlatform, StaffTypeCorrect, PlanTypeCorrect, KeysAreUnique, FleetTypeCorrect,
     OneReviewEach, ConversationTypeCorrect, JobsTypeCorrect, LedgerTypeCorrect,
     SessionTypeCorrect, PagesTypeCorrect, PricingTypeCorrect, FiguresTypeCorrect, PTL
     DEF PlatformTypeOK

\* What the provider's and the administrator's pages show adds up.
THEOREM PlatformTotalsAddUp == PlatformSpec => []TotalsAddUp
  BY PartsOfPlatform, LedgerAlwaysAddsUp, FiguresAlwaysAddUp, PTL DEF TotalsAddUp

\* What the parts promise, the platform keeps.
THEOREM PlatformStaysSound ==
    PlatformSpec => /\ []RemovedDriverIdle /\ []PlanInOrder /\ []FlightsFlyable
                    /\ []ReviewsEarned /\ []ReadByTheOtherSide /\ []DeliveredOnce
                    /\ []SessionsSound /\ []WalkIsWhole /\ []PricesAddUp
  BY PartsOfPlatform, NoGhostDriver, PlanStaysInOrder, FlightsStayFlyable, EveryReviewEarned,
     OnlyTheOtherSideReads, JobsDeliverOnce, SessionsAreSound, WalksAreWhole,
     PricesAlwaysAddUp, PTL
=============================================================================
