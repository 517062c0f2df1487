------------------------------ MODULE Sessions ------------------------------
(***************************************************************************)
(* The refresh tokens of one account on several devices.  A token is signed *)
(* over the account and the second it is issued in, so two issued in one   *)
(* second are the same string with two rows.  A refresh finds a row, reads *)
(* the account, revokes the row and issues a pair, without a transaction.  *)
(***************************************************************************)
EXTENDS Naturals, Sequences

CONSTANTS
    Device,      \* clients of the account, which keep the last token they got
    Refresh,     \* requests to refresh, by number
    Lifetime,    \* of a refresh token, in seconds
    LastSecond,  \* bound of the model on the clock
    MaxTokens    \* bound of the model on the rows

ASSUME SessionAssumption ==
    /\ Lifetime \in Nat /\ LastSecond \in Nat \ {0, 1} /\ MaxTokens \in Nat
    /\ Refresh \subseteq Nat

VARIABLES
    now,         \* the second
    active,      \* the account's status is ACTIVE
    tokens,      \* rows of refresh_tokens: when issued, and revoked or not
    holds,       \* the token a device has, by the second it was issued in; 0: none
    given,       \* all tokens a device was given: it may try an older one again
    refreshing,  \* how far a refresh has come
    exchanged,   \* history: pairs issued for a token
    shared,      \* history: tokens issued twice in one second
    overlapped,  \* history: tokens two refreshes were after at once
    interrupted  \* history: devices whose last refresh ended between revoking and issuing

sessionVars == <<now, active, tokens, holds, given, refreshing, exchanged, shared,
                 overlapped, interrupted>>

Second == 1..LastSecond
Idle == [stage |-> "IDLE", of |-> 0, row |-> 0, device |-> 0]

First == CHOOSE d \in Device : TRUE

\* One device has logged in in the first second; it is the second one now.
SessionInit ==
    /\ now = 2 /\ active = TRUE
    /\ tokens = <<[issued |-> 1, revoked |-> FALSE]>>
    /\ holds = [d \in Device |-> IF d = First THEN 1 ELSE 0]
    /\ given = [d \in Device |-> IF d = First THEN {1} ELSE {}]
    /\ refreshing = [q \in Refresh |-> Idle]
    /\ exchanged = [s \in Second |-> 0]
    /\ shared = {} /\ overlapped = {} /\ interrupted = {}

Tick ==
    /\ now < LastSecond
    /\ now' = now + 1
    /\ UNCHANGED <<active, tokens, holds, given, refreshing, exchanged, shared, overlapped, interrupted>>

\* An administrator suspends the account, or lifts the suspension.
ChangeStatus ==
    /\ active' = ~active
    /\ UNCHANGED <<now, tokens, holds, given, refreshing, exchanged, shared, overlapped, interrupted>>

\* issueTokens: signing, and the row.
IssueTokens(d) ==
    /\ Len(tokens) < MaxTokens
    /\ tokens' = Append(tokens, [issued |-> now, revoked |-> FALSE])
    /\ holds' = [holds EXCEPT ![d] = now] /\ given' = [given EXCEPT ![d] = @ \cup {now}]
    /\ shared' = IF \E i \in DOMAIN tokens : tokens[i].issued = now
                 THEN shared \cup {now} ELSE shared
    /\ interrupted' = interrupted \ {d}

\* register, login, loginWithGoogle.
Login(d) ==
    /\ active
    /\ IssueTokens(d)
    /\ UNCHANGED <<now, active, refreshing, exchanged, overlapped>>

Rows(s) == {i \in DOMAIN tokens : tokens[i].issued = s}
Fresh(s) == s + Lifetime > now

ActiveRows(s) == {i \in Rows(s) : ~tokens[i].revoked /\ Fresh(s)}

\* findActiveByUserAndHash.  A request takes the first free number.
FindActive(q, d, s) ==
    /\ refreshing[q] = Idle /\ s \in given[d]
    /\ \A p \in Refresh : p < q => refreshing[p] # Idle
    /\ \E i \in ActiveRows(s) :
         refreshing' = [refreshing EXCEPT ![q] =
            [stage |-> "FOUND", of |-> s, row |-> i, device |-> d]]
    /\ overlapped' = IF \E p \in Refresh : refreshing[p].of = s
                     THEN overlapped \cup {s} ELSE overlapped
    /\ UNCHANGED <<now, active, tokens, holds, given, exchanged, shared, interrupted>>

\* The account is read and the row revoked, whatever the account's status.  (Two
\* statements: a suspension between them is one just after.)
Revoke(q) ==
    LET r == refreshing[q]
    IN  /\ r.stage = "FOUND"
        /\ tokens' = [tokens EXCEPT ![r.row].revoked = TRUE]
        /\ \/ active /\ refreshing' = [refreshing EXCEPT ![q].stage = "REVOKED"]
                   /\ UNCHANGED interrupted
           \/ ~active /\ refreshing' = [refreshing EXCEPT ![q] = Idle]
                      /\ interrupted' = interrupted \cup {r.device}
        /\ UNCHANGED <<now, active, holds, given, exchanged, shared, overlapped>>

\* The new pair, or nothing if the request fails here.
Exchange(q) ==
    LET r == refreshing[q]
    IN  /\ r.stage = "REVOKED"
        /\ refreshing' = [refreshing EXCEPT ![q] = Idle]
        /\ \/ /\ IssueTokens(r.device)
              /\ exchanged' = [exchanged EXCEPT ![r.of] = @ + 1]
           \/ /\ interrupted' = interrupted \cup {r.device}
              /\ UNCHANGED <<tokens, holds, given, shared, exchanged>>
        /\ UNCHANGED <<now, active, overlapped>>

(* Mutant: all tokens of the account.                                      *)
RevokedByUser(s) == DOMAIN tokens

RevokedByHash(s) == Rows(s)

Logout(d) ==
    /\ holds[d] # 0
    /\ tokens' = [i \in DOMAIN tokens |->
          IF i \in RevokedByHash(holds[d]) THEN [tokens[i] EXCEPT !.revoked = TRUE] ELSE tokens[i]]
    /\ holds' = [holds EXCEPT ![d] = 0]
    /\ UNCHANGED <<now, active, given, refreshing, exchanged, shared, overlapped, interrupted>>

SessionNext ==
    \/ Tick \/ ChangeStatus
    \/ \E d \in Device : Login(d) \/ Logout(d) \/ \E q \in Refresh, s \in Second : FindActive(q, d, s)
    \/ \E q \in Refresh : Revoke(q) \/ Exchange(q)

SessionSpec == SessionInit /\ [][SessionNext]_sessionVars

-----------------------------------------------------------------------------
(* Properties.                                                             *)

\* Rows, tokens and requests are of their kinds.
SessionTypeOK ==
    /\ now \in Second /\ active \in BOOLEAN
    /\ holds \in [Device -> 0..now] /\ given \in [Device -> SUBSET (1..now)]
    /\ \A i \in DOMAIN tokens : tokens[i].issued \in 1..now
    /\ \A q \in Refresh : refreshing[q].row \in 0..Len(tokens)
    /\ shared \cup overlapped \subseteq Second /\ interrupted \subseteq Device

\* A token is exchanged for one pair only, unless it was issued twice or two refreshes
\* with it overlapped.
ExchangedOnce == \A s \in Second \ (shared \cup overlapped) : exchanged[s] <= 1

\* The sessions of an account are independent: the token a device has is good as long
\* as that device does not use it up, whatever the other devices do, unless another
\* device has got the same token.
SessionsIndependent ==
    \A d \in Device \ interrupted :
      LET s == holds[d]
      IN  s # 0 /\ s \notin shared /\ Fresh(s) /\ (\A q \in Refresh : refreshing[q].of # s)
            => ActiveRows(s) # {}

SessionsSound == ExchangedOnce /\ SessionsIndependent
=============================================================================
