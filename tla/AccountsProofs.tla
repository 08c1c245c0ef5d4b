--------------------------- MODULE AccountsProofs ---------------------------
(***************************************************************************)
(* For any number of invitations, tokens, schools, requests and faults:    *)
(* one-time codes work at most once, an invitation is redeemed whole, and  *)
(* resets and deactivations close the sessions opened before them.         *)
(***************************************************************************)
EXTENDS Accounts, SequenceTheorems, TLAPS

(* A token that has not been claimed has no effect yet, nor has one whose  *)
(* claimer is about to set the password; two claimers hold two tokens.     *)
ClaimsAreExclusive ==
    /\ \A c \in Codes : uses[c] <= 1
    /\ \A c \in Codes : code[c] # "used" => uses[c] = 0
    /\ \A i \in Invitations : code[i] = "used" => uses[i] = 1
    /\ \A r \in Requests : request[r].at = "password" =>
          code[request[r].code] = "used" /\ uses[request[r].code] = 0
    /\ \A r, v \in Requests :
          request[r].at = "password" /\ request[v].at = "password"
          /\ request[r].code = request[v].code => r = v

(* Without failures an open session older than a reset or a deactivation   *)
(* is waited for by the request that will revoke it.                       *)
RevocationComes ==
    failed = 0 =>
        \/ \E r \in Requests : request[r].at = "revokeAll"
        \/ \A s \in DOMAIN sessions : sessions[s].open =>
              sessions[s].resets = resets /\ sessions[s].closures = closures

LEMMA Finishing ==
    ASSUME TypeOK, NEW r \in Requests, Finish(r)
    PROVE  /\ request' \in [Requests -> Request]
           /\ request'[r].at = "idle"
           /\ \A v \in Requests : v # r => request'[v] = request[v]
  BY DEF TypeOK, Finish, Idle, Request, Steps

LEMMA Going ==
    ASSUME TypeOK, NEW r \in Requests, NEW a \in Steps, Go(r, a)
    PROVE  /\ request' \in [Requests -> Request]
           /\ request'[r].at = a
           /\ request'[r].code = request[r].code
           /\ request'[r].of = request[r].of
           /\ \A v \in Requests : v # r => request'[v] = request[v]
  BY DEF TypeOK, Go, Request

LEMMA Beginning ==
    ASSUME TypeOK, NEW r \in Requests, NEW q \in Request, BeginRequest(r, q)
    PROVE  /\ request' \in [Requests -> Request]
           /\ request'[r] = q
           /\ request[r].at = "idle"
           /\ \A v \in Requests : v # r => request'[v] = request[v]
           /\ begun' \in Nat
  BY DEF TypeOK, BeginRequest, Busy

(* The requests a handler begins with. *)
LEMMA Beginnings ==
    /\ \A c \in Codes : \A a \in Steps : [Idle EXCEPT !.at = a, !.code = c] \in Request
    /\ \A s \in Nat : [Idle EXCEPT !.at = "context", !.of = s] \in Request
    /\ \A a \in Steps : [Idle EXCEPT !.at = a] \in Request
  BY DEF Idle, Request, Steps

LEMMA Closing ==
    ASSUME sessions \in Seq(Sessions),
           sessions' = [s \in DOMAIN sessions |-> [sessions[s] EXCEPT !.open = FALSE]]
    PROVE  /\ sessions' \in Seq(Sessions)
           /\ DOMAIN sessions' = DOMAIN sessions
           /\ \A s \in DOMAIN sessions' : ~sessions'[s].open
  <1>1. sessions \in [1..Len(sessions) -> Sessions] /\ Len(sessions) \in Nat
    BY LenProperties
  <1>2. sessions' \in [1..Len(sessions) -> Sessions]
    BY <1>1 DEF Sessions
  <1>3. sessions' \in Seq(Sessions)
    BY <1>1, <1>2, SeqDef
  <1>4. \A s \in DOMAIN sessions' : ~sessions'[s].open
    BY <1>1 DEF Sessions
  <1> QED
    BY <1>1, <1>3, <1>4

LEMMA Revoking ==
    ASSUME sessions \in Seq(Sessions), NEW s \in DOMAIN sessions,
           sessions' = [sessions EXCEPT ![s].open = FALSE]
    PROVE  /\ sessions' \in Seq(Sessions)
           /\ DOMAIN sessions' = DOMAIN sessions
           /\ \A x \in DOMAIN sessions' : sessions'[x].open => sessions'[x] = sessions[x]
  <1>1. sessions \in [1..Len(sessions) -> Sessions] /\ Len(sessions) \in Nat
    BY LenProperties
  <1>2. sessions' \in [1..Len(sessions) -> Sessions]
    BY <1>1 DEF Sessions
  <1>3. sessions' \in Seq(Sessions)
    BY <1>1, <1>2, SeqDef
  <1>4. \A x \in DOMAIN sessions' : sessions'[x].open => sessions'[x] = sessions[x]
    BY <1>1 DEF Sessions
  <1> QED
    BY <1>1, <1>3, <1>4

LEMMA Opening ==
    ASSUME sessions \in Seq(Sessions), NEW n \in Sessions, sessions' = Append(sessions, n)
    PROVE  /\ sessions' \in Seq(Sessions)
           /\ DOMAIN sessions \subseteq DOMAIN sessions'
           /\ \A x \in DOMAIN sessions' :
                 (x \in DOMAIN sessions /\ sessions'[x] = sessions[x]) \/ sessions'[x] = n
  <1>1. sessions \in [1..Len(sessions) -> Sessions] /\ Len(sessions) \in Nat
    BY LenProperties
  <1>2. sessions' \in Seq(Sessions) /\ Len(sessions') = Len(sessions) + 1
    OBVIOUS
  <1>3. DOMAIN sessions' = 1..(Len(sessions) + 1)
    BY <1>2, LenProperties
  <1> QED
    BY <1>1, <1>2, <1>3

-----------------------------------------------------------------------------
(* Type correctness.                                                       *)

LEMMA InitTyped == Init => TypeOK
  BY DEF Init, TypeOK, Idle, Request, Steps, Codes, CodeStates, Statuses

LEMMA NextTyped == TypeOK /\ [Next]_vars => TypeOK'
  <1> SUFFICES ASSUME TypeOK, [Next]_vars PROVE TypeOK'
    OBVIOUS
  <1>1. ASSUME NEW r \in Requests, NEW i \in Invitations, BeginRedeem(r, i)  PROVE TypeOK'
    <2> DEFINE q == [Idle EXCEPT !.at = "redeem", !.code = i]
    <2>1. q \in Request /\ q.at = "redeem" /\ q.code = i
      BY Beginnings DEF Idle, Codes, Steps
    <2>2. BeginRequest(r, q)
      BY <1>1 DEF BeginRedeem
    <2> HIDE DEF q
    <2> QED
      BY <2>1, <2>2, Beginning DEF TypeOK, BeginRequest, counts
  <1>2. ASSUME NEW r \in Requests, NEW t \in Resets, BeginReset(r, t)  PROVE TypeOK'
    <2> DEFINE q == [Idle EXCEPT !.at = "claim", !.code = t]
    <2>1. q \in Request /\ q.at = "claim" /\ q.code = t
      BY Beginnings DEF Idle, Codes, Steps
    <2>2. BeginRequest(r, q)
      BY <1>2 DEF BeginReset
    <2> HIDE DEF q
    <2> QED
      BY <2>1, <2>2, Beginning DEF TypeOK, BeginRequest, counts
  <1>3. ASSUME NEW r \in Requests, NEW s \in DOMAIN sessions, BeginLogout(r, s)  PROVE TypeOK'
    <2> DEFINE q == [Idle EXCEPT !.at = "context", !.of = s]
    <2>0. s \in Nat
      BY LenProperties DEF TypeOK
    <2>1. q \in Request /\ q.at = "context" /\ q.of = s
      BY <2>0, Beginnings DEF Idle
    <2>2. BeginRequest(r, q)
      BY <1>3 DEF BeginLogout
    <2> HIDE DEF q
    <2> QED
      BY <2>1, <2>2, Beginning DEF TypeOK, BeginRequest, counts
  <1>4. ASSUME NEW r \in Requests, NEW new \in {"ACTIVE", "INACTIVE"}, BeginStatus(r, new)
        PROVE TypeOK'
    <2> DEFINE q == [Idle EXCEPT !.at = new]
    <2>1. q \in Request /\ q.at = new
      BY Beginnings DEF Idle, Steps
    <2>2. BeginRequest(r, q)
      BY <1>4 DEF BeginStatus
    <2> HIDE DEF q
    <2> QED
      BY <2>1, <2>2, Beginning DEF TypeOK, BeginRequest, counts
  <1>5. ASSUME NEW r \in Requests, BeginLogin(r)  PROVE TypeOK'
    <2> DEFINE q == [Idle EXCEPT !.at = "session"]
    <2>1. q \in Request /\ q.at = "session"
      BY Beginnings DEF Idle, Steps
    <2>2. BeginRequest(r, q)
      BY <1>5 DEF BeginLogin
    <2> HIDE DEF q
    <2> QED
      BY <2>1, <2>2, Beginning DEF TypeOK, BeginRequest, counts
  <1>6. ASSUME NEW r \in Requests, Redeem(r)  PROVE TypeOK'
    <2>1. request[r].code \in Invitations
      BY <1>6 DEF Redeem, TypeOK
    <2>2. /\ code' \in [Codes -> CodeStates] /\ uses' \in [Codes -> Nat]
          /\ status' \in Statuses /\ members' \subseteq Schools
      <3> DEFINE i == request[r].code
      <3>1. CASE Open(i) /\ schoolOf[i] \notin members
        <4>1. /\ code' = [code EXCEPT ![i] = "used"] /\ uses' = [uses EXCEPT ![i] = @ + 1]
              /\ status' = "ACTIVE" /\ members' = members \cup {schoolOf[i]}
          BY <1>6, <3>1 DEF Redeem
        <4> HIDE DEF i
        <4>2. code' \in [Codes -> CodeStates]
          BY <4>1 DEF TypeOK, CodeStates
        <4>3. uses' \in [Codes -> Nat]
          <5>1. uses \in [Codes -> Nat] /\ \A c \in Codes : uses[c] + 1 \in Nat
            BY DEF TypeOK
          <5> QED
            BY <4>1, <5>1
        <4>4. schoolOf[i] \in Schools
          BY <2>1 DEF TypeOK, i
        <4> QED
          BY <4>1, <4>2, <4>3, <4>4 DEF TypeOK, Statuses
      <3>2. CASE ~(Open(i) /\ schoolOf[i] \notin members)
        BY <1>6, <3>2 DEF Redeem, TypeOK
      <3> QED
        BY <3>1, <3>2
    <2>3. CASE Go(r, "session")
      BY <1>6, <2>2, <2>3, Going DEF Redeem, TypeOK, Steps
    <2>4. CASE Finish(r)
      BY <1>6, <2>2, <2>4, Finishing DEF Redeem, TypeOK
    <2> QED
      BY <1>6, <2>3, <2>4 DEF Redeem
  <1>7. ASSUME NEW r \in Requests, CreateSession(r)  PROVE TypeOK'
    <2> DEFINE n == [open |-> TRUE, resets |-> resets, closures |-> closures]
    <2>1. n \in Sessions
      BY DEF TypeOK, Sessions
    <2>2. sessions' = Append(sessions, n)
      BY <1>7 DEF CreateSession
    <2> HIDE DEF n
    <2>3. sessions' \in Seq(Sessions) /\ DOMAIN sessions \subseteq DOMAIN sessions'
      BY <2>1, <2>2, Opening DEF TypeOK
    <2> QED
      BY <1>7, <2>3, Finishing DEF CreateSession, TypeOK, counts
  <1>8. ASSUME NEW r \in Requests, Context(r)  PROVE TypeOK'
    <2>1. CASE Go(r, "revoke")
      BY <1>8, <2>1, Going DEF Context, TypeOK, counts, Steps
    <2>2. CASE Finish(r)
      BY <1>8, <2>2, Finishing DEF Context, TypeOK, counts
    <2> QED
      BY <1>8, <2>1, <2>2 DEF Context
  <1>9. ASSUME NEW r \in Requests, Revoke(r)  PROVE TypeOK'
    <2>1. sessions' \in Seq(Sessions) /\ DOMAIN sessions' = DOMAIN sessions
      BY <1>9, Revoking DEF Revoke, TypeOK
    <2> QED
      BY <1>9, <2>1, Finishing DEF Revoke, TypeOK, counts
  <1>10. ASSUME NEW r \in Requests, Claim(r)  PROVE TypeOK'
    <2>1. CASE Go(r, "password")
      BY <1>10, <2>1, Going DEF Claim, TypeOK, counts, CodeStates, Steps
    <2>2. CASE Finish(r)
      BY <1>10, <2>2, Finishing DEF Claim, TypeOK, counts, CodeStates
    <2> QED
      BY <1>10, <2>1, <2>2 DEF Claim
  <1>11. ASSUME NEW r \in Requests, SetPassword(r)  PROVE TypeOK'
    <2>1. uses' \in [Codes -> Nat] /\ resets' \in Nat /\ status' \in Statuses
      BY <1>11 DEF SetPassword, TypeOK, Codes, Statuses
    <2> QED
      BY <1>11, <2>1, Going DEF SetPassword, TypeOK, Steps
  <1>12. ASSUME NEW r \in Requests, RevokeAll(r)  PROVE TypeOK'
    <2>1. sessions' \in Seq(Sessions) /\ DOMAIN sessions' = DOMAIN sessions
      BY <1>12, Closing DEF RevokeAll, TypeOK
    <2> QED
      BY <1>12, <2>1, Finishing DEF RevokeAll, TypeOK, counts
  <1>13. ASSUME NEW r \in Requests, Activate(r)  PROVE TypeOK'
    BY <1>13, Finishing DEF Activate, TypeOK, counts, Statuses
  <1>14. ASSUME NEW r \in Requests, Deactivate(r)  PROVE TypeOK'
    BY <1>14, Going DEF Deactivate, TypeOK, Statuses, Steps
  <1>15. ASSUME NEW r \in Requests, Die(r)  PROVE TypeOK'
    BY <1>15, Finishing DEF Die, TypeOK, counts
  <1>16. ASSUME NEW c \in Codes, Issue(c) \/ Expire(c)  PROVE TypeOK'
    BY <1>16 DEF Issue, Expire, TypeOK, counts, CodeStates
  <1>17. CASE UNCHANGED vars
    BY <1>17 DEF vars, counts, TypeOK
  <1> QED
    BY <1>1, <1>2, <1>3, <1>4, <1>5, <1>6, <1>7, <1>8, <1>9, <1>10, <1>11, <1>12, <1>13,
       <1>14, <1>15, <1>16, <1>17 DEF Next

(* The account, its sessions, the codes and the requests have their types  *)
(* (auth.service.ts).                                                      *)
THEOREM TypeCorrect == Spec => []TypeOK
  BY InitTyped, NextTyped, PTL DEF Spec

-----------------------------------------------------------------------------
(* One-time codes.                                                         *)

(* Requests that are at "password" were there before, but for at most one. *)
LEMMA CodesStay ==
    ASSUME ClaimsAreExclusive, UNCHANGED <<code, uses>>,
           \A v \in Requests : request'[v].at = "password" => request'[v] = request[v]
    PROVE  ClaimsAreExclusive'
  BY DEF ClaimsAreExclusive

LEMMA InitExclusive == Init => ClaimsAreExclusive
  BY DEF Init, ClaimsAreExclusive, Idle, Codes

LEMMA NextExclusive == TypeOK /\ ClaimsAreExclusive /\ [Next]_vars => ClaimsAreExclusive'
  <1> SUFFICES ASSUME TypeOK, ClaimsAreExclusive, [Next]_vars PROVE ClaimsAreExclusive'
    OBVIOUS
  <1>1. ASSUME NEW r \in Requests, NEW q, BeginRequest(r, q), q.at # "password"
        PROVE ClaimsAreExclusive'
    BY <1>1, CodesStay DEF BeginRequest, counts, TypeOK
  <1>2. ASSUME NEW r \in Requests,
               \/ \E i \in Invitations : BeginRedeem(r, i)
               \/ \E t \in Resets : BeginReset(r, t)
               \/ \E s \in DOMAIN sessions : BeginLogout(r, s)
               \/ \E new \in {"ACTIVE", "INACTIVE"} : BeginStatus(r, new)
               \/ BeginLogin(r)
        PROVE ClaimsAreExclusive'
    BY <1>1, <1>2 DEF BeginRedeem, BeginReset, BeginLogout, BeginStatus, BeginLogin, Idle
  <1>3. ASSUME NEW r \in Requests, Redeem(r)  PROVE ClaimsAreExclusive'
    <2> DEFINE i == request[r].code
    <2>1. i \in Invitations
      BY <1>3 DEF Redeem, TypeOK
    <2>2. \A v \in Requests : request'[v].at = "password" => request'[v] = request[v]
      BY <1>3, Going, Finishing DEF Redeem, Steps
    <2>3. CASE Open(i) /\ schoolOf[i] \notin members
      <3>1. /\ code' = [code EXCEPT ![i] = "used"] /\ uses' = [uses EXCEPT ![i] = @ + 1]
            /\ code[i] = "open" /\ uses[i] = 0
        BY <1>3, <2>1, <2>3 DEF Redeem, Open, ClaimsAreExclusive, Codes
      <3>2. code'[i] = "used" /\ uses'[i] = 1
        BY <2>1, <3>1 DEF TypeOK, Codes
      <3>3. \A c \in Codes : c # i => code'[c] = code[c] /\ uses'[c] = uses[c]
        BY <3>1 DEF TypeOK
      <3>4. \A v \in Requests : request[v].at = "password" =>
               request[v].code # i /\ request[v].code \in Codes
        BY <3>1 DEF ClaimsAreExclusive, TypeOK, Codes
      <3> HIDE DEF i
      <3> QED
        BY <2>1, <2>2, <3>2, <3>3, <3>4 DEF ClaimsAreExclusive, Codes
    <2>4. CASE ~(Open(i) /\ schoolOf[i] \notin members)
      BY <1>3, <2>2, <2>4, CodesStay DEF Redeem
    <2> QED
      BY <2>3, <2>4
  <1>4. ASSUME NEW r \in Requests, Claim(r)  PROVE ClaimsAreExclusive'
    <2> DEFINE t == request[r].code
    <2>1. t \in Resets /\ t \notin Invitations
      BY <1>4, CodesApart DEF Claim, TypeOK
    <2>2. CASE Open(t)
      <3>1. Go(r, "password") /\ code' = [code EXCEPT ![t] = "used"] /\ uses' = uses
        BY <1>4, <2>2 DEF Claim, counts
      <3>2. code[t] = "open" /\ uses[t] = 0
        BY <2>1, <2>2 DEF Open, ClaimsAreExclusive, Codes
      <3>3. code'[t] = "used" /\ \A c \in Codes : c # t => code'[c] = code[c]
        BY <2>1, <3>1 DEF TypeOK, Codes
      <3>4. \A v \in Requests : request[v].at = "password" =>
               request[v].code # t /\ request[v].code \in Codes
        BY <3>2 DEF ClaimsAreExclusive, TypeOK, Codes
      <3>5. /\ request'[r].at = "password" /\ request'[r].code = t
            /\ \A v \in Requests : v # r => request'[v] = request[v]
        BY <3>1, Going DEF Steps
      <3> HIDE DEF t
      <3> QED
        BY <2>1, <3>1, <3>2, <3>3, <3>4, <3>5 DEF ClaimsAreExclusive, Codes
    <2>3. CASE ~Open(t)
      BY <1>4, <2>3, Finishing, CodesStay DEF Claim, counts
    <2> QED
      BY <2>2, <2>3
  <1>5. ASSUME NEW r \in Requests, SetPassword(r)  PROVE ClaimsAreExclusive'
    <2> DEFINE t == request[r].code
    <2>1. t \in Resets /\ t \notin Invitations /\ code[t] = "used" /\ uses[t] = 0
      BY <1>5, CodesApart DEF SetPassword, TypeOK, ClaimsAreExclusive
    <2>2. uses'[t] = 1 /\ \A c \in Codes : c # t => uses'[c] = uses[c]
      BY <1>5, <2>1 DEF SetPassword, TypeOK, Codes
    <2>3. \A v \in Requests : request'[v].at = "password" =>
             /\ v # r /\ request'[v] = request[v]
             /\ request[v].code # t /\ request[v].code \in Codes
      BY <1>5, Going DEF SetPassword, ClaimsAreExclusive, TypeOK, Codes, Steps
    <2>4. code' = code
      BY <1>5 DEF SetPassword
    <2> HIDE DEF t
    <2> QED
      BY <2>1, <2>2, <2>3, <2>4 DEF ClaimsAreExclusive, Codes
  <1>6. ASSUME NEW r \in Requests, CreateSession(r) \/ Revoke(r) \/ RevokeAll(r) \/ Activate(r) \/ Die(r)
        PROVE ClaimsAreExclusive'
    BY <1>6, Finishing, CodesStay DEF CreateSession, Revoke, RevokeAll, Activate, Die, counts
  <1>7. ASSUME NEW r \in Requests, Context(r) \/ Deactivate(r)  PROVE ClaimsAreExclusive'
    BY <1>7, Finishing, Going, CodesStay DEF Context, Deactivate, counts, Steps
  <1>8. ASSUME NEW c \in Codes, Issue(c) \/ Expire(c)  PROVE ClaimsAreExclusive'
    <2>1. code[c] # "used" /\ code'[c] # "used" /\ uses' = uses /\ request' = request
      BY <1>8 DEF Issue, Expire, Open, counts, TypeOK
    <2>2. \A d \in Codes : d # c => code'[d] = code[d]
      BY <1>8 DEF Issue, Expire, TypeOK
    <2>3. \A v \in Requests : request[v].at = "password" => request[v].code \in Codes
      BY DEF TypeOK, Codes
    <2> QED
      BY <2>1, <2>2, <2>3 DEF ClaimsAreExclusive, Codes
  <1>9. CASE UNCHANGED vars
    BY <1>9, CodesStay DEF vars, counts
  <1> QED
    BY <1>2, <1>3, <1>4, <1>5, <1>6, <1>7, <1>8, <1>9 DEF Next

(* Every code works at most once, whichever requests claim it together.    *)
THEOREM CodesWorkOnceHolds == Spec => []CodesWorkOnce
  <1>1. TypeOK /\ ClaimsAreExclusive => CodesWorkOnce
    BY DEF TypeOK, ClaimsAreExclusive, CodesWorkOnce
  <1> QED
    BY <1>1, InitTyped, NextTyped, InitExclusive, NextExclusive, PTL DEF Spec

-----------------------------------------------------------------------------
(* Invitations.                                                            *)

LEMMA InitWhole == Init => InvitationIsWhole
  BY DEF Init, InvitationIsWhole, Codes

(* Invitations that stay as they are, used or not. *)
LEMMA WholeStays ==
    ASSUME InvitationIsWhole, UNCHANGED <<schoolOf, members>>, status # "NONE" => status' # "NONE",
           \A i \in Invitations : code'[i] = "used" <=> code[i] = "used"
    PROVE  InvitationIsWhole'
  BY DEF InvitationIsWhole

LEMMA NextWhole == TypeOK /\ InvitationIsWhole /\ [Next]_vars => InvitationIsWhole'
  <1> SUFFICES ASSUME TypeOK, InvitationIsWhole, [Next]_vars PROVE InvitationIsWhole'
    OBVIOUS
  <1>1. ASSUME NEW r \in Requests, Redeem(r)  PROVE InvitationIsWhole'
    <2> DEFINE i == request[r].code
    <2>1. i \in Invitations /\ schoolOf' = schoolOf
      BY <1>1 DEF Redeem, TypeOK
    <2>2. CASE Open(i) /\ schoolOf[i] \notin members
      <3>1. /\ code' = [code EXCEPT ![i] = "used"] /\ status' = "ACTIVE"
            /\ members' = members \cup {schoolOf[i]}
        BY <1>1, <2>2 DEF Redeem
      <3>2. code'[i] = "used" /\ \A j \in Invitations : j # i => code'[j] = code[j]
        BY <2>1, <3>1 DEF TypeOK, Codes
      <3>3. \A j \in Invitations : code[j] = "used" => schoolOf[j] # schoolOf[i]
        BY <2>2 DEF InvitationIsWhole
      <3> HIDE DEF i
      <3> QED
        BY <2>1, <3>1, <3>2, <3>3 DEF InvitationIsWhole
    <2>3. CASE ~(Open(i) /\ schoolOf[i] \notin members)
      BY <1>1, <2>1, <2>3, WholeStays DEF Redeem
    <2> QED
      BY <2>2, <2>3
  <1>2. ASSUME NEW r \in Requests, Claim(r)  PROVE InvitationIsWhole'
    <2>1. request[r].code \notin Invitations
      BY <1>2, CodesApart DEF Claim, TypeOK
    <2>2. \A i \in Invitations : code'[i] = code[i]
      BY <1>2, <2>1 DEF Claim, TypeOK, Codes
    <2> QED
      BY <1>2, <2>2, WholeStays DEF Claim
  <1>3. ASSUME NEW c \in Codes, Issue(c) \/ Expire(c)  PROVE InvitationIsWhole'
    <2>1. \A i \in Invitations : code'[i] = "used" <=> code[i] = "used"
      BY <1>3 DEF Issue, Expire, Open, TypeOK, Codes
    <2> QED
      BY <1>3, <2>1, WholeStays DEF Issue, Expire
  <1>4. ASSUME NEW r \in Requests,
               SetPassword(r) \/ Activate(r) \/ Deactivate(r)
        PROVE InvitationIsWhole'
    BY <1>4, WholeStays DEF SetPassword, Activate, Deactivate
  <1>5. ASSUME NEW r \in Requests,
               CreateSession(r) \/ Context(r) \/ Revoke(r) \/ RevokeAll(r) \/ Die(r)
        PROVE InvitationIsWhole'
    BY <1>5, WholeStays DEF CreateSession, Context, Revoke, RevokeAll, Die
  <1>6. ASSUME NEW r \in Requests, NEW q, BeginRequest(r, q)  PROVE InvitationIsWhole'
    BY <1>6, WholeStays DEF BeginRequest
  <1>7. ASSUME NEW r \in Requests,
               \/ \E i \in Invitations : BeginRedeem(r, i)
               \/ \E t \in Resets : BeginReset(r, t)
               \/ \E s \in DOMAIN sessions : BeginLogout(r, s)
               \/ \E new \in {"ACTIVE", "INACTIVE"} : BeginStatus(r, new)
               \/ BeginLogin(r)
        PROVE InvitationIsWhole'
    BY <1>6, <1>7 DEF BeginRedeem, BeginReset, BeginLogout, BeginStatus, BeginLogin
  <1>8. CASE UNCHANGED vars
    BY <1>8, WholeStays DEF vars
  <1> QED
    BY <1>1, <1>2, <1>3, <1>4, <1>5, <1>7, <1>8 DEF Next

(* A used invitation and the membership it is for come together, and no    *)
(* two used invitations gave the same membership.                          *)
THEOREM InvitationIsWholeHolds == Spec => []InvitationIsWhole
  BY InitTyped, NextTyped, InitWhole, NextWhole, PTL DEF Spec

-----------------------------------------------------------------------------
(* Sessions.                                                               *)

Awaited == \E r \in Requests : request[r].at = "revokeAll"
Current(s) == sessions[s].open => sessions[s].resets = resets /\ sessions[s].closures = closures

LEMMA InitRevocation == Init => RevocationComes
  BY DEF Init, RevocationComes

(* Requests at "revokeAll" and the sessions stay as they are.              *)
LEMMA RevocationStays ==
    ASSUME RevocationComes, UNCHANGED <<failed, sessions, resets, closures>>,
           \A v \in Requests : request[v].at = "revokeAll" => request'[v] = request[v]
    PROVE  RevocationComes'
  <1> SUFFICES ASSUME failed = 0
               PROVE  Awaited' \/ \A s \in DOMAIN sessions : Current(s)
    BY DEF RevocationComes, Awaited, Current
  <1>1. CASE Awaited
    BY <1>1 DEF Awaited
  <1>2. CASE ~Awaited
    BY <1>2 DEF RevocationComes, Awaited, Current
  <1> QED
    BY <1>1, <1>2

LEMMA NextRevocation == TypeOK /\ RevocationComes /\ [Next]_vars => RevocationComes'
  <1> SUFFICES ASSUME TypeOK, RevocationComes, [Next]_vars PROVE RevocationComes'
    OBVIOUS
  <1>1. ASSUME NEW r \in Requests, RevokeAll(r)  PROVE RevocationComes'
    BY <1>1, Closing DEF RevokeAll, TypeOK, RevocationComes
  <1>2. ASSUME NEW r \in Requests, SetPassword(r) \/ Deactivate(r)  PROVE RevocationComes'
    BY <1>2, Going DEF SetPassword, Deactivate, RevocationComes, Steps
  <1>3. ASSUME NEW r \in Requests, Die(r)  PROVE RevocationComes'
    BY <1>3 DEF Die, TypeOK, RevocationComes
  <1>4. ASSUME NEW r \in Requests, CreateSession(r)  PROVE RevocationComes'
    <2> DEFINE n == [open |-> TRUE, resets |-> resets, closures |-> closures]
    <2>1. n \in Sessions /\ n.resets = resets /\ n.closures = closures
      BY DEF TypeOK, Sessions
    <2>2. sessions' = Append(sessions, n) /\ UNCHANGED <<failed, resets, closures>>
      BY <1>4 DEF CreateSession, counts
    <2>3. \A v \in Requests : request[v].at = "revokeAll" => request'[v] = request[v]
      BY <1>4, Finishing DEF CreateSession
    <2> HIDE DEF n
    <2>4. \A x \in DOMAIN sessions' :
             (x \in DOMAIN sessions /\ sessions'[x] = sessions[x]) \/ sessions'[x] = n
      BY <2>1, <2>2, Opening DEF TypeOK
    <2> QED
      BY <2>1, <2>2, <2>3, <2>4 DEF RevocationComes
  <1>5. ASSUME NEW r \in Requests, Revoke(r)  PROVE RevocationComes'
    <2>1. /\ DOMAIN sessions' = DOMAIN sessions
          /\ \A x \in DOMAIN sessions' : sessions'[x].open => sessions'[x] = sessions[x]
      BY <1>5, Revoking DEF Revoke, TypeOK
    <2>2. \A v \in Requests : request[v].at = "revokeAll" => request'[v] = request[v]
      BY <1>5, Finishing DEF Revoke
    <2>3. UNCHANGED <<failed, resets, closures>>
      BY <1>5 DEF Revoke, counts
    <2> QED
      BY <2>1, <2>2, <2>3 DEF RevocationComes
  <1>6. ASSUME NEW r \in Requests, Redeem(r) \/ Context(r) \/ Claim(r) \/ Activate(r)
        PROVE RevocationComes'
    <2>1. \A v \in Requests : request[v].at = "revokeAll" => request'[v] = request[v]
      BY <1>6, Finishing, Going DEF Redeem, Context, Claim, Activate, Steps
    <2> QED
      BY <1>6, <2>1, RevocationStays DEF Redeem, Context, Claim, Activate, counts
  <1>7. ASSUME NEW r \in Requests, NEW q, BeginRequest(r, q)  PROVE RevocationComes'
    BY <1>7, RevocationStays DEF BeginRequest, Busy, TypeOK, counts
  <1>8. ASSUME NEW r \in Requests,
               \/ \E i \in Invitations : BeginRedeem(r, i)
               \/ \E t \in Resets : BeginReset(r, t)
               \/ \E s \in DOMAIN sessions : BeginLogout(r, s)
               \/ \E new \in {"ACTIVE", "INACTIVE"} : BeginStatus(r, new)
               \/ BeginLogin(r)
        PROVE RevocationComes'
    BY <1>7, <1>8 DEF BeginRedeem, BeginReset, BeginLogout, BeginStatus, BeginLogin
  <1>9. ASSUME NEW c \in Codes, Issue(c) \/ Expire(c)  PROVE RevocationComes'
    BY <1>9, RevocationStays DEF Issue, Expire, counts
  <1>10. CASE UNCHANGED vars
    BY <1>10, RevocationStays DEF vars, counts
  <1> QED
    BY <1>1, <1>2, <1>3, <1>4, <1>5, <1>6, <1>8, <1>9, <1>10 DEF Next

LEMMA RevocationSuffices == RevocationComes => ResetCloses /\ DeactivationCloses
  BY DEF RevocationComes, ResetCloses, DeactivationCloses, Settled, Busy

(* With no failure, no session opened before a reset's new password stays  *)
(* open once the requests have ended, however many overlap.                *)
THEOREM ResetClosesHolds == Spec => []ResetCloses
  BY InitTyped, NextTyped, InitRevocation, NextRevocation, RevocationSuffices, PTL DEF Spec

(* With no failure, nor does one opened before a deactivation.             *)
THEOREM DeactivationClosesHolds == Spec => []DeactivationCloses
  BY InitTyped, NextTyped, InitRevocation, NextRevocation, RevocationSuffices, PTL DEF Spec

-----------------------------------------------------------------------------
(* The promise.  Besides the exclusive claims, a change of status is asked *)
(* only of an account that exists, and an account never ceases to exist.   *)
StatusKnown ==
    \A r \in Requests : request[r].at \in {"ACTIVE", "INACTIVE"} => status # "NONE"

LEMMA InitKnown == Init => StatusKnown
  BY DEF Init, StatusKnown, Idle

LEMMA NextKnown == TypeOK /\ StatusKnown /\ [Next]_vars => StatusKnown'
  <1> SUFFICES ASSUME TypeOK, StatusKnown, [Next]_vars PROVE StatusKnown'
    OBVIOUS
  <1>1. ASSUME NEW r \in Requests, NEW q, BeginRequest(r, q),
               q.at \in {"ACTIVE", "INACTIVE"} => status # "NONE"
        PROVE StatusKnown'
    BY <1>1 DEF BeginRequest, StatusKnown, TypeOK
  <1>2. ASSUME NEW r \in Requests,
               \/ \E i \in Invitations : BeginRedeem(r, i)
               \/ \E t \in Resets : BeginReset(r, t)
               \/ \E s \in DOMAIN sessions : BeginLogout(r, s)
               \/ \E new \in {"ACTIVE", "INACTIVE"} : BeginStatus(r, new)
               \/ BeginLogin(r)
        PROVE StatusKnown'
    BY <1>1, <1>2 DEF BeginRedeem, BeginReset, BeginLogout, BeginStatus, BeginLogin, Idle
  <1>3. ASSUME NEW r \in Requests,
               \/ Redeem(r) \/ Claim(r) \/ Context(r) \/ CreateSession(r) \/ Revoke(r)
               \/ RevokeAll(r) \/ SetPassword(r) \/ Activate(r) \/ Deactivate(r) \/ Die(r)
        PROVE StatusKnown'
    <2>1. \A v \in Requests : request'[v].at \in {"ACTIVE", "INACTIVE"} => request'[v] = request[v]
      BY <1>3, Going, Finishing DEF Redeem, Claim, Context, CreateSession, Revoke, RevokeAll,
         SetPassword, Activate, Deactivate, Die, Steps
    <2>2. status # "NONE" => status' # "NONE"
      BY <1>3 DEF Redeem, Claim, Context, CreateSession, Revoke, RevokeAll, SetPassword,
         Activate, Deactivate, Die
    <2> QED
      BY <2>1, <2>2 DEF StatusKnown
  <1>4. ASSUME NEW c \in Codes, Issue(c) \/ Expire(c)  PROVE StatusKnown'
    BY <1>4 DEF Issue, Expire, StatusKnown
  <1>5. CASE UNCHANGED vars
    BY <1>5 DEF vars, StatusKnown
  <1> QED
    BY <1>2, <1>3, <1>4, <1>5 DEF Next

(* A code keeps its fate while nobody writes it and it stays in, or out    *)
(* of, a request's hands.                                                  *)
LEMMA FateStays ==
    ASSUME NEW c \in Codes, code'[c] = code[c], uses'[c] = uses[c],
           \A v \in Requests : (request'[v].at = "password" /\ request'[v].code = c)
                                  <=> (request[v].at = "password" /\ request[v].code = c)
    PROVE  Fate(c)' = Fate(c)
  BY DEF Fate, InHand

LEMMA FatesStay ==
    ASSUME UNCHANGED <<code, uses>>,
           \A v \in Requests :
              \/ request'[v] = request[v]
              \/ request'[v].at # "password" /\ request[v].at # "password"
    PROVE  Fates' = Fates
  <1>1. ASSUME NEW c \in Codes PROVE Fate(c)' = Fate(c)
    BY FateStays
  <1> QED
    BY <1>1 DEF Fates

(* The step that decides one code's fate leaves the others theirs.         *)
LEMMA FateBecomes ==
    ASSUME NEW c \in Codes, NEW old, NEW new,
           Fate(c) = old, Fate(c)' = new,
           \A d \in Codes \ {c} : Fate(d)' = Fate(d)
    PROVE  Promise!Becomes(c, old, new)
  <1>1. Fates[c] = old
    BY DEF Fates
  <1>2. Fates' = [Fates EXCEPT ![c] = new]
    BY DEF Fates
  <1> QED
    BY <1>1, <1>2 DEF Promise!Becomes

(* The request a step ends or moves on is the one admitted or no longer.   *)
LEMMA AdmittedNext ==
    ASSUME NEW r \in Requests, \A v \in Requests : v # r => request'[v] = request[v]
    PROVE  /\ request'[r].at = "session" => Admitted' = Admitted \cup {r}
           /\ request'[r].at # "session" => Admitted' = Admitted \ {r}
  BY DEF Admitted

LEMMA StartStep ==
    ASSUME TypeOK, NEW r \in Requests,
           \/ \E i \in Invitations : BeginRedeem(r, i)
           \/ \E t \in Resets : BeginReset(r, t)
           \/ \E s \in DOMAIN sessions : BeginLogout(r, s)
           \/ \E new \in {"ACTIVE", "INACTIVE"} : BeginStatus(r, new)
           \/ BeginLogin(r)
    PROVE  [Promise!Next]_(Promise!accountVars)
  <1>1. ASSUME NEW q \in Request, BeginRequest(r, q), q.at # "password"
        PROVE  /\ UNCHANGED <<schoolOf, Fates, status, members, resets, sessions, OpenSessions>>
               /\ q.at = "session" => Admitted' = Admitted \cup {r}
               /\ q.at # "session" => Admitted' = Admitted
    <2>1. /\ request'[r] = q /\ request[r].at = "idle"
          /\ \A v \in Requests : v # r => request'[v] = request[v]
      BY <1>1, Beginning
    <2>2. UNCHANGED <<schoolOf, code, uses, status, members, resets, sessions>>
      BY <1>1 DEF BeginRequest, counts
    <2>3. Fates' = Fates
      BY <1>1, <2>1, <2>2, FatesStay
    <2>4. r \notin Admitted
      BY <2>1 DEF Admitted
    <2>5. Admitted' = IF q.at = "session" THEN Admitted \cup {r} ELSE Admitted
      BY <2>1, <2>4, AdmittedNext
    <2> QED
      BY <2>2, <2>3, <2>5 DEF OpenSessions
  <1>2. CASE BeginLogin(r)
    <2> DEFINE q == [Idle EXCEPT !.at = "session"]
    <2>1. q \in Request /\ q.at = "session"
      BY Beginnings DEF Idle, Steps
    <2>2. BeginRequest(r, q) /\ status = "ACTIVE" /\ members # {}
      BY <1>2 DEF BeginLogin
    <2> HIDE DEF q
    <2>3. Promise!Admit(r)
      BY <1>1, <2>1, <2>2 DEF Promise!Admit
    <2> QED
      BY <2>3 DEF Promise!Next
  <1>3. ASSUME NEW q \in Request, BeginRequest(r, q), q.at \notin {"password", "session"}
        PROVE  UNCHANGED Promise!accountVars
    BY <1>1, <1>3 DEF Promise!accountVars
  <1>4. CASE \E i \in Invitations : BeginRedeem(r, i)
    <2> PICK i \in Invitations : BeginRedeem(r, i)
      BY <1>4
    <2> QED
      BY <1>3, Beginnings DEF BeginRedeem, Idle, Codes, Steps
  <1>5. CASE \E t \in Resets : BeginReset(r, t)
    <2> PICK t \in Resets : BeginReset(r, t)
      BY <1>5
    <2> QED
      BY <1>3, Beginnings DEF BeginReset, Idle, Codes, Steps
  <1>6. CASE \E s \in DOMAIN sessions : BeginLogout(r, s)
    <2> PICK s \in DOMAIN sessions : BeginLogout(r, s)
      BY <1>6
    <2>1. s \in Nat
      BY LenProperties DEF TypeOK
    <2> QED
      BY <1>3, <2>1, Beginnings DEF BeginLogout, Idle
  <1>7. CASE \E new \in {"ACTIVE", "INACTIVE"} : BeginStatus(r, new)
    <2> PICK new \in {"ACTIVE", "INACTIVE"} : BeginStatus(r, new)
      BY <1>7
    <2> QED
      BY <1>3, Beginnings DEF BeginStatus, Idle, Steps
  <1> QED
    BY <1>2, <1>4, <1>5, <1>6, <1>7

LEMMA RedeemStep ==
    ASSUME TypeOK, ClaimsAreExclusive, NEW r \in Requests, Redeem(r)
    PROVE  [Promise!Next]_(Promise!accountVars)
  <1> PICK i \in Invitations : i = request[r].code
    BY DEF Redeem, TypeOK
  <1>1. i \in Codes /\ request[r].at = "redeem"
    BY DEF Redeem, Codes
  <1>2. UNCHANGED <<schoolOf, resets, sessions, OpenSessions>>
    BY DEF Redeem, OpenSessions
  <1>3. r \notin Admitted
    BY <1>1 DEF Admitted
  <1>4. CASE Open(i) /\ schoolOf[i] \notin members
    <2>1. /\ code' = [code EXCEPT ![i] = "used"] /\ uses' = [uses EXCEPT ![i] = @ + 1]
          /\ status' = "ACTIVE" /\ members' = members \cup {schoolOf[i]}
          /\ Go(r, "session") /\ code[i] = "open" /\ uses[i] = 0
      BY <1>1, <1>4 DEF Redeem, Open, ClaimsAreExclusive
    <2>2. code'[i] = "used" /\ uses'[i] = 1
          /\ \A c \in Codes \ {i} : code'[c] = code[c] /\ uses'[c] = uses[c]
      BY <1>1, <2>1 DEF TypeOK
    <2>3. /\ request'[r].at = "session"
          /\ \A v \in Requests : v # r => request'[v] = request[v]
      BY <2>1, Going DEF Steps
    <2>4. Fate(i) = "open" /\ Fate(i)' = "used"
      BY <2>1, <2>2 DEF Fate
    <2>5. \A c \in Codes \ {i} : Fate(c)' = Fate(c)
      BY <1>1, <2>2, <2>3, FateStays
    <2>6. Promise!Becomes(i, "open", "used")
      BY <1>1, <2>4, <2>5, FateBecomes
    <2>7. Admitted' = Admitted \cup {r}
      BY <2>3, AdmittedNext
    <2>8. Promise!Redeem(r, i)
      BY <1>2, <1>4, <2>1, <2>6, <2>7 DEF Promise!Redeem
    <2> QED
      BY <1>1, <2>8 DEF Promise!Next
  <1>5. CASE ~(Open(i) /\ schoolOf[i] \notin members)
    <2>1. Finish(r) /\ UNCHANGED <<code, uses, status, members>>
      BY <1>5 DEF Redeem
    <2>2. Admitted' = Admitted
      BY <1>3, <2>1, Finishing, AdmittedNext
    <2>3. Fates' = Fates
      BY <1>1, <2>1, Finishing, FatesStay
    <2> QED
      BY <1>2, <2>1, <2>2, <2>3 DEF Promise!accountVars
  <1> QED
    BY <1>4, <1>5

LEMMA ClaimStep ==
    ASSUME TypeOK, ClaimsAreExclusive, NEW r \in Requests, Claim(r)
    PROVE  [Promise!Next]_(Promise!accountVars)
  <1> PICK t \in Resets : t = request[r].code
    BY DEF Claim, TypeOK
  <1>1. t \in Codes /\ request[r].at = "claim"
    BY DEF Claim, Codes
  <1>2. UNCHANGED <<schoolOf, status, members, resets, uses, sessions, OpenSessions>>
    BY DEF Claim, OpenSessions, counts
  <1>3. r \notin Admitted
    BY <1>1 DEF Admitted
  <1>4. CASE Open(t)
    <2>1. code' = [code EXCEPT ![t] = "used"] /\ Go(r, "password") /\ code[t] = "open"
      BY <1>4 DEF Claim, Open
    <2>2. code'[t] = "used" /\ uses[t] = 0 /\ \A c \in Codes \ {t} : code'[c] = code[c]
      BY <1>1, <2>1 DEF TypeOK, ClaimsAreExclusive
    <2>3. /\ request'[r].at = "password" /\ request'[r].code = t
          /\ \A v \in Requests : v # r => request'[v] = request[v]
      BY <2>1, Going DEF Steps
    <2>4. Fate(t) = "open" /\ Fate(t)' = "taken"
      BY <1>2, <2>1, <2>2, <2>3 DEF Fate, InHand
    <2>5. \A c \in Codes \ {t} : Fate(c)' = Fate(c)
      BY <1>1, <1>2, <2>2, <2>3, FateStays
    <2>6. Promise!Becomes(t, "open", "taken")
      BY <1>1, <2>4, <2>5, FateBecomes
    <2>7. Admitted' = Admitted
      BY <1>3, <2>3, AdmittedNext
    <2>8. Promise!Take(t)
      BY <1>2, <2>6, <2>7 DEF Promise!Take
    <2> QED
      BY <1>1, <2>8 DEF Promise!Next
  <1>5. CASE ~Open(t)
    <2>1. Finish(r) /\ UNCHANGED code
      BY <1>5 DEF Claim
    <2>2. Admitted' = Admitted
      BY <1>1, <1>3, <2>1, Finishing, AdmittedNext
    <2>3. Fates' = Fates
      BY <1>1, <1>2, <2>1, Finishing, FatesStay
    <2> QED
      BY <1>2, <2>1, <2>2, <2>3 DEF Promise!accountVars
  <1> QED
    BY <1>4, <1>5

LEMMA PasswordStep ==
    ASSUME TypeOK, ClaimsAreExclusive, NEW r \in Requests, SetPassword(r)
    PROVE  Promise!Next
  <1> PICK t \in Resets : t = request[r].code
    BY DEF SetPassword, TypeOK
  <1>1. t \in Codes /\ request[r].at = "password" /\ code[t] = "used" /\ uses[t] = 0
    BY DEF SetPassword, ClaimsAreExclusive, Codes
  <1>2. /\ UNCHANGED <<schoolOf, code, members, sessions, OpenSessions>>
        /\ status' = "ACTIVE" /\ resets' = resets + 1
        /\ uses' = [uses EXCEPT ![t] = @ + 1]
    BY DEF SetPassword, OpenSessions
  <1>3. uses'[t] = 1 /\ \A c \in Codes \ {t} : uses'[c] = uses[c]
    BY <1>1, <1>2 DEF TypeOK
  <1>4. /\ request'[r].at = "revokeAll"
        /\ \A v \in Requests : v # r => request'[v] = request[v]
    BY Going DEF SetPassword, Steps
  <1>5. Fate(t) = "taken"
    BY <1>1 DEF Fate, InHand
  <1>6. Fate(t)' = "used"
    BY <1>1, <1>2, <1>3 DEF Fate
  <1>7. \A c \in Codes \ {t} : Fate(c)' = Fate(c)
    BY <1>1, <1>2, <1>3, <1>4, FateStays
  <1>8. Promise!Becomes(t, "taken", "used")
    BY <1>1, <1>5, <1>6, <1>7, FateBecomes
  <1>9. Admitted' = Admitted
    BY <1>1, <1>4, AdmittedNext DEF Admitted
  <1>10. Promise!Reset(t)
    BY <1>2, <1>8, <1>9 DEF Promise!Reset
  <1> QED
    BY <1>1, <1>10 DEF Promise!Next

LEMMA DieStep ==
    ASSUME TypeOK, ClaimsAreExclusive, NEW r \in Requests, Die(r)
    PROVE  Promise!Next
  <1>1. UNCHANGED <<schoolOf, code, status, members, resets, uses, sessions, OpenSessions>>
    BY DEF Die, OpenSessions, counts
  <1>2. /\ request'[r].at = "idle"
        /\ \A v \in Requests : v # r => request'[v] = request[v]
    BY Finishing DEF Die
  <1>3. Admitted' = Admitted \ {r}
    BY <1>2, AdmittedNext
  <1>4. CASE request[r].at = "password"
    <2> PICK t \in Resets : t = request[r].code
      BY <1>4 DEF TypeOK
    <2>1. t \in Codes /\ code[t] = "used" /\ uses[t] = 0
      BY <1>4 DEF ClaimsAreExclusive, Codes
    <2>2. Fate(t) = "taken"
      BY <1>4, <2>1 DEF Fate, InHand
    <2>3. Fate(t)' = "wasted"
      BY <1>1, <1>2, <1>4, <2>1 DEF Fate, InHand, ClaimsAreExclusive
    <2>4. \A c \in Codes \ {t} : Fate(c)' = Fate(c)
      BY <1>1, <1>2, <1>4, FateStays
    <2>5. Promise!Becomes(t, "taken", "wasted")
      BY <2>1, <2>2, <2>3, <2>4, FateBecomes
    <2>6. Promise!Waste(t)
      BY <1>1, <1>3, <1>4, <2>5 DEF Promise!Waste, Admitted
    <2> QED
      BY <2>1, <2>6 DEF Promise!Next
  <1>5. CASE request[r].at # "password"
    <2>1. Fates' = Fates
      BY <1>1, <1>2, <1>5, FatesStay
    <2>2. Promise!GiveUp(r)
      BY <1>1, <1>3, <2>1 DEF Promise!GiveUp
    <2> QED
      BY <2>2 DEF Promise!Next
  <1> QED
    BY <1>4, <1>5

(* A step of r on the sessions or the status only.                         *)
LEMMA QuietFates ==
    ASSUME UNCHANGED <<code, uses>>, NEW r \in Requests,
           request[r].at # "password", request'[r].at # "password",
           \A v \in Requests : v # r => request'[v] = request[v]
    PROVE  /\ Fates' = Fates
           /\ request[r].at # "session" /\ request'[r].at # "session" => Admitted' = Admitted
  BY FatesStay, AdmittedNext DEF Admitted

LEMMA OpeningOpens ==
    ASSUME sessions \in Seq(Sessions), NEW n \in Sessions, n.open, sessions' = Append(sessions, n)
    PROVE  /\ Len(sessions') = Len(sessions) + 1
           /\ OpenSessions' = OpenSessions \cup {Len(sessions')}
  <1>1. sessions \in [1..Len(sessions) -> Sessions] /\ Len(sessions) \in Nat
    BY LenProperties
  <1>2. /\ sessions' \in Seq(Sessions) /\ Len(sessions') = Len(sessions) + 1
        /\ \A x \in 1..Len(sessions) : sessions'[x] = sessions[x]
        /\ sessions'[Len(sessions) + 1] = n
    BY <1>1
  <1>3. DOMAIN sessions' = 1..(Len(sessions) + 1) /\ DOMAIN sessions = 1..Len(sessions)
    BY <1>1, <1>2, LenProperties
  <1>4. DOMAIN sessions' = DOMAIN sessions \cup {Len(sessions) + 1}
    BY <1>1, <1>3
  <1> QED
    BY <1>2, <1>3, <1>4 DEF OpenSessions

(* Revoking one session, or all, closes open ones and nothing else.        *)
LEMMA RevokingCloses ==
    ASSUME sessions \in Seq(Sessions),
           \/ \E s \in DOMAIN sessions : sessions' = [sessions EXCEPT ![s].open = FALSE]
           \/ sessions' = [s \in DOMAIN sessions |-> [sessions[s] EXCEPT !.open = FALSE]]
    PROVE  /\ Len(sessions') = Len(sessions)
           /\ \E some \in SUBSET (1..Len(sessions)) : OpenSessions' = OpenSessions \ some
  <1>1. sessions' \in Seq(Sessions) /\ DOMAIN sessions' = DOMAIN sessions
    BY Revoking, Closing
  <1>2. /\ DOMAIN sessions = 1..Len(sessions) /\ DOMAIN sessions' = 1..Len(sessions')
        /\ Len(sessions) \in Nat /\ Len(sessions') \in Nat
    BY <1>1, LenProperties
  <1>3. Len(sessions') = Len(sessions)
    BY <1>1, <1>2
  <1>4. \A x \in DOMAIN sessions' : sessions'[x].open => sessions'[x] = sessions[x]
    BY Revoking, Closing
  <1>5. OpenSessions' \subseteq OpenSessions /\ OpenSessions \subseteq 1..Len(sessions)
    BY <1>1, <1>2, <1>4 DEF OpenSessions
  <1>6. OpenSessions' = OpenSessions \ (OpenSessions \ OpenSessions')
    BY <1>5
  <1> QED
    BY <1>3, <1>5, <1>6

LEMMA SessionStep ==
    ASSUME TypeOK, NEW r \in Requests,
           CreateSession(r) \/ Context(r) \/ Revoke(r) \/ RevokeAll(r)
    PROVE  [Promise!Next]_(Promise!accountVars)
  <1>1. UNCHANGED <<schoolOf, code, status, members, resets, uses>>
    BY DEF CreateSession, Context, Revoke, RevokeAll, counts
  <1>2. /\ request[r].at \in {"session", "context", "revoke", "revokeAll"}
        /\ request'[r].at \in {"idle", "revoke"}
        /\ \A v \in Requests : v # r => request'[v] = request[v]
    BY Going, Finishing DEF CreateSession, Context, Revoke, RevokeAll, Steps
  <1>3. Fates' = Fates /\ (request[r].at # "session" => Admitted' = Admitted)
    BY <1>1, <1>2, QuietFates
  <1>4. CASE CreateSession(r)
    <2> DEFINE n == [open |-> TRUE, resets |-> resets, closures |-> closures]
    <2>1. n \in Sessions /\ n.open
      BY DEF TypeOK, Sessions
    <2>2. sessions' = Append(sessions, n) /\ request[r].at = "session"
      BY <1>4 DEF CreateSession
    <2> HIDE DEF n
    <2>3. /\ Len(sessions') = Len(sessions) + 1
          /\ OpenSessions' = OpenSessions \cup {Len(sessions')}
      BY <2>1, <2>2, OpeningOpens DEF TypeOK
    <2>4. r \in Admitted /\ Admitted' = Admitted \ {r}
      BY <1>2, <2>2, AdmittedNext DEF Admitted
    <2>5. Promise!SignIn(r)
      BY <1>1, <1>3, <2>3, <2>4 DEF Promise!SignIn
    <2> QED
      BY <2>5 DEF Promise!Next
  <1>5. CASE Context(r)
    BY <1>1, <1>3, <1>5 DEF Context, Promise!accountVars, OpenSessions
  <1>6. CASE Revoke(r) \/ RevokeAll(r)
    <2>1. \/ \E s \in DOMAIN sessions : sessions' = [sessions EXCEPT ![s].open = FALSE]
          \/ sessions' = [s \in DOMAIN sessions |-> [sessions[s] EXCEPT !.open = FALSE]]
      BY <1>6 DEF Revoke, RevokeAll, TypeOK
    <2>2. request[r].at # "session"
      BY <1>6 DEF Revoke, RevokeAll
    <2> PICK some \in SUBSET (1..Len(sessions)) : OpenSessions' = OpenSessions \ some
      BY <2>1, RevokingCloses DEF TypeOK
    <2>3. Len(sessions') = Len(sessions)
      BY <2>1, RevokingCloses DEF TypeOK
    <2>4. Promise!Close(some)
      BY <1>1, <1>3, <2>2, <2>3 DEF Promise!Close
    <2> QED
      BY <2>4 DEF Promise!Next
  <1> QED
    BY <1>4, <1>5, <1>6

LEMMA StatusStep ==
    ASSUME TypeOK, StatusKnown, NEW r \in Requests, Activate(r) \/ Deactivate(r)
    PROVE  Promise!Next
  <1>1. UNCHANGED <<schoolOf, code, members, resets, uses, sessions, OpenSessions>>
    BY DEF Activate, Deactivate, counts, OpenSessions
  <1>2. /\ request[r].at \in {"ACTIVE", "INACTIVE"} /\ status' = request[r].at
        /\ request'[r].at \in {"idle", "revokeAll"}
        /\ \A v \in Requests : v # r => request'[v] = request[v]
    BY Going, Finishing DEF Activate, Deactivate, Steps
  <1>3. Fates' = Fates /\ Admitted' = Admitted
    BY <1>1, <1>2, QuietFates
  <1>4. status # "NONE"
    BY <1>2 DEF StatusKnown
  <1>5. Promise!SetStatus(request[r].at)
    BY <1>1, <1>2, <1>3, <1>4 DEF Promise!SetStatus
  <1> QED
    BY <1>2, <1>5 DEF Promise!Next

LEMMA CodeStep ==
    ASSUME TypeOK, NEW c \in Codes, Issue(c) \/ Expire(c)
    PROVE  Promise!Next
  <1>1. UNCHANGED <<schoolOf, status, members, resets, uses, sessions, request,
                    OpenSessions, Admitted>>
    BY DEF Issue, Expire, counts, OpenSessions, Admitted
  <1>2. \A d \in Codes \ {c} : Fate(d)' = Fate(d)
    BY <1>1, FateStays DEF Issue, Expire, TypeOK
  <1>3. CASE Issue(c)
    <2>1. code[c] = "unissued" /\ code'[c] = "open"
      BY <1>3 DEF Issue, TypeOK
    <2>2. Promise!Becomes(c, "unissued", "open")
      BY <1>2, <2>1, FateBecomes DEF Fate
    <2>3. Promise!Issue(c)
      BY <1>1, <1>3, <2>2 DEF Issue, Promise!Issue
    <2> QED
      BY <2>3 DEF Promise!Next, Codes
  <1>4. CASE Expire(c)
    <2>1. code[c] = "open" /\ code'[c] = "expired"
      BY <1>4 DEF Expire, Open, TypeOK
    <2>2. Promise!Becomes(c, "open", "expired")
      BY <1>2, <2>1, FateBecomes DEF Fate
    <2>3. Promise!Expire(c)
      BY <1>1, <2>2 DEF Promise!Expire
    <2> QED
      BY <2>3 DEF Promise!Next, Codes
  <1> QED
    BY <1>3, <1>4

LEMMA PromiseStarts == Init => Promise!Init
  <1> SUFFICES ASSUME Init PROVE Promise!Init
    OBVIOUS
  <1>1. Fates = [c \in Codes |-> "unissued"]
    BY DEF Init, Fates, Fate
  <1>2. Admitted = {} /\ OpenSessions = {} /\ Len(sessions) = 0
    BY DEF Init, Admitted, OpenSessions, Idle
  <1> QED
    BY <1>1, <1>2 DEF Init, Promise!Init, Codes

LEMMA PromiseSteps ==
    TypeOK /\ ClaimsAreExclusive /\ StatusKnown /\ [Next]_vars
        => [Promise!Next]_(Promise!accountVars)
  <1>1. CASE UNCHANGED vars
    BY <1>1 DEF vars, counts, Promise!accountVars, Fates, Fate, InHand, Admitted, OpenSessions
  <1> QED
    BY <1>1, StartStep, RedeemStep, ClaimStep, PasswordStep, DieStep, SessionStep, StatusStep,
       CodeStep DEF Next

(* The account implements the one its owner sees, where each code is spent *)
(* in the step that has its effect: however requests overlap, fail or die, *)
(* no code works twice, a claimed token either sets a password or is lost, *)
(* a session opens only for a request admitted while the account was       *)
(* active, and a closed one stays closed (auth.service.ts).                *)
THEOREM CodesAreOneShotHolds == Spec => CodesAreOneShot
  BY InitTyped, NextTyped, InitExclusive, NextExclusive, InitKnown, NextKnown, PromiseStarts,
     PromiseSteps, PTL DEF Spec, CodesAreOneShot, Promise!Spec
=============================================================================
