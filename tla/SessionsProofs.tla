--------------------------- MODULE SessionsProofs ---------------------------
(***************************************************************************)
(* Theorems about Sessions, for every value of its constants.              *)
(***************************************************************************)
EXTENDS Sessions, FiniteSetTheorems, SequenceTheorems, TLAPS

-----------------------------------------------------------------------------
(* What a step does to each table.  The users: one registers, or one gets  *)
(* another status.                                                         *)
Joined(u, m) ==
  /\ u \in UserIds \ DOMAIN user
  /\ ~Registered(m)
  /\ user' = [x \in DOMAIN user \cup {u} |->
                IF x = u THEN [email |-> m, status |-> "ACTIVE"] ELSE user[x]]
  /\ wallet' = wallet \cup {u}

UsersEffect ==
  \/ UNCHANGED <<user, wallet>>
  \/ \E u \in UserIds, m \in Emails : Joined(u, m)
  \/ \E u \in DOMAIN user, status \in UserStatus :
       user' = [user EXCEPT ![u].status = status] /\ UNCHANGED wallet

LEMMA InitHolds == Init => SessionsInv
  BY DEF Init, SessionsInv, TypeOK, AccountsWhole, RotationRevokes, Idle

LEMMA UsersStay ==
  ASSUME TypeOK, AccountsWhole, UsersEffect
  PROVE  /\ DOMAIN user' \subseteq UserIds
         /\ user' \in [DOMAIN user' -> [email : Emails, status : UserStatus]]
         /\ wallet' \subseteq UserIds
         /\ \A u, v \in DOMAIN user' : user'[u].email = user'[v].email => u = v
         /\ wallet' = DOMAIN user'
         /\ wallet \subseteq wallet'
  <1>0. /\ DOMAIN user \subseteq UserIds
        /\ user \in [DOMAIN user -> [email : Emails, status : UserStatus]]
        /\ wallet = DOMAIN user
        /\ \A u, v \in DOMAIN user : user[u].email = user[v].email => u = v
    BY DEF TypeOK, AccountsWhole
  <1>1. CASE UNCHANGED <<user, wallet>>
    BY <1>0, <1>1
  <1>2. ASSUME NEW u \in UserIds, NEW m \in Emails, Joined(u, m)
        PROVE  /\ DOMAIN user' = DOMAIN user \cup {u}
               /\ user' \in [DOMAIN user' -> [email : Emails, status : UserStatus]]
               /\ \A v \in DOMAIN user : user'[v] = user[v] /\ user[v].email # m
               /\ user'[u].email = m
    BY <1>0, <1>2 DEF Joined, UserStatus, Registered
  <1>3. ASSUME NEW u \in DOMAIN user, NEW status \in UserStatus,
               user' = [user EXCEPT ![u].status = status]
        PROVE  /\ DOMAIN user' = DOMAIN user
               /\ user' \in [DOMAIN user' -> [email : Emails, status : UserStatus]]
               /\ \A v \in DOMAIN user : user'[v].email = user[v].email
    BY <1>0, <1>3
  <1>4. CASE \E u \in UserIds, m \in Emails : Joined(u, m)
    <2>1. PICK u \in UserIds, m \in Emails : Joined(u, m)
      BY <1>4
    <2>2. /\ DOMAIN user' = DOMAIN user \cup {u}
          /\ user' \in [DOMAIN user' -> [email : Emails, status : UserStatus]]
          /\ \A v \in DOMAIN user : user'[v] = user[v] /\ user[v].email # m
          /\ user'[u].email = m
      BY <1>2, <2>1
    <2>3. wallet' = wallet \cup {u}
      BY <2>1 DEF Joined
    <2>4. \A x, y \in DOMAIN user' : user'[x].email = user'[y].email => x = y
      <3> SUFFICES ASSUME NEW x \in DOMAIN user', NEW y \in DOMAIN user',
                          user'[x].email = user'[y].email
                   PROVE  x = y
        OBVIOUS
      <3>1. CASE x = u \/ y = u
        BY <2>2, <3>1
      <3>2. CASE x # u /\ y # u
        BY <1>0, <2>2, <3>2
      <3> QED
        BY <3>1, <3>2
    <2> QED
      BY <1>0, <2>2, <2>3, <2>4
  <1>5. CASE \E u \in DOMAIN user, status \in UserStatus :
               user' = [user EXCEPT ![u].status = status] /\ UNCHANGED wallet
    BY <1>0, <1>3, <1>5
  <1> QED
    BY <1>1, <1>4, <1>5 DEF UsersEffect

(* The tokens: one is issued to a request, or one changes its flags; a     *)
(* token never becomes good again.                                         *)
Issued(r) ==
  /\ req[r].pc = "generate"
  /\ token' = Append(token, [user |-> req[r].user, from |-> req[r].from,
                             isRevoked |-> FALSE, expired |-> FALSE])

Flagged(t) ==
  \/ token' = IsRevoked(t)
  \/ token' = [token EXCEPT ![t].expired = TRUE]

TokensEffect ==
  \/ UNCHANGED token
  \/ \E r \in Requests : Issued(r)
  \/ \E t \in DOMAIN token : Flagged(t)

(* A request begins, goes on to revoke and to generate, or ends.           *)
Begins(new) ==
  \/ \E m \in Emails : new = [pc |-> "createUser", email |-> m]
  \/ \E u \in wallet' : new = [pc |-> "generate", user |-> u, from |-> 0]
  \/ \E t \in DOMAIN token :
       /\ Valid(t) /\ UNCHANGED token
       /\ new = [pc |-> "revoke", user |-> token[t].user, from |-> t]

GoesOn(r, new) ==
  /\ req[r].pc = "revoke"
  /\ token' = IsRevoked(req[r].from)
  /\ new = [req[r] EXCEPT !.pc = "generate"]

RequestsEffect ==
  \/ UNCHANGED req
  \/ \E r \in Requests : \E new : /\ req' = [req EXCEPT ![r] = new]
                                  /\ new = Idle \/ Begins(new) \/ GoesOn(r, new)

SessionsEffects == UsersEffect /\ TokensEffect /\ RequestsEffect

LEMMA RequestIsTyped ==
  ASSUME TypeOK, NEW r \in Requests, req[r].pc \in {"revoke", "generate"}
  PROVE  req[r].user \in UserIds /\ req[r].from \in Nat
  BY DEF TypeOK, Idle, AuthRequest

LEMMA CreatingIsTyped ==
  ASSUME TypeOK, NEW r \in Requests, req[r].pc = "createUser"
  PROVE  req[r].email \in Emails
  BY DEF TypeOK, Idle, AuthRequest

LEMMA NextEffects ==
  ASSUME SessionsInv, Next
  PROVE  SessionsEffects
  <1>0. TypeOK /\ AccountsWhole /\ RotationRevokes
    BY DEF SessionsInv
  <1>1. ASSUME NEW r \in Requests, NEW m \in Emails, Register(r, m)
        PROVE  SessionsEffects
    BY <1>1 DEF Register, Goto, SessionsEffects, UsersEffect, TokensEffect, RequestsEffect, Begins
  <1>2. ASSUME NEW r \in Requests, NEW u \in UserIds, Login(r, u)
        PROVE  SessionsEffects
    <2>1. u \in wallet'
      BY <1>0, <1>2 DEF Login, AccountsWhole
    <2> QED
      BY <1>2, <2>1
      DEF Login, Goto, SessionsEffects, UsersEffect, TokensEffect, RequestsEffect, Begins
  <1>3. ASSUME NEW r \in Requests, NEW t, Refresh(r, t)
        PROVE  SessionsEffects
    BY <1>3 DEF Refresh, Goto, SessionsEffects, UsersEffect, TokensEffect, RequestsEffect, Begins
  <1>4. ASSUME NEW r \in Requests, CreateUser(r)
        PROVE  SessionsEffects
    <2>1. CASE Goto(r, Idle) /\ UNCHANGED <<user, wallet>>
      <3>1. RequestsEffect
        BY <2>1 DEF Goto, RequestsEffect
      <3>2. UNCHANGED token
        BY <1>4 DEF CreateUser
      <3> QED
        BY <2>1, <3>1, <3>2 DEF SessionsEffects, UsersEffect, TokensEffect
    <2>2. CASE ~(Goto(r, Idle) /\ UNCHANGED <<user, wallet>>)
      <3>1. PICK u \in UserIds, m \in Emails :
              Joined(u, m) /\ Goto(r, [pc |-> "generate", user |-> u, from |-> 0])
        BY <1>0, <1>4, <2>2, CreatingIsTyped DEF CreateUser, Joined
      <3>2. u \in wallet'
        BY <3>1 DEF Joined
      <3> QED
        <4>1. PICK new : new = [pc |-> "generate", user |-> u, from |-> 0]
          OBVIOUS
        <4>2. Begins(new)
          BY <3>2, <4>1 DEF Begins
        <4>3. RequestsEffect
          BY <3>1, <4>1, <4>2 DEF Goto, RequestsEffect
        <4>4. UsersEffect /\ TokensEffect
          BY <1>4, <3>1 DEF CreateUser, UsersEffect, TokensEffect
        <4> QED
          BY <4>3, <4>4 DEF SessionsEffects
    <2> QED
      BY <2>1, <2>2
  <1>5. ASSUME NEW r \in Requests, Revoke(r)
        PROVE  SessionsEffects
    <2>1. PICK t \in DOMAIN token : t = req[r].from
      BY <1>0, <1>5 DEF Revoke, RotationRevokes
    <2>2. TokensEffect
      BY <1>5, <2>1 DEF Revoke, TokensEffect, Flagged
    <2>3. PICK new : new = [req[r] EXCEPT !.pc = "generate"]
      OBVIOUS
    <2>4. GoesOn(r, new) /\ req' = [req EXCEPT ![r] = new]
      BY <1>5, <2>3 DEF Revoke, Goto, GoesOn
    <2>5. RequestsEffect
      BY <2>4 DEF RequestsEffect
    <2> QED
      BY <1>5, <2>2, <2>5 DEF Revoke, SessionsEffects, UsersEffect
  <1>6. ASSUME NEW r \in Requests, GenerateTokens(r)
        PROVE  SessionsEffects
    BY <1>6
    DEF GenerateTokens, Goto, SessionsEffects, UsersEffect, TokensEffect, RequestsEffect, Issued
  <1>7. ASSUME NEW t, Logout(t) \/ Expire(t)
        PROVE  SessionsEffects
    BY <1>7
    DEF Logout, Expire, SessionsEffects, UsersEffect, TokensEffect, RequestsEffect, Flagged
  <1>8. ASSUME NEW u, NEW status \in UserStatus, UpdateStatus(u, status)
        PROVE  SessionsEffects
    BY <1>8 DEF UpdateStatus, SessionsEffects, UsersEffect, TokensEffect, RequestsEffect
  <1>9. ASSUME NEW r \in Requests, Crash(r)
        PROVE  SessionsEffects
    BY <1>9 DEF Crash, Goto, SessionsEffects, UsersEffect, TokensEffect, RequestsEffect
  <1> QED
    BY <1>1, <1>2, <1>3, <1>4, <1>5, <1>6, <1>7, <1>8, <1>9 DEF Next, RequestStep

-----------------------------------------------------------------------------
(* What the effects keep. *)

LEMMA TokensGrow ==
  ASSUME SessionsInv, TokensEffect
  PROVE  /\ token' \in Seq(RefreshToken)
         /\ Len(token') >= Len(token)
         /\ \A t \in DOMAIN token :
              /\ t \in DOMAIN token'
              /\ token'[t].user = token[t].user
              /\ token'[t].from = token[t].from
              /\ token[t].isRevoked => token'[t].isRevoked
         /\ \A t \in DOMAIN token' : t \notin DOMAIN token =>
              \E r \in Requests :
                /\ Issued(r) /\ t = Len(token) + 1
                /\ token'[t].user = req[r].user /\ token'[t].from = req[r].from
  <1>0. token \in Seq(RefreshToken) /\ TypeOK
    BY DEF SessionsInv, TypeOK
  <1>1. CASE UNCHANGED token
    BY <1>0, <1>1
  <1>2. ASSUME NEW r \in Requests, Issued(r)
        PROVE  /\ token' \in Seq(RefreshToken)
               /\ Len(token') = Len(token) + 1
               /\ \A t \in DOMAIN token : token'[t] = token[t]
               /\ token'[Len(token) + 1].user = req[r].user
               /\ token'[Len(token) + 1].from = req[r].from
    <2> DEFINE new == [user |-> req[r].user, from |-> req[r].from,
                       isRevoked |-> FALSE, expired |-> FALSE]
    <2>1. new \in RefreshToken /\ new.user = req[r].user /\ new.from = req[r].from
      BY <1>0, <1>2, RequestIsTyped DEF Issued, RefreshToken
    <2>2. token' = Append(token, new)
      BY <1>2 DEF Issued
    <2> HIDE DEF new
    <2> QED
      BY <1>0, <2>1, <2>2
  <1>3. ASSUME NEW t \in DOMAIN token, Flagged(t)
        PROVE  /\ token' \in Seq(RefreshToken)
               /\ Len(token') = Len(token)
               /\ \A s \in DOMAIN token : /\ token'[s].user = token[s].user
                                          /\ token'[s].from = token[s].from
                                          /\ token[s].isRevoked => token'[s].isRevoked
    <2>1. token[t] \in RefreshToken
      BY <1>0
    <2>2. PICK new \in RefreshToken :
            /\ token' = [token EXCEPT ![t] = new]
            /\ new.user = token[t].user /\ new.from = token[t].from
            /\ token[t].isRevoked => new.isRevoked
      BY <1>3, <2>1 DEF Flagged, IsRevoked, RefreshToken
    <2> QED
      BY <1>0, <2>2
  <1>4. DOMAIN token = 1 .. Len(token) /\ Len(token) \in Nat
    BY <1>0
  <1>5. CASE \E r \in Requests : Issued(r)
    <2>1. PICK r \in Requests : Issued(r)
      BY <1>5
    <2>2. DOMAIN token' = 1 .. (Len(token) + 1)
      BY <1>2, <1>4, <2>1
    <2> QED
      BY <1>2, <1>4, <2>1, <2>2
  <1>6. CASE \E t \in DOMAIN token : Flagged(t)
    <2>1. PICK t \in DOMAIN token : Flagged(t)
      BY <1>6
    <2>2. DOMAIN token' = DOMAIN token
      BY <1>3, <1>4, <2>1
    <2> QED
      BY <1>3, <1>4, <2>1, <2>2
  <1> QED
    BY <1>1, <1>5, <1>6 DEF TokensEffect

(* What a request in progress may rely on. *)
CallOk(q) ==
  /\ q \in {Idle} \cup AuthRequest
  /\ q.pc = "revoke" => q.from # 0
  /\ q.pc \in {"revoke", "generate"} =>
       /\ q.user \in wallet
       /\ q.from # 0 => /\ q.from \in DOMAIN token
                        /\ token[q.from].user = q.user
                        /\ q.pc = "generate" => token[q.from].isRevoked

LEMMA CallsAreOk ==
  ASSUME SessionsInv, NEW r \in Requests
  PROVE  CallOk(req[r])
  BY DEF SessionsInv, TypeOK, AccountsWhole, RotationRevokes, CallOk

LEMMA CallStays ==
  ASSUME SessionsInv, SessionsEffects, NEW q, CallOk(q)
  PROVE  CallOk(q)'
  <1>1. wallet \subseteq wallet'
    BY UsersStay DEF SessionsInv, SessionsEffects
  <1>2. \A t \in DOMAIN token : /\ t \in DOMAIN token'
                                /\ token'[t].user = token[t].user
                                /\ token[t].isRevoked => token'[t].isRevoked
    BY TokensGrow DEF SessionsEffects
  <1> QED
    BY <1>1, <1>2 DEF CallOk

LEMMA BegunIsOk ==
  ASSUME SessionsInv, SessionsEffects, NEW q, Begins(q)
  PROVE  CallOk(q)'
  <1>1. wallet \subseteq wallet' /\ wallet' \subseteq UserIds
    BY UsersStay DEF SessionsInv, SessionsEffects
  <1>2. CASE \E m \in Emails : q = [pc |-> "createUser", email |-> m]
    BY <1>2 DEF CallOk, AuthRequest
  <1>3. CASE \E u \in wallet' : q = [pc |-> "generate", user |-> u, from |-> 0]
    BY <1>1, <1>3 DEF CallOk, AuthRequest
  <1>4. ASSUME NEW t \in DOMAIN token, UNCHANGED token,
               q = [pc |-> "revoke", user |-> token[t].user, from |-> t]
        PROVE  CallOk(q)'
    <2>1. t \in Nat \ {0} /\ token[t].user \in wallet
      BY DEF SessionsInv, TypeOK, AccountsWhole
    <2>2. PICK u \in UserIds : u = token[t].user /\ u \in wallet'
      BY <1>1, <2>1
    <2>3. q.pc = "revoke" /\ q.user = u /\ q.from = t /\ q \in AuthRequest
      BY <1>4, <2>1, <2>2 DEF AuthRequest
    <2> QED
      BY <1>4, <2>1, <2>2, <2>3 DEF CallOk
  <1> QED
    BY <1>2, <1>3, <1>4 DEF Begins

LEMMA GoneOnIsOk ==
  ASSUME SessionsInv, SessionsEffects, NEW r \in Requests, NEW q, GoesOn(r, q)
  PROVE  CallOk(q)'
  <1>1. PICK old : old = req[r] /\ CallOk(old) /\ old.pc = "revoke"
    BY CallsAreOk DEF GoesOn
  <1>2. CallOk(old)'
    BY <1>1, CallStays
  <1>3. old \in AuthRequest /\ old.user \in UserIds /\ old.from \in Nat
    BY <1>1 DEF CallOk, Idle, AuthRequest
  <1>4. PICK u \in UserIds, f \in Nat : u = old.user /\ f = old.from
    BY <1>3
  <1>5. q.pc = "generate" /\ q.user = u /\ q.from = f
    BY <1>1, <1>3, <1>4 DEF GoesOn, AuthRequest
  <1>6. q \in AuthRequest
    BY <1>1, <1>3, <1>4 DEF GoesOn, AuthRequest
  <1>7. token'[f].isRevoked /\ f # 0
    <2>1. f \in DOMAIN token /\ token' = IsRevoked(f) /\ f # 0
      BY <1>1, <1>4 DEF CallOk, GoesOn
    <2>2. token[f] \in RefreshToken
      BY <2>1 DEF SessionsInv, TypeOK
    <2> QED
      BY <2>1, <2>2 DEF IsRevoked, RefreshToken, SessionsInv, TypeOK
  <1> QED
    BY <1>1, <1>2, <1>4, <1>5, <1>6, <1>7 DEF CallOk

LEMMA IdleIsOk == CallOk(Idle)
  BY DEF CallOk, Idle

LEMMA CallsStay ==
  ASSUME SessionsInv, SessionsEffects
  PROVE  req' \in [Requests -> {Idle} \cup AuthRequest] /\ \A r \in Requests : CallOk(req[r])'
  <1>0. req \in [Requests -> {Idle} \cup AuthRequest]
    BY DEF SessionsInv, TypeOK
  <1>1. \A r \in Requests : \E q : req[r] = q /\ CallOk(q)'
    BY CallsAreOk, CallStays
  <1>2. CASE UNCHANGED req
    BY <1>0, <1>1, <1>2 DEF CallOk
  <1>3. ASSUME NEW r \in Requests, NEW new, req' = [req EXCEPT ![r] = new],
               new = Idle \/ Begins(new) \/ GoesOn(r, new)
        PROVE  /\ req' \in [Requests -> {Idle} \cup AuthRequest]
               /\ \A s \in Requests : CallOk(req[s])'
    <2>1. CallOk(Idle)'
      BY IdleIsOk, CallStays
    <2>2. CallOk(new)'
      BY <1>3, <2>1, BegunIsOk, GoneOnIsOk
    <2>3. new \in {Idle} \cup AuthRequest
      BY <2>2 DEF CallOk
    <2>4. \A s \in Requests : req'[s] = IF s = r THEN new ELSE req[s]
      BY <1>0, <1>3
    <2>5. \A s \in Requests : \E q : req'[s] = q /\ CallOk(q)'
      BY <1>1, <2>2, <2>4
    <2> QED
      BY <1>0, <1>3, <2>3, <2>5 DEF CallOk
  <1> QED
    BY <1>2, <1>3 DEF RequestsEffect, SessionsEffects

LEMMA EffectsKeep ==
  ASSUME SessionsInv, SessionsEffects
  PROVE  SessionsInv'
  <1>0. TypeOK /\ AccountsWhole /\ RotationRevokes /\ UsersEffect /\ TokensEffect
    BY DEF SessionsInv, SessionsEffects
  <1>1. /\ DOMAIN user' \subseteq UserIds
        /\ user' \in [DOMAIN user' -> [email : Emails, status : UserStatus]]
        /\ wallet' \subseteq UserIds
        /\ \A u, v \in DOMAIN user' : user'[u].email = user'[v].email => u = v
        /\ wallet' = DOMAIN user'
        /\ wallet \subseteq wallet'
    BY <1>0, UsersStay
  <1>2. /\ token' \in Seq(RefreshToken)
        /\ \A t \in DOMAIN token :
             /\ t \in DOMAIN token'
             /\ token'[t].user = token[t].user
             /\ token'[t].from = token[t].from
             /\ token[t].isRevoked => token'[t].isRevoked
        /\ \A t \in DOMAIN token' : t \notin DOMAIN token =>
             \E r \in Requests :
               /\ Issued(r) /\ t = Len(token) + 1
               /\ token'[t].user = req[r].user /\ token'[t].from = req[r].from
    BY <1>0, TokensGrow
  <1>3. req' \in [Requests -> {Idle} \cup AuthRequest] /\ \A r \in Requests : CallOk(req[r])'
    BY CallsStay
  <1>4. \A r \in Requests : CallOk(req[r])
    BY CallsAreOk
  <1>5. \A t \in DOMAIN token' : token'[t].user \in wallet'
    <2> SUFFICES ASSUME NEW t \in DOMAIN token' PROVE token'[t].user \in wallet'
      OBVIOUS
    <2>1. CASE t \in DOMAIN token
      BY <1>0, <1>1, <1>2, <2>1 DEF AccountsWhole
    <2>2. CASE t \notin DOMAIN token
      <3>1. PICK r \in Requests : Issued(r) /\ token'[t].user = req[r].user
        BY <1>2, <2>2
      <3>2. req[r].user \in wallet
        BY <1>4, <3>1 DEF Issued, CallOk
      <3> QED
        BY <1>1, <3>1, <3>2
    <2> QED
      BY <2>1, <2>2
  <1>6. ASSUME NEW s \in DOMAIN token', token'[s].from # 0
        PROVE  /\ token'[s].from \in 1 .. s - 1
               /\ token'[token'[s].from].isRevoked
               /\ token'[token'[s].from].user = token'[s].user
    <2>1. CASE s \in DOMAIN token
      <3>1. PICK old \in 1 .. s - 1 : /\ token[s].from = old /\ token'[s].from = old
                                      /\ token[old].isRevoked /\ token[old].user = token[s].user
        BY <1>0, <1>2, <1>6, <2>1 DEF RotationRevokes
      <3>2. old \in DOMAIN token
        BY <1>0, <2>1, <3>1 DEF TypeOK
      <3> QED
        BY <1>2, <2>1, <3>1, <3>2
    <2>2. CASE s \notin DOMAIN token
      <3>1. PICK r \in Requests :
              /\ Issued(r) /\ s = Len(token) + 1
              /\ token'[s].user = req[r].user /\ token'[s].from = req[r].from
        BY <1>2, <2>2
      <3>2. PICK old \in DOMAIN token : /\ req[r].from = old /\ token[old].isRevoked
                                        /\ token[old].user = req[r].user
        BY <1>4, <1>6, <3>1 DEF CallOk, Issued
      <3>3. old \in 1 .. s - 1
        BY <1>0, <3>1, <3>2 DEF TypeOK
      <3> QED
        BY <1>2, <3>1, <3>2, <3>3
    <2> QED
      BY <2>1, <2>2
  <1>7. TypeOK'
    BY <1>1, <1>2, <1>3 DEF TypeOK
  <1>8. AccountsWhole'
    BY <1>1, <1>3, <1>5 DEF AccountsWhole, CallOk
  <1>9. RotationRevokes'
    BY <1>3, <1>6 DEF RotationRevokes, CallOk
  <1> QED
    BY <1>7, <1>8, <1>9 DEF SessionsInv

LEMMA StepHolds == SessionsInv /\ [Next]_vars => SessionsInv'
  <1>1. ASSUME SessionsInv, Next PROVE SessionsInv'
    BY <1>1, NextEffects, EffectsKeep
  <1>2. ASSUME SessionsInv, UNCHANGED vars PROVE SessionsInv'
    BY <1>2, EffectsKeep
    DEF vars, SessionsEffects, UsersEffect, TokensEffect, RequestsEffect
  <1> QED
    BY <1>1, <1>2

(* However registrations, sign-ins, refreshes, logouts and crashes         *)
(* interleave, an email has one account with a balance row, and a token    *)
(* that was exchanged for another of the same user is revoked.             *)
THEOREM SessionsInvariant == Spec => []SessionsInv
  BY InitHolds, StepHolds, PTL DEF Spec

-----------------------------------------------------------------------------
(* How many exchanges of a token there are. *)

LEMMA ExchangesAreFinite ==
  ASSUME SessionsInv, NEW t
  PROVE  /\ IsFiniteSet(Successors(t)) /\ Cardinality(Successors(t)) \in Nat
         /\ IsFiniteSet(InFlight(t)) /\ Cardinality(InFlight(t)) \in Nat
         /\ Cardinality(InFlight(t)) <= Cardinality(Requests)
         /\ Cardinality(Requests) \in Nat
  <1>1. DOMAIN token = 1 .. Len(token) /\ Len(token) \in Nat
    BY DEF SessionsInv, TypeOK
  <1>2. IsFiniteSet(DOMAIN token)
    BY <1>1, FS_Interval
  <1>3. Successors(t) \subseteq DOMAIN token /\ InFlight(t) \subseteq Requests
    BY DEF Successors, InFlight
  <1> QED
    BY <1>2, <1>3, FS_Subset, FS_CardinalityType, SessionsAssumption

Flies(q, t) == q.pc \in {"revoke", "generate"} /\ q.from = t

LEMMA FlightsMove ==
  ASSUME SessionsInv, NEW t, NEW r \in Requests, NEW new, req' = [req EXCEPT ![r] = new]
  PROVE  InFlight(t)' = IF Flies(new, t) THEN InFlight(t) \cup {r} ELSE InFlight(t) \ {r}
  <1>1. \A s \in Requests : req'[s] = IF s = r THEN new ELSE req[s]
    BY DEF SessionsInv, TypeOK
  <1> QED
    BY <1>1 DEF InFlight, Flies

LEMMA FewerExchanges ==
  ASSUME SessionsInv, NEW t, Successors(t)' = Successors(t), InFlight(t)' \subseteq InFlight(t)
  PROVE  Exchanges(t)' <= Exchanges(t)
  <1>1. /\ Cardinality(Successors(t)) \in Nat
        /\ IsFiniteSet(InFlight(t)) /\ Cardinality(InFlight(t)) \in Nat
    BY ExchangesAreFinite
  <1>2. PICK S : S = InFlight(t)' /\ S \subseteq InFlight(t)
    OBVIOUS
  <1>3. IsFiniteSet(S) /\ Cardinality(S) <= Cardinality(InFlight(t)) /\ Cardinality(S) \in Nat
    BY <1>1, <1>2, FS_Subset, FS_CardinalityType
  <1>4. Exchanges(t)' = Cardinality(Successors(t)) + Cardinality(S)
    BY <1>2 DEF Exchanges
  <1> QED
    BY <1>1, <1>3, <1>4 DEF Exchanges

LEMMA SuccessorsSame ==
  ASSUME SessionsInv, NEW t, UNCHANGED token \/ \E s \in DOMAIN token : Flagged(s)
  PROVE  Successors(t)' = Successors(t)
  <1>0. token \in Seq(RefreshToken)
    BY DEF SessionsInv, TypeOK
  <1>1. ASSUME NEW s \in DOMAIN token, Flagged(s)
        PROVE  Successors(t)' = Successors(t)
    <2>1. token[s] \in RefreshToken
      BY <1>0
    <2>2. DOMAIN token' = DOMAIN token /\ \A x \in DOMAIN token : token'[x].from = token[x].from
      BY <1>1, <2>1 DEF Flagged, IsRevoked, RefreshToken
    <2> QED
      BY <2>2 DEF Successors
  <1> QED
    BY <1>1 DEF Successors

(* A request that ends, or goes on for the token it is about.              *)
LEMMA OthersEnd ==
  ASSUME SessionsInv, NEW t, Successors(t)' = Successors(t),
         NEW r \in Requests, NEW new, req' = [req EXCEPT ![r] = new],
         Flies(new, t) => r \in InFlight(t)
  PROVE  Exchanges(t)' <= Exchanges(t)
  BY FlightsMove, FewerExchanges

LEMMA IssueCounts ==
  ASSUME SessionsInv, NEW r \in Requests, GenerateTokens(r), NEW t \in DOMAIN token
  PROVE  Exchanges(t)' <= Exchanges(t)
  <1> DEFINE new == [user |-> req[r].user, from |-> req[r].from,
                     isRevoked |-> FALSE, expired |-> FALSE]
             n == Len(token) + 1
  <1>1. /\ DOMAIN token = 1 .. Len(token) /\ Len(token) \in Nat
        /\ new.from = req[r].from
        /\ token' = Append(token, new)
    BY DEF SessionsInv, TypeOK, GenerateTokens
  <1> HIDE DEF new
  <1>2. /\ DOMAIN token' = DOMAIN token \cup {n} /\ n \notin DOMAIN token
        /\ token'[n] = new /\ \A s \in DOMAIN token : token'[s] = token[s]
    BY <1>1 DEF SessionsInv, TypeOK
  <1>3. /\ req[r].pc = "generate" /\ req' = [req EXCEPT ![r] = Idle] /\ ~Flies(Idle, t)
    BY DEF GenerateTokens, Goto, Flies, Idle
  <1>4. InFlight(t)' = InFlight(t) \ {r}
    BY <1>3, FlightsMove
  <1>5. CASE req[r].from # t
    <2>1. Successors(t)' = Successors(t)
      BY <1>1, <1>2, <1>5 DEF Successors
    <2> QED
      BY <1>4, <2>1, FewerExchanges
  <1>6. CASE req[r].from = t
    <2>1. Successors(t)' = Successors(t) \cup {n} /\ n \notin Successors(t)
      BY <1>1, <1>2, <1>6 DEF Successors
    <2>2. r \in InFlight(t)
      BY <1>3, <1>6 DEF InFlight
    <2>3. /\ IsFiniteSet(Successors(t)) /\ Cardinality(Successors(t)) \in Nat
          /\ IsFiniteSet(InFlight(t)) /\ Cardinality(InFlight(t)) \in Nat
      BY ExchangesAreFinite
    <2>4. Cardinality(Successors(t) \cup {n}) = Cardinality(Successors(t)) + 1
      BY <2>1, <2>3, FS_AddElement
    <2>5. Cardinality(InFlight(t) \ {r}) = Cardinality(InFlight(t)) - 1
      BY <2>2, <2>3, FS_RemoveElement
    <2>6. Exchanges(t)' = Cardinality(Successors(t) \cup {n}) + Cardinality(InFlight(t) \ {r})
      BY <1>4, <2>1 DEF Exchanges
    <2> QED
      BY <2>3, <2>4, <2>5, <2>6 DEF Exchanges
  <1> QED
    BY <1>5, <1>6

(* Only a refresh that finds a token good adds to its exchanges.           *)
LEMMA StepCounts ==
  ASSUME SessionsInv, Next, NEW t \in DOMAIN token, token'[t].isRevoked
  PROVE  Exchanges(t)' <= Exchanges(t)
  <1>0. t # 0
    BY DEF SessionsInv, TypeOK
  <1>1. ASSUME NEW r \in Requests, NEW m, Register(r, m)
        PROVE  Exchanges(t)' <= Exchanges(t)
    <2>1. PICK new : new = [pc |-> "createUser", email |-> m]
      OBVIOUS
    <2>2. req' = [req EXCEPT ![r] = new] /\ ~Flies(new, t) /\ UNCHANGED token
      BY <1>1, <2>1 DEF Register, Goto, Flies
    <2> QED
      BY <2>2, SuccessorsSame, OthersEnd
  <1>2. ASSUME NEW r \in Requests, NEW u, UNCHANGED token,
               Goto(r, [pc |-> "generate", user |-> u, from |-> 0])
        PROVE  Exchanges(t)' <= Exchanges(t)
    <2>1. PICK new : new = [pc |-> "generate", user |-> u, from |-> 0]
      OBVIOUS
    <2>2. req' = [req EXCEPT ![r] = new] /\ ~Flies(new, t)
      BY <1>0, <1>2, <2>1 DEF Goto, Flies
    <2> QED
      BY <1>2, <2>2, SuccessorsSame, OthersEnd
  <1>3. ASSUME NEW r \in Requests, UNCHANGED token, Goto(r, Idle)
        PROVE  Exchanges(t)' <= Exchanges(t)
    <2>1. req' = [req EXCEPT ![r] = Idle] /\ ~Flies(Idle, t)
      BY <1>3 DEF Goto, Flies, Idle
    <2> QED
      BY <1>3, <2>1, SuccessorsSame, OthersEnd
  <1>4. ASSUME NEW r \in Requests, NEW s, Refresh(r, s)
        PROVE  Exchanges(t)' <= Exchanges(t)
    <2>1. PICK new : new = [pc |-> "revoke", user |-> token[s].user, from |-> s]
      OBVIOUS
    <2>2. s # t
      BY <1>4 DEF Refresh, Valid
    <2>3. req' = [req EXCEPT ![r] = new] /\ ~Flies(new, t) /\ UNCHANGED token
      BY <1>4, <2>1, <2>2 DEF Refresh, Goto, Flies
    <2> QED
      BY <2>3, SuccessorsSame, OthersEnd
  <1>5. ASSUME NEW r \in Requests, Revoke(r)
        PROVE  Exchanges(t)' <= Exchanges(t)
    <2>1. PICK new : new = [req[r] EXCEPT !.pc = "generate"]
      OBVIOUS
    <2>2. req[r].pc = "revoke" /\ req' = [req EXCEPT ![r] = new] /\ token' = IsRevoked(req[r].from)
      BY <1>5, <2>1 DEF Revoke, Goto
    <2>3. PICK s \in DOMAIN token : s = req[r].from
      BY <2>2 DEF SessionsInv, RotationRevokes
    <2>4. Successors(t)' = Successors(t)
      BY <2>2, <2>3, SuccessorsSame DEF Flagged
    <2>5. req[r] \in AuthRequest
      BY <2>2 DEF SessionsInv, TypeOK, Idle
    <2>6. new.from = req[r].from
      BY <2>1, <2>2, <2>5 DEF AuthRequest
    <2>7. Flies(new, t) => r \in InFlight(t)
      BY <2>2, <2>6 DEF Flies, InFlight
    <2> QED
      BY <2>2, <2>4, <2>7, OthersEnd
  <1>6. ASSUME NEW s, Logout(s) \/ Expire(s)
        PROVE  Exchanges(t)' <= Exchanges(t)
    <2>1. s \in DOMAIN token /\ Flagged(s) /\ UNCHANGED req
      BY <1>6 DEF Logout, Expire, Flagged
    <2> QED
      BY <2>1, SuccessorsSame, FewerExchanges DEF InFlight
  <1>7. ASSUME NEW u, NEW status, UpdateStatus(u, status)
        PROVE  Exchanges(t)' <= Exchanges(t)
    BY <1>7, SuccessorsSame, FewerExchanges DEF UpdateStatus, InFlight
  <1>8. ASSUME NEW r \in Requests, CreateUser(r)
        PROVE  Exchanges(t)' <= Exchanges(t)
    BY <1>2, <1>3, <1>8 DEF CreateUser
  <1> QED
    BY <1>1, <1>2, <1>3, <1>4, <1>5, <1>6, <1>7, <1>8, IssueCounts
    DEF Next, RequestStep, Login, Crash

(* A token that is revoked buys nothing new, whichever requests had        *)
(* checked it before: the exchanges that are still possible only get used. *)
THEOREM RevokedStaysWorthless == Spec => RevokedBuysNothing
  <1>1. SessionsInv /\ [Next]_vars =>
          [\A t \in DOMAIN token : token[t].isRevoked => Exchanges(t)' <= Exchanges(t)]_vars
    <2> SUFFICES ASSUME SessionsInv, Next, NEW t \in DOMAIN token, token[t].isRevoked
                 PROVE  Exchanges(t)' <= Exchanges(t)
      OBVIOUS
    <2>1. token'[t].isRevoked
      BY NextEffects, TokensGrow DEF SessionsEffects
    <2> QED
      BY <2>1, StepCounts
  <1> QED
    BY <1>1, SessionsInvariant, PTL DEF Spec, RevokedBuysNothing

(* A token that is good has no successor yet.                              *)
GoodUnused ==
  \A t \in DOMAIN token : ~token[t].isRevoked => Exchanges(t) <= Cardinality(Requests)

Counted == \A t : Exchanges(t) \in Nat

LEMMA GoodIsUnused == SessionsInv => GoodUnused
  <1> SUFFICES ASSUME SessionsInv, NEW t \in DOMAIN token, ~token[t].isRevoked
               PROVE  Exchanges(t) <= Cardinality(Requests)
    BY DEF GoodUnused
  <1>1. t # 0
    BY DEF SessionsInv, TypeOK
  <1>2. Successors(t) = {}
    BY <1>1 DEF SessionsInv, RotationRevokes, Successors
  <1>3. Cardinality(Successors(t)) = 0
    BY <1>2, FS_EmptySet
  <1> QED
    BY <1>3, ExchangesAreFinite DEF Exchanges

LEMMA ExchangesAreNat == SessionsInv => Counted
  BY ExchangesAreFinite DEF Exchanges, Counted

LEMMA NewIsGood ==
  ASSUME SessionsInv, TokensEffect, NEW t \in DOMAIN token', token'[t].isRevoked
  PROVE  t \in DOMAIN token
  <1>0. token \in Seq(RefreshToken)
    BY DEF SessionsInv, TypeOK
  <1>1. ASSUME NEW r \in Requests, Issued(r)
        PROVE  t \in DOMAIN token
    <2> DEFINE new == [user |-> req[r].user, from |-> req[r].from,
                       isRevoked |-> FALSE, expired |-> FALSE]
    <2>1. token' = Append(token, new) /\ new.isRevoked = FALSE
      BY <1>1 DEF Issued
    <2> HIDE DEF new
    <2> QED
      BY <1>0, <2>1
  <1>2. ASSUME NEW s \in DOMAIN token, Flagged(s)
        PROVE  t \in DOMAIN token
    BY <1>0, <1>2 DEF Flagged, IsRevoked
  <1> QED
    BY <1>1, <1>2 DEF TokensEffect

(* A token is exchanged at most once by each of the requests that can be   *)
(* in progress together: what is left of single use when refreshes race.   *)
THEOREM ExchangesAreBounded == Spec => []SingleUsePerRequest
  <1>1. Init => SingleUsePerRequest
    BY DEF Init, SingleUsePerRequest
  <1>2. SessionsInv' => GoodUnused' /\ Counted'
    BY ExchangesAreNat, GoodIsUnused, PTL
  <1>3. ASSUME SessionsInv, SingleUsePerRequest, Next
        PROVE  SingleUsePerRequest'
    <2> SUFFICES ASSUME NEW t \in DOMAIN token'
                 PROVE  Exchanges(t)' <= Cardinality(Requests)
      BY DEF SingleUsePerRequest
    <2>1. GoodUnused' /\ Counted'
      BY <1>3, <1>2, StepHolds
    <2>2. CASE token'[t].isRevoked
      <3>1. t \in DOMAIN token
        BY <1>3, <2>2, NextEffects, TokensGrow, NewIsGood DEF SessionsEffects
      <3>2. Exchanges(t)' <= Exchanges(t) /\ Exchanges(t) <= Cardinality(Requests)
        BY <1>3, <2>2, <3>1, StepCounts DEF SingleUsePerRequest
      <3>3. Exchanges(t) \in Nat /\ Exchanges(t)' \in Nat /\ Cardinality(Requests) \in Nat
        BY <1>3, <2>1, ExchangesAreNat, ExchangesAreFinite DEF Counted
      <3> QED
        BY <3>2, <3>3
    <2>3. CASE ~token'[t].isRevoked
      BY <2>1, <2>3 DEF GoodUnused
    <2> QED
      BY <2>2, <2>3
  <1>4. SingleUsePerRequest /\ UNCHANGED vars => SingleUsePerRequest'
    BY DEF vars, SingleUsePerRequest, Exchanges, Successors, InFlight
  <1>5. SessionsInv /\ SingleUsePerRequest /\ [Next]_vars => SingleUsePerRequest'
    BY <1>3, <1>4
  <1> QED
    BY <1>1, <1>5, SessionsInvariant, PTL DEF Spec
=============================================================================
