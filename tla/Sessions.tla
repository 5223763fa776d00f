------------------------------ MODULE Sessions ------------------------------
(***************************************************************************)
(* AuthService and the administration of accounts in UsersService, over    *)
(* the users, balances and refresh_tokens tables.  Other requests run at   *)
(* every await: bcrypt, the audit log and every statement.  Passwords are  *)
(* always right here, and access tokens, which no table records, are left  *)
(* out: what a sign-in leaves behind is its refresh token.                 *)
(***************************************************************************)
EXTENDS Naturals, Sequences, FiniteSets

CONSTANTS
  Emails,
  UserIds,      \* ids of the users that may be created
  Requests,     \* requests in progress at once
  Crashing,     \* requests whose process may die, or whose statements may throw
  MaxTokens     \* bound on the refresh tokens issued

ASSUME SessionsAssumption ==
  /\ IsFiniteSet(Requests) /\ Crashing \subseteq Requests
  /\ MaxTokens \in Nat

VARIABLES
  user,       \* the users table, defined for the users created so far
  wallet,     \* users that have a balance row
  token,      \* the refresh_tokens table, in the order of the inserts
  req         \* what each request in progress has done so far

vars == <<user, wallet, token, req>>

UserStatus == {"ACTIVE", "SUSPENDED", "PENDING_VERIFICATION"}

(* from is the token a token was exchanged for, 0 after a sign-in; the     *)
(* table does not record it.                                               *)
RefreshToken == [user : UserIds, from : Nat, isRevoked : BOOLEAN, expired : BOOLEAN]

Idle == [pc |-> "idle"]

AuthRequest ==
  [pc : {"createUser"}, email : Emails]
    \cup [pc : {"revoke", "generate"}, user : UserIds, from : Nat]

Init ==
  /\ user = << >>
  /\ wallet = {}
  /\ token = << >>
  /\ req = [r \in Requests |-> Idle]

Goto(r, next) == req' = [req EXCEPT ![r] = next]

(* Mutant: no unique index on the email.                                   *)
RegisteredNever(m) == FALSE

Registered(m) == \E u \in DOMAIN user : user[u].email = m

(* register(), up to the hash of the password.                             *)
Register(r, m) ==
  /\ req[r] = Idle
  /\ ~Registered(m)
  /\ Goto(r, [pc |-> "createUser", email |-> m])
  /\ UNCHANGED <<user, wallet, token>>

(* The transaction inserts the user and the balance, or neither when the   *)
(* email has been taken meanwhile.                                         *)
CreateUser(r) ==
  /\ req[r].pc = "createUser"
  /\ \/ /\ Registered(req[r].email)
        /\ Goto(r, Idle)
        /\ UNCHANGED <<user, wallet>>
     \/ /\ ~Registered(req[r].email)
        /\ \E u \in UserIds \ DOMAIN user :
             /\ user' = [x \in DOMAIN user \cup {u} |->
                           IF x = u THEN [email |-> req[r].email, status |-> "ACTIVE"]
                                    ELSE user[x]]
             /\ wallet' = wallet \cup {u}
             /\ Goto(r, [pc |-> "generate", user |-> u, from |-> 0])
  /\ UNCHANGED token

(* login(), up to bcrypt.compare: only a suspended user is refused.        *)
Login(r, u) ==
  /\ req[r] = Idle
  /\ u \in DOMAIN user
  /\ user[u].status # "SUSPENDED"
  /\ Goto(r, [pc |-> "generate", user |-> u, from |-> 0])
  /\ UNCHANGED <<user, wallet, token>>

(* Mutant: looks at the expiry only.                                       *)
UnexpiredOnly(t) == ~token[t].expired

Valid(t) == ~token[t].isRevoked /\ ~token[t].expired

(* refresh(), up to the check of the token's row.                          *)
Refresh(r, t) ==
  /\ req[r] = Idle
  /\ t \in DOMAIN token
  /\ Valid(t)
  /\ Goto(r, [pc |-> "revoke", user |-> token[t].user, from |-> t])
  /\ UNCHANGED <<user, wallet, token>>

(* Mutant: the old token is left as it is.                                 *)
NotRevoked(t) == token

IsRevoked(t) == [token EXCEPT ![t].isRevoked = TRUE]

(* Mutant: answers without a new token.                                    *)
RevokeOnly(r) ==
  /\ req[r].pc = "revoke"
  /\ token' = IsRevoked(req[r].from)
  /\ Goto(r, Idle)
  /\ UNCHANGED <<user, wallet>>

(* The update that revokes it, whatever has happened to it since; the user *)
(* is there, because no code deletes one, and the status is not looked at. *)
Revoke(r) ==
  /\ req[r].pc = "revoke"
  /\ token' = IsRevoked(req[r].from)
  /\ Goto(r, [req[r] EXCEPT !.pc = "generate"])
  /\ UNCHANGED <<user, wallet>>

(* generateTokens(), the last step of the three handlers.                  *)
GenerateTokens(r) ==
  /\ req[r].pc = "generate"
  /\ Len(token) < MaxTokens
  /\ token' = Append(token, [user |-> req[r].user, from |-> req[r].from,
                             isRevoked |-> FALSE, expired |-> FALSE])
  /\ Goto(r, Idle)
  /\ UNCHANGED <<user, wallet>>

(* logout(): the token is one of the user's own.                           *)
Logout(t) ==
  /\ t \in DOMAIN token
  /\ token' = IsRevoked(t)
  /\ UNCHANGED <<user, wallet, req>>

(* expiresAt passes. *)
Expire(t) ==
  /\ t \in DOMAIN token
  /\ token' = [token EXCEPT ![t].expired = TRUE]
  /\ UNCHANGED <<user, wallet, req>>

(* updateStatus() of UsersService, for an admin.                           *)
UpdateStatus(u, status) ==
  /\ u \in DOMAIN user
  /\ user' = [user EXCEPT ![u].status = status]
  /\ UNCHANGED <<wallet, token, req>>

(* The process that serves the request dies, or one of its statements      *)
(* throws: what was committed stays.                                       *)
Crash(r) ==
  /\ r \in Crashing
  /\ req[r] # Idle
  /\ Goto(r, Idle)
  /\ UNCHANGED <<user, wallet, token>>

RequestStep(r) == CreateUser(r) \/ Revoke(r) \/ GenerateTokens(r)

Next ==
  \/ \E r \in Requests :
       \/ \E m \in Emails : Register(r, m)
       \/ \E u \in UserIds : Login(r, u)
       \/ \E t \in 1 .. MaxTokens : Refresh(r, t)
       \/ RequestStep(r)
       \/ Crash(r)
  \/ \E t \in 1 .. MaxTokens : Logout(t) \/ Expire(t)
  \/ \E u \in UserIds, status \in UserStatus : UpdateStatus(u, status)

(* The event loop resumes a request whose await has settled.               *)
Fairness == \A r \in Requests : WF_vars(RequestStep(r))

Spec == Init /\ [][Next]_vars

FairSpec == Spec /\ Fairness

-----------------------------------------------------------------------------
TypeOK ==
  /\ DOMAIN user \subseteq UserIds
  /\ user \in [DOMAIN user -> [email : Emails, status : UserStatus]]
  /\ wallet \subseteq UserIds
  /\ token \in Seq(RefreshToken)
  /\ req \in [Requests -> {Idle} \cup AuthRequest]

(* Requests that register one email at once leave one user, with a         *)
(* balance row, and every token and request in progress is of such a user. *)
AccountsWhole ==
  /\ \A u, v \in DOMAIN user : user[u].email = user[v].email => u = v
  /\ wallet = DOMAIN user
  /\ \A t \in DOMAIN token : token[t].user \in wallet
  /\ \A r \in Requests : req[r].pc \in {"revoke", "generate"} => req[r].user \in wallet

(* A token that has been exchanged is revoked, and so is one that is going *)
(* to be: no refresh leaves the old token and the new one good together,   *)
(* and the new one is for the same user.                                   *)
RotationRevokes ==
  /\ \A s \in DOMAIN token : token[s].from # 0 =>
       LET old == token[s].from
       IN  /\ old \in 1 .. s - 1
           /\ token[old].isRevoked
           /\ token[old].user = token[s].user
  /\ \A r \in Requests :
       /\ req[r].pc = "revoke" => req[r].from # 0
       /\ req[r].pc \in {"revoke", "generate"} /\ req[r].from # 0 =>
            LET old == req[r].from
            IN  /\ old \in DOMAIN token
                /\ req[r].pc = "generate" => token[old].isRevoked
                /\ token[old].user = req[r].user

SessionsInv == TypeOK /\ AccountsWhole /\ RotationRevokes

(* README "refresh tokens are single-use", as far as the code keeps it:    *)
(* refreshes that raced for a token exchange it once each, and no more.    *)
Successors(t) == {s \in DOMAIN token : token[s].from = t}

InFlight(t) == {r \in Requests : req[r].pc \in {"revoke", "generate"} /\ req[r].from = t}

Exchanges(t) == Cardinality(Successors(t)) + Cardinality(InFlight(t))

SingleUsePerRequest == \A t \in DOMAIN token : Exchanges(t) <= Cardinality(Requests)

(* A token that is revoked, by a refresh or by a logout, buys nothing new: *)
(* only refreshes that had checked it before can still answer.             *)
RevokedBuysNothing ==
  [][\A t \in DOMAIN token : token[t].isRevoked => Exchanges(t)' <= Exchanges(t)]_vars

(* Every refresh that has found the old token valid, and whose process and *)
(* statements do not fail, delivers a new one of its own: a token is       *)
(* exchanged as often as it has been and is being exchanged by such        *)
(* refreshes, so that the token of a racing refresh is not taken for the   *)
(* answer.  The bound on tokens is the model's, not the code's.            *)
Promised(t) == Cardinality(Successors(t)) + Cardinality(InFlight(t) \ Crashing)

RefreshIsAnswered == \A t, n \in 1 .. MaxTokens :
  (t \in DOMAIN token /\ Promised(t) = n)
    ~> (Cardinality(Successors(t)) >= n \/ Len(token) = MaxTokens)
=============================================================================
