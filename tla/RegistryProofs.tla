--------------------------- MODULE RegistryProofs ---------------------------
(***************************************************************************)
(* What Registry guarantees for any number of users, tokens and requests   *)
(* and any mix of calls, checked by TLAPS.                                 *)
(***************************************************************************)
EXTENDS Registry, Positions, FiniteSetTheorems, SequenceTheorems

USE RegistryAssumption

(* The shape of the rows and of the handlers, and what a handler was asked *)
(* to work on.                                                             *)
Row == [life : {"none", "live", "revoked"}, owner : {0} \union User,
        expires : Nat, scopes : SUBSET UNION Grants, from : Caller]

Handler ==
  [call : {"none", "create-token", "revoke-token", "rotate-token", "create-user",
           "delete-user", "create-task"},
   at : {"idle", "target", "insert", "list", "revoke", "limit", "row"},
   id : [by : Caller, user : {0} \union User],
   arg : Caller \union User \union Name, ask : Row, todo : SUBSET Token, upto : Nat]

Args ==
  \A r \in Requests :
    /\ req[r].call \in {"rotate-token", "revoke-token"} => req[r].arg \in Token
    /\ req[r].call = "create-token" => req[r].arg = 0
    /\ req[r].call = "create-user" => req[r].arg \in Name
    /\ req[r].call = "delete-user" => req[r].arg \in User

Shape ==
  /\ now \in Nat
  /\ mode \in {"look", "link", "backfill", "serving"}
  /\ mix \in Mixes
  /\ user \in [User -> Name \union {"none", "deleted"}]
  /\ token \in [Token -> Row]
  /\ task \subseteq [by : Caller, user : {0} \union User]
  /\ req \in [Requests -> Handler]
  /\ Args

(* Ids are given in order: the rows of a table are the first ones.         *)
DenseUsers ==
  /\ \A u \in User : user[u] # "none" <=> u <= Users
  /\ \A r \in Requests : req[r].call = "delete-user" => req[r].arg <= Users

DenseTokens ==
  \A t \in Token : /\ token[t].life # "none" <=> t <= Tokens
                   /\ token[t].life = "none" => token[t] = Unborn

LEMMA FirstOnes ==
  ASSUME NEW N \in Nat, NEW n \in 0..N, NEW S \in SUBSET (1..N),
         \A i \in 1..N : i \in S <=> i <= n
  PROVE  Cardinality(S) = n
<1>1. ASSUME NEW i \in 1..N
      PROVE  i <= n <=> i \in 1..n
  OBVIOUS
<1>2. S = 1..n
  <2>1. S \subseteq 1..n
    BY <1>1
  <2>2. 1..n \subseteq 1..N
    OBVIOUS
  <2>3. 1..n \subseteq S
    BY <1>1, <2>2
  <2>4. QED
    BY <2>1, <2>3
<1>3. QED
  BY <1>2, FS_Interval

LEMMA Counts ==
  /\ IsFiniteSet({u \in User : user[u] # "none"})
  /\ IsFiniteSet({t \in Token : token[t].life # "none"})
  /\ Users \in 0..MaxUsers /\ Tokens \in 0..MaxTokens
<1>1. /\ IsFiniteSet(User) /\ Cardinality(User) = MaxUsers
      /\ IsFiniteSet(Token) /\ Cardinality(Token) = MaxTokens
  BY FS_Interval DEF User, Token
<1>2. /\ IsFiniteSet({u \in User : user[u] # "none"}) /\ Users <= MaxUsers
      /\ IsFiniteSet({t \in Token : token[t].life # "none"}) /\ Tokens <= MaxTokens
  <2>1. /\ {u \in User : user[u] # "none"} \in SUBSET User
        /\ {t \in Token : token[t].life # "none"} \in SUBSET Token
    OBVIOUS
  <2>2. QED
    BY <1>1, <2>1, FS_Subset DEF Users, Tokens
<1>3. Users \in Nat /\ Tokens \in Nat
  BY <1>2, FS_CardinalityType DEF Users, Tokens
<1>4. QED
  BY <1>2, <1>3

LEMMA CountsNext == Tokens' \in 0..MaxTokens
<1>1. IsFiniteSet(Token) /\ Cardinality(Token) = MaxTokens
  BY FS_Interval DEF Token
<1>2. {t \in Token : token'[t].life # "none"} \in SUBSET Token
  OBVIOUS
<1>3. QED
  BY <1>1, <1>2, FS_Subset, FS_CardinalityType DEF Tokens

LEMMA UsersNext == Users' \in 0..MaxUsers
<1>1. IsFiniteSet(User) /\ Cardinality(User) = MaxUsers
  BY FS_Interval DEF User
<1>2. {u \in User : user'[u] # "none"} \in SUBSET User
  OBVIOUS
<1>3. QED
  BY <1>1, <1>2, FS_Subset, FS_CardinalityType DEF Users

LEMMA AdminType == Admin \in {0} \union User
  BY DEF Admin, Named

(* A request that begins is a handler with arguments of its kind.          *)
LEMMA BeginsType ==
  ASSUME Shape, NEW r \in Requests, NEW k \in Caller,
         NEW call, NEW at, NEW arg, NEW ask \in Row,
         Begins(r, k, call, at, arg, ask),
         call \in {"create-token", "revoke-token", "rotate-token", "create-user",
                  "delete-user", "create-task"},
         at \in {"target", "insert", "list", "revoke", "limit"},
         arg \in Caller \union User \union Name,
         call \in {"rotate-token", "revoke-token"} => arg \in Token,
         call = "create-token" => arg = 0,
         call = "create-user" => arg \in Name,
         call = "delete-user" => arg \in User
  PROVE  /\ Shape'
         /\ req[r].at = "idle" /\ mode = "serving"
         /\ UNCHANGED <<now, mode, tables, rate, bounds>>
         /\ \A s \in Requests : s # r => req'[s] = req[s]
         /\ req'[r].call = call /\ req'[r].at = at /\ req'[r].arg = arg
<1>1. /\ req[r].at = "idle" /\ mode = "serving"
      /\ UNCHANGED <<now, mode, tables, rate, bounds>>
  BY DEF Begins
<1>2. PICK id \in [by : Caller, user : {0} \union User] :
        req' = [req EXCEPT ![r] = [call |-> call, at |-> at, id |-> id, arg |-> arg,
                                   ask |-> ask, todo |-> {}, upto |-> 0]]
  <2>1. As(k) \in {0} \union User
    BY AdminType DEF As, Shape, Row, Caller
  <2>2. Nobody \in [by : Caller, user : {0} \union User]
    BY DEF Nobody, Caller
  <2>3. [by |-> k, user |-> As(k)] \in [by : Caller, user : {0} \union User]
    BY <2>1
  <2>4. QED
    BY <2>2, <2>3 DEF Begins
<1>4. req' \in [Requests -> Handler]
  BY <1>2 DEF Shape, Handler
<1>5. /\ req \in [Requests -> Handler]
      /\ \A s \in Requests : s # r => req'[s] = req[s]
      /\ req'[r].call = call /\ req'[r].at = at /\ req'[r].arg = arg
  BY <1>2 DEF Shape
<1>6. Args'
  BY <1>5 DEF Shape, Args
<1>7. QED
  BY <1>1, <1>4, <1>5, <1>6 DEF Shape, tables, bounds

(* The requests clients may send.                                          *)
LEMMA AskStep ==
  ASSUME Shape, NEW r \in Requests, NEW k \in Caller, Ask(r, k)
  PROVE  /\ Shape'
         /\ req[r].at = "idle" /\ mode = "serving"
         /\ UNCHANGED <<now, mode, tables, rate, bounds>>
         /\ \A s \in Requests : s # r => req'[s] = req[s]
         /\ \/ req'[r].call \notin {"rotate-token", "delete-user"}
            \/ req'[r].at = "list"
<1>1. Unborn \in Row
  BY DEF Unborn, Row, Caller
<1>2. CASE AskToken(r, k)
  <2>1. PICK u \in 0..mix.users, S \in Grants, e \in {0, now + 1} :
          Begins(r, k, "create-token", IF u \in {0, As(k)} THEN "insert" ELSE "target", 0,
              [Unborn EXCEPT !.owner = IF u = 0 THEN As(k) ELSE u, !.expires = e, !.scopes = S])
    BY <1>2 DEF AskToken
  <2>2. mix.users <= MaxUsers /\ mix.users \in Nat
    BY DEF Shape
  <2>3. As(k) \in {0} \union User /\ u \in {0} \union User
    BY <2>2, AdminType DEF As, Shape, Row, Caller, User
  <2> DEFINE ask == [Unborn EXCEPT !.owner = IF u = 0 THEN As(k) ELSE u,
                                   !.expires = e, !.scopes = S]
  <2>4. ask \in Row
    <3> DEFINE owned == [Unborn EXCEPT !.owner = IF u = 0 THEN As(k) ELSE u]
               dated == [owned EXCEPT !.expires = e]
    <3>1. owned \in Row
      BY <1>1, <2>3 DEF Row
    <3>2. dated \in Row
      <4>1. e \in Nat
        BY DEF Shape
      <4>2. QED
        BY <3>1, <4>1 DEF Row
    <3>3. [dated EXCEPT !.scopes = S] \in Row
      BY <3>2 DEF Row
    <3>4. QED
      BY <3>3
  <2> HIDE DEF ask
  <2>5. Begins(r, k, "create-token", IF u \in {0, As(k)} THEN "insert" ELSE "target", 0, ask)
    BY <2>1 DEF ask
  <2>6. QED
    BY <2>4, <2>5, BeginsType DEF Caller
<1>3. CASE AskRevoke(r, k) \/ AskRotate(r, k)
  BY <1>1, <1>3, BeginsType DEF AskRevoke, AskRotate, Caller
<1>4. CASE AskUser(r, k) \/ AskDelete(r, k)
  BY <1>1, <1>4, BeginsType DEF AskUser, AskDelete
<1>5. CASE AskTask(r, k)
  BY <1>1, <1>5, BeginsType DEF AskTask, Caller
<1>6. QED
  BY <1>2, <1>3, <1>4, <1>5 DEF Ask

-----------------------------------------------------------------------------
(* An inserted token is one row more, and no other row changes.            *)
LEMMA InsertTokenStep ==
  ASSUME Shape, DenseTokens,
         NEW owner \in {0} \union User, NEW expires \in Nat,
         NEW scopes \in SUBSET UNION Grants, NEW from \in Caller,
         InsertToken(owner, expires, scopes, from)
  PROVE  /\ Tokens + 1 \in Token
         /\ token[Tokens + 1].life = "none"
         /\ token' = [token EXCEPT ![Tokens + 1] =
              [life |-> "live", owner |-> owner, expires |-> expires,
               scopes |-> scopes, from |-> from]]
         /\ token' \in [Token -> Row]
         /\ Tokens' = Tokens + 1
         /\ DenseTokens'
<1>1. Tokens \in Nat /\ Tokens + 1 \in Token
  <2>1. mix.tokens \in 0..MaxTokens
    BY DEF Shape
  <2>2. QED
    BY <2>1, Counts DEF InsertToken, Token
<1>2. token[Tokens + 1].life = "none"
  <2>1. PICK t \in Token : t = Tokens + 1
    BY <1>1
  <2>2. token[t].life # "none" => t <= Tokens
    BY DEF DenseTokens
  <2>3. ~(t <= Tokens)
    BY <1>1, <2>1
  <2>4. QED
    BY <2>1, <2>2, <2>3
<1> DEFINE new == [life |-> "live", owner |-> owner, expires |-> expires,
                   scopes |-> scopes, from |-> from]
<1>3. new \in Row /\ token' = [token EXCEPT ![Tokens + 1] = new]
  <2>1. new \in Row
    BY DEF Row
  <2>2. QED
    BY <2>1 DEF InsertToken
<1>4. new.life = "live"
  OBVIOUS
<1> HIDE DEF new
<1>5. token' \in [Token -> Row]
  BY <1>3 DEF Shape
<1>6. \A t \in Token : /\ token'[t].life # "none" <=> t <= Tokens + 1
                       /\ token'[t].life = "none" => token'[t] = Unborn
  <2>1. ASSUME NEW t \in Token, t # Tokens + 1
        PROVE  token'[t] = token[t] /\ (t <= Tokens + 1 <=> t <= Tokens)
    BY <1>1, <1>3, <2>1 DEF Shape, Token
  <2>2. token'[Tokens + 1] = new
    BY <1>1, <1>3 DEF Shape
  <2>3. QED
    BY <1>1, <1>4, <2>1, <2>2 DEF DenseTokens
<1>7. Tokens' = Tokens + 1
  <2> DEFINE S == {t \in Token : token'[t].life # "none"}
  <2>1. S \in SUBSET (1..MaxTokens)
    BY DEF Token
  <2>2. \A i \in 1..MaxTokens : i \in S <=> i <= Tokens + 1
    <3>1. \A i \in Token : i \in S <=> i <= Tokens + 1
      BY <1>6
    <3>2. QED
      BY <3>1 DEF Token
  <2>3. Tokens + 1 \in 0..MaxTokens
    BY <1>1 DEF Token
  <2> HIDE DEF S
  <2>4. Cardinality(S) = Tokens + 1
    BY <2>1, <2>2, <2>3, FirstOnes
  <2>5. QED
    BY <2>4 DEF S, Tokens
<1>8. QED
  BY <1>1, <1>2, <1>3, <1>5, <1>6, <1>7 DEF DenseTokens, new

(* A revocation kills a live row and touches nothing else.                 *)
LEMMA RevokeTokenStep ==
  ASSUME Shape, DenseTokens, NEW t \in Token, RevokeToken(t)
  PROVE  /\ token' \in [Token -> Row]
         /\ Tokens' = Tokens
         /\ DenseTokens'
         /\ token[t].life # "none" => token'[t].life = "revoked"
         /\ \A s \in Token :
              /\ token'[s].owner = token[s].owner
              /\ token'[s].expires = token[s].expires
              /\ token'[s].scopes = token[s].scopes
              /\ token'[s].from = token[s].from
              /\ \/ token'[s].life = token[s].life
                 \/ token[s].life = "live" /\ token'[s].life = "revoked"
<1>1. token' \in [Token -> Row]
  BY DEF RevokeToken, Shape, Row
<1>2. \A s \in Token :
         /\ token'[s].owner = token[s].owner
         /\ token'[s].expires = token[s].expires
         /\ token'[s].scopes = token[s].scopes
         /\ token'[s].from = token[s].from
         /\ \/ token'[s] = token[s]
            \/ token[s].life = "live" /\ token'[s].life = "revoked"
  BY DEF RevokeToken, Shape, Row
<1>3. Tokens' = Tokens
  <2>1. {s \in Token : token'[s].life # "none"} = {s \in Token : token[s].life # "none"}
    BY <1>2
  <2>2. QED
    BY <2>1 DEF Tokens
<1>4. token[t].life # "none" => token'[t].life = "revoked"
  BY DEF RevokeToken, Shape, Row
<1>5. DenseTokens'
  BY <1>2, <1>3 DEF DenseTokens
<1>6. QED
  BY <1>1, <1>2, <1>3, <1>4, <1>5

(* Adopting the orphans gives rows without an owner one.                   *)
LEMMA LinkStep ==
  ASSUME Shape, DenseTokens, LinkOrphanTokens
  PROVE  /\ token' \in [Token -> Row]
         /\ Tokens' = Tokens
         /\ DenseTokens'
         /\ \A t \in Token :
              /\ token'[t].life = token[t].life
              /\ token'[t].expires = token[t].expires
              /\ token'[t].scopes = token[t].scopes
              /\ token'[t].from = token[t].from
              /\ token[t].life # "none" =>
                   token'[t].owner = IF token[t].owner = 0 THEN Admin ELSE token[t].owner
<1>1. token' = [t \in Token |-> IF token[t].life # "none" /\ token[t].owner = 0
                                 THEN [token[t] EXCEPT !.owner = Admin] ELSE token[t]]
  BY DEF LinkOrphanTokens
<1>2. token' \in [Token -> Row]
  BY <1>1, AdminType DEF Shape, Row
<1>3. \A t \in Token :
         /\ token[t].life = "none" => token'[t] = token[t]
         /\ token'[t].life = token[t].life
         /\ token'[t].expires = token[t].expires
         /\ token'[t].scopes = token[t].scopes
         /\ token'[t].from = token[t].from
         /\ token[t].life # "none" =>
              token'[t].owner = IF token[t].owner = 0 THEN Admin ELSE token[t].owner
  BY <1>1 DEF Shape, Row
<1>4. Tokens' = Tokens
  <2>1. {s \in Token : token'[s].life # "none"} = {s \in Token : token[s].life # "none"}
    BY <1>3
  <2>2. QED
    BY <2>1 DEF Tokens
<1>5. DenseTokens'
  BY <1>3, <1>4 DEF DenseTokens
<1>6. QED
  BY <1>2, <1>3, <1>4, <1>5

(* An inserted user is one row more.                                       *)
LEMMA InsertUserStep ==
  ASSUME Shape, DenseUsers, NEW n \in Name, Users < mix.users, InsertUser(n)
  PROVE  /\ Users + 1 \in User
         /\ user' = [user EXCEPT ![Users + 1] = n]
         /\ user' \in [User -> Name \union {"none", "deleted"}]
         /\ Users' = Users + 1
         /\ \A u \in User : user'[u] # "none" <=> u <= Users'
<1>1. Users \in Nat /\ Users + 1 \in User
  <2>1. mix.users \in 0..MaxUsers
    BY DEF Shape
  <2>2. QED
    BY <2>1, Counts DEF User
<1>2. user' = [user EXCEPT ![Users + 1] = n] /\ n # "none"
  BY DEF InsertUser
<1>3. user' \in [User -> Name \union {"none", "deleted"}]
  BY <1>2 DEF Shape
<1>4. \A u \in User : user'[u] # "none" <=> u <= Users + 1
  <2>1. ASSUME NEW u \in User, u # Users + 1
        PROVE  user'[u] = user[u] /\ (u <= Users + 1 <=> u <= Users)
    BY <1>1, <1>2, <2>1 DEF Shape, User
  <2>2. user'[Users + 1] # "none"
    BY <1>1, <1>2 DEF Shape
  <2>3. QED
    BY <1>1, <2>1, <2>2 DEF DenseUsers
<1>5. Users' = Users + 1
  <2> DEFINE S == {u \in User : user'[u] # "none"}
  <2>1. S \in SUBSET (1..MaxUsers)
    BY DEF User
  <2>2. \A i \in 1..MaxUsers : i \in S <=> i <= Users + 1
    <3>1. \A i \in User : i \in S <=> i <= Users + 1
      BY <1>4
    <3>2. QED
      BY <3>1 DEF User
  <2>3. Users + 1 \in 0..MaxUsers
    BY <1>1 DEF User
  <2> HIDE DEF S
  <2>4. Cardinality(S) = Users + 1
    BY <2>1, <2>2, <2>3, FirstOnes
  <2>5. QED
    BY <2>4 DEF S, Users
<1>6. QED
  BY <1>1, <1>2, <1>3, <1>4, <1>5

(* What insert of a token request adds.                                    *)
LEMMA InsertStep ==
  ASSUME Shape, DenseTokens, NEW r \in Requests, Insert(r)
  PROVE  \E owner \in {0} \union User, expires \in Nat,
            scopes \in SUBSET UNION Grants, from \in Caller :
           /\ InsertToken(owner, expires, scopes, from)
           /\ owner = req[r].ask.owner /\ scopes = req[r].ask.scopes /\ from = req[r].arg
           /\ \/ req[r].call = "create-token" /\ from = 0
              \/ /\ req[r].call = "rotate-token" /\ from \in Token
                 /\ \/ expires = req[r].ask.expires
                    \/ expires = 0 /\ now >= req[r].ask.expires
<1>1. req[r].ask \in Row
  BY DEF Shape, Handler
<1>2. PICK e \in IF req[r].call = "create-token" THEN {req[r].ask.expires}
                 ELSE Remaining(req[r].ask) :
        InsertToken(req[r].ask.owner, e, req[r].ask.scopes, req[r].arg)
  BY DEF Insert
<1>3. e \in Nat /\ \/ e = req[r].ask.expires
                   \/ e = 0 /\ now >= req[r].ask.expires
  BY <1>1 DEF Remaining, Row
<1>4. /\ \/ req[r].call = "create-token" /\ req[r].arg = 0
         \/ req[r].call = "rotate-token" /\ req[r].arg \in Token
      /\ req[r].arg \in Caller
  BY DEF Insert, Shape, Args, Caller
<1>5. req[r].ask.owner \in {0} \union User /\ req[r].ask.scopes \in SUBSET UNION Grants
  BY <1>1 DEF Row
<1>6. QED
  BY <1>2, <1>3, <1>4, <1>5

(* A handler that goes on keeps what it was asked; one that ends forgets.  *)
LEMMA GoesStep ==
  ASSUME Shape, NEW r \in Requests,
         NEW at \in {"insert", "revoke", "row"}, Goes(r, at)
  PROVE  /\ req' \in [Requests -> Handler]
         /\ \A s \in Requests : /\ req'[s].call = req[s].call
                                /\ req'[s].arg = req[s].arg
                                /\ req'[s].ask = req[s].ask
                                /\ req'[s].id = req[s].id
                                /\ req'[s].upto = req[s].upto
                                /\ s # r => req'[s] = req[s]
         /\ req'[r].at = at
  BY DEF Shape, Goes, Handler

LEMMA IdleType == Idle \in Handler /\ Unborn \in Row
<1>1. Unborn \in Row /\ Nobody \in [by : Caller, user : {0} \union User]
  BY DEF Unborn, Row, Nobody, Caller
<1>2. 0 \in Caller
  BY DEF Caller
<1>3. QED
  BY <1>1, <1>2 DEF Idle, Handler

LEMMA EndsStep ==
  ASSUME Shape, NEW r \in Requests, Ends(r)
  PROVE  /\ req' \in [Requests -> Handler]
         /\ \A s \in Requests : s # r => req'[s] = req[s]
         /\ req'[r] = Idle
  BY IdleType DEF Ends, Shape

(* The two listings: what they leave in the handler.                       *)
LEMMA ListRotationStep ==
  ASSUME Shape, NEW r \in Requests, ListForRotation(r)
  PROVE  /\ req' \in [Requests -> Handler]
         /\ \A s \in Requests : s # r => req'[s] = req[s]
         /\ req[r].arg \in Token
         /\ \/ req'[r] = Idle
            \/ /\ req'[r].call = "rotate-token" /\ req'[r].at = "revoke"
               /\ req'[r].arg = req[r].arg
               /\ req'[r].ask = token[req[r].arg]
               /\ req'[r].id = req[r].id /\ req'[r].upto = req[r].upto
               /\ token[req[r].arg].life = "live"
<1>1. req[r].call = "rotate-token" /\ req[r].arg \in Token
  BY DEF ListForRotation, Shape, Args
<1>2. token[req[r].arg] \in Row
  BY <1>1 DEF Shape
<1>3. CASE IsActive(token[req[r].arg])
  <2>1. req' = [req EXCEPT ![r] = [[req[r] EXCEPT !.at = "revoke"]
                                     EXCEPT !.ask = token[req[r].arg]]]
    BY <1>3 DEF ListForRotation, Shape
  <2> DEFINE step == [req[r] EXCEPT !.at = "revoke"]
             row == token[req[r].arg]
  <2>2. /\ step \in Handler /\ step.call = req[r].call /\ step.arg = req[r].arg /\ step.at = "revoke"
        /\ step.id = req[r].id /\ step.upto = req[r].upto
    BY DEF Shape, Handler
  <2>3. row \in Row
    BY <1>2
  <2>4. req' = [req EXCEPT ![r] = [step EXCEPT !.ask = row]]
    BY <2>1
  <2> HIDE DEF step, row
  <2> DEFINE last == [step EXCEPT !.ask = row]
  <2>5. /\ last \in Handler /\ last.call = step.call /\ last.arg = step.arg
        /\ last.at = step.at /\ last.ask = row /\ last.id = step.id /\ last.upto = step.upto
    BY <2>2, <2>3 DEF Handler
  <2> HIDE DEF last
  <2>6. req' = [req EXCEPT ![r] = last]
    BY <2>4 DEF last
  <2>7. row.life = "live"
    BY <1>3 DEF IsActive, row
  <2>8. QED
    BY <1>1, <2>2, <2>5, <2>6, <2>7 DEF Shape, row
<1>4. CASE ~IsActive(token[req[r].arg])
  BY <1>1, <1>4, EndsStep DEF ListForRotation
<1>5. QED
  BY <1>3, <1>4

LEMMA ListDeletionStep ==
  ASSUME Shape, NEW r \in Requests, ListForDeletion(r)
  PROVE  /\ req' \in [Requests -> Handler]
         /\ \A s \in Requests : s # r => req'[s] = req[s]
         /\ req'[r].call = "delete-user" /\ req'[r].at = "revoke"
         /\ req'[r].arg = req[r].arg
         /\ req'[r].todo = {t \in Token : token[t].owner = req[r].arg}
         /\ req'[r].upto = Tokens
         /\ req'[r].id = req[r].id /\ req'[r].ask = req[r].ask
<1> DEFINE step == [req[r] EXCEPT !.at = "revoke"]
           bound == [step EXCEPT !.upto = Tokens]
           owned == {t \in Token : token[t].owner = req[r].arg}
           last == [bound EXCEPT !.todo = owned]
<1>1. req' = [req EXCEPT ![r] = last]
  BY DEF ListForDeletion, Shape
<1>2. /\ step \in Handler /\ step.call = "delete-user" /\ step.arg = req[r].arg
      /\ step.at = "revoke" /\ step.id = req[r].id /\ step.ask = req[r].ask
  BY DEF ListForDeletion, Shape, Handler
<1>3. owned \in SUBSET Token /\ Tokens \in Nat
  BY Counts
<1> HIDE DEF step, owned
<1>4. /\ bound \in Handler /\ bound.call = "delete-user" /\ bound.arg = req[r].arg
      /\ bound.at = "revoke" /\ bound.upto = Tokens
      /\ bound.id = req[r].id /\ bound.ask = req[r].ask
  BY <1>2, <1>3 DEF Handler
<1> HIDE DEF bound
<1>5. /\ last \in Handler /\ last.call = "delete-user" /\ last.arg = req[r].arg
      /\ last.at = "revoke" /\ last.upto = Tokens /\ last.todo = owned
      /\ last.id = req[r].id /\ last.ask = req[r].ask
  BY <1>3, <1>4 DEF Handler
<1> HIDE DEF last
<1>6. QED
  BY <1>1, <1>5 DEF Shape, owned

LEMMA RevokeNextStep ==
  ASSUME Shape, NEW r \in Requests, RevokeNext(r)
  PROVE  /\ req' \in [Requests -> Handler]
         /\ \A s \in Requests : s # r => req'[s] = req[s]
         /\ req'[r].call = "delete-user" /\ req'[r].at = "revoke"
         /\ req'[r].arg = req[r].arg /\ req'[r].upto = req[r].upto
         /\ req'[r].id = req[r].id /\ req'[r].ask = req[r].ask
         /\ \E t \in req[r].todo :
              t \in Token /\ RevokeToken(t) /\ req'[r].todo = req[r].todo \ {t}
<1>1. PICK t \in req[r].todo :
        RevokeToken(t) /\ req' = [req EXCEPT ![r].todo = @ \ {t}]
  BY DEF RevokeNext
<1>2. t \in Token /\ req[r].todo \ {t} \in SUBSET Token
  BY DEF Shape, Handler
<1>3. req[r].call = "delete-user" /\ req[r].at = "revoke"
  BY DEF RevokeNext
<1>4. QED
  BY <1>1, <1>2, <1>3 DEF Shape, Handler

-----------------------------------------------------------------------------
(* A rotation under way knows its token: what it read of it is still so,   *)
(* and once it goes on to insert, the token is dead.                       *)
RotatingAt(r) ==
  LET old == token[req[r].arg]
      ask == req[r].ask
  IN req[r].call = "rotate-token" /\ req[r].at \in {"revoke", "insert"} =>
       /\ old.life # "none"
       /\ req[r].at = "insert" => old.life = "revoked"
       /\ ask.owner = old.owner /\ ask.scopes = old.scopes /\ ask.expires = old.expires

(* A deletion under way: the tokens that were there when it listed them    *)
(* are dead or still to do.                                                *)
DeletingAt(r) ==
  req[r].call = "delete-user" /\ req[r].at = "revoke" =>
    /\ req[r].upto <= Tokens
    /\ \A t \in Token :
         t <= req[r].upto /\ token[t].owner = req[r].arg =>
           t \in req[r].todo \/ token[t].life = "revoked"

(* The start of the server: nothing else runs, and its steps build on each *)
(* other.                                                                  *)
Starting ==
  /\ mode # "serving" => \A r \in Requests : req[r] = Idle
  /\ mode \in {"link", "backfill"} => Admin # 0
  /\ mode = "backfill" => \A t \in Token : token[t].life # "none" => token[t].owner # 0

Core == Shape /\ DenseUsers /\ DenseTokens
Working == \A r \in Requests : RotatingAt(r) /\ DeletingAt(r)
Family == RotatedIsRevoked /\ SuccessorKeeps

RegistryInv == Core /\ Working /\ Starting /\ Family

(* While requests are served, rows of the token table stay and only die.   *)
Grows ==
  /\ Tokens' >= Tokens
  /\ \A t \in Token : token[t].life # "none" =>
       /\ token'[t].owner = token[t].owner /\ token'[t].scopes = token[t].scopes
       /\ token'[t].expires = token[t].expires /\ token'[t].from = token[t].from
       /\ token'[t].life \in {token[t].life, "revoked"}

LEMMA RevokeGrows ==
  ASSUME Core, NEW t \in Token, RevokeToken(t)
  PROVE  Grows
<1>1. Tokens' = Tokens /\ Tokens \in Nat
  BY RevokeTokenStep, Counts DEF Core
<1>2. QED
  BY <1>1, RevokeTokenStep DEF Core, Grows

LEMMA InsertGrows ==
  ASSUME Core, NEW r \in Requests, Insert(r)
  PROVE  Grows
<1>1. Shape /\ DenseTokens
  BY DEF Core
<1>2. PICK owner \in {0} \union User, expires \in Nat,
           scopes \in SUBSET UNION Grants, from \in Caller :
        InsertToken(owner, expires, scopes, from)
  BY <1>1, InsertStep
<1>3. /\ Tokens' = Tokens + 1 /\ token[Tokens + 1].life = "none"
      /\ token' = [token EXCEPT ![Tokens + 1] =
           [life |-> "live", owner |-> owner, expires |-> expires,
            scopes |-> scopes, from |-> from]]
  BY <1>1, <1>2, InsertTokenStep
<1>4. \A t \in Token : token[t].life # "none" => token'[t] = token[t]
  BY <1>3 DEF Core, Shape
<1>5. Tokens' >= Tokens
  BY <1>3, Counts
<1>6. QED
  BY <1>4, <1>5 DEF Grows

(* Requests that do not move keep what they know of the tokens.            *)
LEMMA WorkingKept ==
  ASSUME Core, Grows, NEW s \in Requests, req'[s] = req[s],
         RotatingAt(s), DeletingAt(s)
  PROVE  RotatingAt(s)' /\ DeletingAt(s)'
<1>1. RotatingAt(s)'
  <2>1. req[s].call = "rotate-token" => req[s].arg \in Token
    BY DEF Core, Shape, Args
  <2>2. QED
    BY <2>1 DEF RotatingAt, Grows
<1>2. DeletingAt(s)'
  <2>1. Tokens' >= Tokens /\ Tokens \in Nat /\ Tokens' \in Nat
    BY Counts, CountsNext DEF Grows
  <2>2. req[s].upto \in Nat
    BY DEF Core, Shape, Handler
  <2>3. ASSUME NEW t \in Token, req[s].upto <= Tokens, t <= req[s].upto
        PROVE  token[t].life # "none"
    <3>1. t \in Nat
      BY DEF Token
    <3>2. t <= Tokens
      BY <2>1, <2>2, <2>3, <3>1
    <3>3. QED
      BY <3>2 DEF Core, DenseTokens
  <2>4. QED
    BY <2>1, <2>2, <2>3 DEF DeletingAt, Grows
<1>3. QED
  BY <1>1, <1>2

(* Rows that were there keep their relation to their predecessor.          *)
LEMMA FamilyKept ==
  ASSUME Core, Grows, Family, now' \in Nat, now' >= now,
         NEW t \in Token, token[t].life # "none", token'[t].from # 0
  PROVE  LET old == token'[token'[t].from]
         IN /\ old.life = "revoked"
            /\ token'[t].owner = old.owner
            /\ token'[t].scopes = old.scopes
            /\ token'[t].expires = old.expires \/ (token'[t].expires = 0 /\ now' >= old.expires)
<1>1. /\ token'[t].from = token[t].from /\ token'[t].owner = token[t].owner
      /\ token'[t].scopes = token[t].scopes /\ token'[t].expires = token[t].expires
  BY DEF Grows
<1>2. PICK p \in Token : p = token[t].from
  BY <1>1 DEF Core, Shape, Row, Caller
<1>3. /\ token[p].life = "revoked" /\ token[t].owner = token[p].owner
      /\ token[t].scopes = token[p].scopes
      /\ token[t].expires = token[p].expires \/ (token[t].expires = 0 /\ now >= token[p].expires)
  BY <1>1, <1>2 DEF Family, RotatedIsRevoked, SuccessorKeeps
<1>4. /\ token'[p].life = "revoked" /\ token'[p].owner = token[p].owner
      /\ token'[p].scopes = token[p].scopes /\ token'[p].expires = token[p].expires
  BY <1>3 DEF Grows
<1>5. now \in Nat /\ token[p].expires \in Nat
  BY DEF Core, Shape, Row
<1>6. token[t].expires = token[p].expires \/ (token[t].expires = 0 /\ now' >= token[p].expires)
  BY <1>3, <1>5
<1>7. QED
  BY <1>1, <1>2, <1>3, <1>4, <1>6

(* A step that adds no successor keeps the rows in their relation.         *)
LEMMA FamilyStep ==
  ASSUME Core, DenseTokens', Grows, Family, now' \in Nat, now' >= now,
         \A t \in Token : token[t].life = "none" => token'[t].from = 0
  PROVE  Family'
<1>1. ASSUME NEW t \in Token, token'[t].from # 0
      PROVE  token[t].life # "none"
  BY <1>1
<1>2. QED
  BY <1>1, FamilyKept DEF Family, RotatedIsRevoked, SuccessorKeeps

LEMMA SameTokens ==
  ASSUME Core, token' = token
  PROVE  /\ Grows /\ DenseTokens' /\ token' \in [Token -> Row]
         /\ Family /\ now' \in Nat /\ now' >= now => Family'
<1>1. Tokens' = Tokens
  BY DEF Tokens
<1>2. Grows
  BY <1>1, Counts DEF Grows
<1>3. DenseTokens'
  BY <1>1 DEF Core, DenseTokens
<1>4. \A t \in Token : token[t].life = "none" => token'[t].from = 0
  BY DEF Core, DenseTokens, Unborn
<1>5. QED
  BY <1>2, <1>3, <1>4, FamilyStep DEF Core, Shape

LEMMA RevokeFamily ==
  ASSUME Core, Family, NEW t \in Token, RevokeToken(t), now' = now
  PROVE  Family'
<1>1. DenseTokens' /\ Grows
  BY RevokeTokenStep, RevokeGrows DEF Core
<1>2. ASSUME NEW u \in Token, token[u].life = "none"
      PROVE  token'[u].from = 0
  BY <1>2, RevokeTokenStep DEF Core, DenseTokens, Unborn
<1>3. now \in Nat
  BY DEF Core, Shape
<1>4. QED
  BY <1>1, <1>2, <1>3, FamilyStep

(* A rotation's insert adds a successor of a dead token, with its owner,   *)
(* its scopes and its expiry.                                              *)
LEMMA InsertFamily ==
  ASSUME Core, Family, NEW r \in Requests, RotatingAt(r), Insert(r), now' = now
  PROVE  Family' /\ DenseTokens' /\ token' \in [Token -> Row]
<1>0. Shape /\ DenseTokens
  BY DEF Core
<1>1. PICK owner \in {0} \union User, expires \in Nat,
           scopes \in SUBSET UNION Grants, from \in Caller :
        /\ InsertToken(owner, expires, scopes, from)
        /\ owner = req[r].ask.owner /\ scopes = req[r].ask.scopes /\ from = req[r].arg
        /\ \/ req[r].call = "create-token" /\ from = 0
           \/ /\ req[r].call = "rotate-token" /\ from \in Token
              /\ \/ expires = req[r].ask.expires
                 \/ expires = 0 /\ now >= req[r].ask.expires
  BY <1>0, InsertStep
<1> DEFINE n == Tokens + 1
           new == [life |-> "live", owner |-> owner, expires |-> expires,
                   scopes |-> scopes, from |-> from]
<1>2. /\ n \in Token /\ token[n].life = "none"
      /\ token' = [token EXCEPT ![n] = new]
      /\ DenseTokens' /\ token' \in [Token -> Row]
  <2>1. InsertToken(owner, expires, scopes, from)
    BY <1>1
  <2>2. QED
    BY <1>0, <2>1, InsertTokenStep
<1>3. /\ new.owner = owner /\ new.expires = expires
      /\ new.scopes = scopes /\ new.from = from
  OBVIOUS
<1> HIDE DEF n, new
<1>4. token'[n] = new /\ \A t \in Token : t # n => token'[t] = token[t]
  BY <1>2 DEF Core, Shape
<1>5. now \in Nat /\ Grows
  BY InsertGrows DEF Core, Shape
<1>6. ASSUME NEW t \in Token, token'[t].from # 0
      PROVE  LET old == token'[token'[t].from]
             IN /\ old.life = "revoked"
                /\ token'[t].owner = old.owner
                /\ token'[t].scopes = old.scopes
                /\ token'[t].expires = old.expires \/ (token'[t].expires = 0 /\ now' >= old.expires)
  <2>1. CASE t = n
    <3>1. req[r].call = "rotate-token" /\ req[r].arg \in Token /\ token'[t].from = req[r].arg
      <4>1. token'[t].from = from
        BY <2>1, <1>3, <1>4
      <4>2. from # 0
        BY <4>1, <1>6
      <4>3. QED
        BY <4>1, <4>2, <1>1
    <3>2. req[r].at = "insert"
      BY DEF Insert
    <3>3. token[req[r].arg].life = "revoked" /\ token'[req[r].arg] = token[req[r].arg]
      <4>1. token[req[r].arg].life = "revoked"
        BY <3>1, <3>2 DEF RotatingAt
      <4>2. req[r].arg # n
        BY <4>1, <1>2
      <4>3. QED
        BY <3>1, <4>1, <4>2, <1>4
    <3>4. expires = req[r].ask.expires \/ (expires = 0 /\ now' >= req[r].ask.expires)
      BY <3>1, <1>1
    <3>5. /\ req[r].ask.owner = token[req[r].arg].owner
          /\ req[r].ask.scopes = token[req[r].arg].scopes
          /\ req[r].ask.expires = token[req[r].arg].expires
      BY <3>1, <3>2 DEF RotatingAt
    <3>6. /\ token'[t].owner = req[r].ask.owner /\ token'[t].scopes = req[r].ask.scopes
          /\ token'[t].expires = expires
      BY <2>1, <1>1, <1>3, <1>4
    <3>7. QED
      BY <3>1, <3>3, <3>4, <3>5, <3>6
  <2>2. CASE t # n
    <3>1. token[t].life # "none"
      BY <2>2, <1>4, <1>6 DEF Core, DenseTokens, Unborn
    <3>2. QED
      BY <3>1, <1>5, <1>6, FamilyKept
  <2>3. QED
    BY <2>1, <2>2
<1>7. Family'
  BY <1>6 DEF Family, RotatedIsRevoked, SuccessorKeeps
<1>8. QED
  BY <1>2, <1>7

-----------------------------------------------------------------------------
(* What a handler's step must leave for the invariant to survive.          *)
LEMMA ServeStep ==
  ASSUME RegistryInv, NEW r \in Requests, mode = "serving",
         UNCHANGED <<now, mode, mix>>,
         task' \subseteq [by : Caller, user : {0} \union User],
         user' \in [User -> Name \union {"none", "deleted"}],
         Users' >= Users, \A u \in User : user'[u] # "none" <=> u <= Users',
         token' \in [Token -> Row], DenseTokens', Grows, Family',
         req' \in [Requests -> Handler],
         \A s \in Requests : s # r => req'[s] = req[s],
         req'[r] = Idle \/ (req'[r].call = req[r].call /\ req'[r].arg = req[r].arg),
         RotatingAt(r)', DeletingAt(r)'
  PROVE  RegistryInv'
<1>1. Args'
  BY DEF RegistryInv, Core, Shape, Args, Idle
<1>2. Shape'
  BY <1>1 DEF RegistryInv, Core, Shape
<1>3. DenseUsers'
  <2>1. ASSUME NEW s \in Requests, req'[s].call = "delete-user"
        PROVE  req'[s].arg <= Users'
    <3>1. req[s].call = "delete-user" /\ req'[s].arg = req[s].arg
      BY <2>1 DEF Idle
    <3>2. req[s].arg <= Users /\ req[s].arg \in User
      BY <3>1 DEF RegistryInv, Core, DenseUsers, Shape, Args
    <3>3. req[s].arg \in Nat /\ Users \in Nat /\ Users' \in Nat
      BY <3>2, Counts, UsersNext DEF User
    <3>4. QED
      BY <3>1, <3>2, <3>3
  <2>2. QED
    BY <2>1 DEF DenseUsers
<1>4. Working'
  <2>1. ASSUME NEW s \in Requests, s # r
        PROVE  RotatingAt(s)' /\ DeletingAt(s)'
    BY <2>1, WorkingKept DEF RegistryInv, Working
  <2>2. QED
    BY <2>1 DEF Working
<1>5. Starting'
  BY DEF Starting
<1>6. QED
  BY <1>2, <1>3, <1>4, <1>5 DEF RegistryInv, Core

(* Steps that leave the tables as they are.                                *)
LEMMA SameUsers ==
  ASSUME Core, user' = user
  PROVE  /\ user' \in [User -> Name \union {"none", "deleted"}]
         /\ Users' >= Users
         /\ \A u \in User : user'[u] # "none" <=> u <= Users'
<1>1. Users' = Users
  BY DEF Users
<1>2. QED
  BY <1>1, Counts DEF Core, Shape, DenseUsers

LEMMA IdleWorks ==
  ASSUME NEW r \in Requests, req'[r] = Idle
  PROVE  RotatingAt(r)' /\ DeletingAt(r)'
  BY DEF RotatingAt, DeletingAt, Idle

LEMMA Busy ==
  ASSUME Starting, NEW r \in Requests, req[r].at # "idle"
  PROVE  mode = "serving"
  BY DEF Starting, Idle

(* Handlers that change no table of this proof but the request itself.     *)
LEMMA QuietHandlers ==
  ASSUME RegistryInv, NEW r \in Requests,
         CheckTarget(r) \/ ListForRotation(r) \/ ListForDeletion(r) \/ Limit(r)
  PROVE  RegistryInv'
<1> USE DEF tables, rate, bounds
<1>1. Core /\ Working /\ Starting /\ Family /\ Shape
  BY DEF RegistryInv, Core
<1>2. mode = "serving"
  BY <1>1, Busy DEF CheckTarget, ListForRotation, ListForDeletion, Limit
<1>3. UNCHANGED <<now, mode, mix, user, token, task>>
  BY DEF CheckTarget, ListForRotation, ListForDeletion, Limit
<1>4. /\ user' \in [User -> Name \union {"none", "deleted"}]
      /\ Users' >= Users /\ \A u \in User : user'[u] # "none" <=> u <= Users'
  BY <1>1, <1>3, SameUsers
<1>5. /\ token' \in [Token -> Row] /\ DenseTokens' /\ Grows /\ Family'
      /\ task' \subseteq [by : Caller, user : {0} \union User]
  BY <1>1, <1>3, SameTokens DEF Shape
<1>6. Tokens' = Tokens
  BY <1>3 DEF Tokens
<1>7. /\ req' \in [Requests -> Handler]
      /\ \A s \in Requests : s # r => req'[s] = req[s]
      /\ req'[r] = Idle \/ (req'[r].call = req[r].call /\ req'[r].arg = req[r].arg)
      /\ RotatingAt(r)' /\ DeletingAt(r)'
  <2>1. CASE CheckTarget(r)
    <3>1. CASE Goes(r, "insert")
      <4>1. req'[r].call = "create-token"
        BY <2>1, <3>1, <1>1, GoesStep DEF CheckTarget
      <4>2. QED
        BY <3>1, <4>1, <1>1, GoesStep DEF RotatingAt, DeletingAt
    <3>2. CASE Ends(r)
      BY <3>2, <1>1, EndsStep, IdleWorks
    <3>3. QED
      BY <2>1, <3>1, <3>2 DEF CheckTarget
  <2>2. CASE ListForRotation(r)
    <3>1. CASE req'[r] = Idle
      BY <2>2, <3>1, <1>1, ListRotationStep, IdleWorks
    <3>2. CASE req'[r] # Idle
      <4>1. /\ req'[r].call = "rotate-token" /\ req'[r].at = "revoke"
            /\ req'[r].arg = req[r].arg /\ req[r].arg \in Token
            /\ req'[r].ask = token[req[r].arg] /\ token[req[r].arg].life = "live"
        BY <2>2, <3>2, <1>1, ListRotationStep
      <4>2. RotatingAt(r)' /\ DeletingAt(r)'
        BY <4>1, <1>3 DEF RotatingAt, DeletingAt
      <4>3. QED
        BY <2>2, <4>1, <4>2, <1>1, ListRotationStep DEF ListForRotation
    <3>3. QED
      BY <3>1, <3>2
  <2>3. CASE ListForDeletion(r)
    <3>1. /\ req' \in [Requests -> Handler]
          /\ \A s \in Requests : s # r => req'[s] = req[s]
          /\ req'[r].call = "delete-user" /\ req'[r].at = "revoke"
          /\ req'[r].arg = req[r].arg
          /\ req'[r].todo = {t \in Token : token[t].owner = req[r].arg}
          /\ req'[r].upto = Tokens
      BY <2>3, <1>1, ListDeletionStep
    <3>2. req[r].call = "delete-user"
      BY <2>3 DEF ListForDeletion
    <3>3. RotatingAt(r)'
      BY <3>1 DEF RotatingAt
    <3>4. DeletingAt(r)'
      BY <3>1, <1>3, <1>6, Counts DEF DeletingAt
    <3>5. QED
      BY <3>1, <3>2, <3>3, <3>4
  <2>4. CASE Limit(r)
    <3>1. CASE Goes(r, "row")
      <4>1. req'[r].at = "row"
        BY <3>1, <1>1, GoesStep
      <4>2. RotatingAt(r)' /\ DeletingAt(r)'
        BY <4>1 DEF RotatingAt, DeletingAt
      <4>3. QED
        BY <3>1, <4>2, <1>1, GoesStep
    <3>2. CASE Ends(r)
      BY <3>2, <1>1, EndsStep, IdleWorks
    <3>3. QED
      BY <2>4, <3>1, <3>2 DEF Limit
  <2>5. QED
    BY <2>1, <2>2, <2>3, <2>4
<1>8. QED
  BY <1>2, <1>3, <1>4, <1>5, <1>7, ServeStep

(* Handlers that write the token table.                                    *)
LEMMA TokenHandlers ==
  ASSUME RegistryInv, NEW r \in Requests, Revoke(r) \/ Insert(r) \/ RevokeNext(r)
  PROVE  RegistryInv'
<1> USE DEF rate, bounds
<1>1. Core /\ Working /\ Starting /\ Family /\ Shape /\ RotatingAt(r) /\ DeletingAt(r)
  BY DEF RegistryInv, Core, Working
<1>2. mode = "serving"
  BY <1>1, Busy DEF Revoke, Insert, RevokeNext
<1>3. UNCHANGED <<now, mode, mix, user, task>>
  BY DEF Revoke, Insert, RevokeNext
<1>4. /\ user' \in [User -> Name \union {"none", "deleted"}]
      /\ Users' >= Users /\ \A u \in User : user'[u] # "none" <=> u <= Users'
  BY <1>1, <1>3, SameUsers
<1>5. task' \subseteq [by : Caller, user : {0} \union User]
  BY <1>1, <1>3 DEF Shape
<1>6. ASSUME NEW t \in Token, RevokeToken(t)
      PROVE  token' \in [Token -> Row] /\ DenseTokens' /\ Grows /\ Family'
  BY <1>1, <1>3, <1>6, RevokeTokenStep, RevokeGrows, RevokeFamily DEF Core
<1>7. CASE Insert(r)
  <2>1. token' \in [Token -> Row] /\ DenseTokens' /\ Grows /\ Family'
    BY <1>1, <1>3, <1>7, InsertFamily, InsertGrows
  <2>2. /\ req' \in [Requests -> Handler]
        /\ \A s \in Requests : s # r => req'[s] = req[s]
        /\ req'[r] = Idle
    BY <1>1, <1>7, EndsStep DEF Insert
  <2>3. RotatingAt(r)' /\ DeletingAt(r)'
    BY <2>2, IdleWorks
  <2>4. QED
    BY <1>2, <1>3, <1>4, <1>5, <2>1, <2>2, <2>3, ServeStep
<1>8. CASE Revoke(r)
  <2>1. /\ req[r].arg \in Token /\ RevokeToken(req[r].arg)
        /\ req[r].call \in {"revoke-token", "rotate-token"} /\ req[r].at = "revoke"
    BY <1>1, <1>8 DEF Revoke, Shape, Args
  <2>2. token' \in [Token -> Row] /\ DenseTokens' /\ Grows /\ Family'
    BY <2>1, <1>6
  <2>3. CASE Ends(r)
    <3>1. /\ req' \in [Requests -> Handler]
          /\ \A s \in Requests : s # r => req'[s] = req[s]
          /\ req'[r] = Idle
      BY <1>1, <2>3, EndsStep
    <3>2. RotatingAt(r)' /\ DeletingAt(r)'
      BY <3>1, IdleWorks
    <3>3. QED
      BY <1>2, <1>3, <1>4, <1>5, <2>2, <3>1, <3>2, ServeStep
  <2>4. CASE req[r].call = "rotate-token" /\ Goes(r, "insert")
    <3>1. /\ req' \in [Requests -> Handler]
          /\ \A s \in Requests : s # r => req'[s] = req[s]
          /\ req'[r].call = req[r].call /\ req'[r].arg = req[r].arg
          /\ req'[r].ask = req[r].ask /\ req'[r].at = "insert"
      BY <1>1, <2>4, GoesStep
    <3>2. /\ token[req[r].arg].life # "none"
          /\ req[r].ask.owner = token[req[r].arg].owner
          /\ req[r].ask.scopes = token[req[r].arg].scopes
          /\ req[r].ask.expires = token[req[r].arg].expires
      BY <1>1, <2>1, <2>4 DEF RotatingAt
    <3>3. token'[req[r].arg].life = "revoked"
      BY <1>1, <2>1, <3>2, RevokeTokenStep DEF Core
    <3>4. /\ token'[req[r].arg].owner = token[req[r].arg].owner
          /\ token'[req[r].arg].scopes = token[req[r].arg].scopes
          /\ token'[req[r].arg].expires = token[req[r].arg].expires
      BY <2>1, <2>2, <3>2 DEF Grows
    <3>5. RotatingAt(r)'
      BY <3>1, <3>2, <3>3, <3>4 DEF RotatingAt
    <3>6. DeletingAt(r)'
      BY <2>4, <3>1 DEF DeletingAt
    <3>7. QED
      BY <1>2, <1>3, <1>4, <1>5, <2>2, <3>1, <3>5, <3>6, ServeStep
  <2>5. QED
    BY <1>8, <2>1, <2>3, <2>4 DEF Revoke
<1>9. CASE RevokeNext(r)
  <2>1. PICK t \in Token :
          /\ t \in req[r].todo /\ RevokeToken(t) /\ req'[r].todo = req[r].todo \ {t}
    BY <1>1, <1>9, RevokeNextStep
  <2>2. token' \in [Token -> Row] /\ DenseTokens' /\ Grows /\ Family'
    BY <2>1, <1>6
  <2>3. /\ req' \in [Requests -> Handler]
        /\ \A s \in Requests : s # r => req'[s] = req[s]
        /\ req'[r].call = "delete-user" /\ req[r].call = "delete-user"
        /\ req'[r].at = "revoke" /\ req[r].at = "revoke"
        /\ req'[r].arg = req[r].arg /\ req'[r].upto = req[r].upto
    BY <1>1, <1>9, RevokeNextStep DEF RevokeNext
  <2>4. RotatingAt(r)'
    BY <2>3 DEF RotatingAt
  <2>5. Tokens' = Tokens
    BY <1>1, <2>1, RevokeTokenStep DEF Core
  <2>6. ASSUME NEW u \in Token, u <= req[r].upto, token'[u].owner = req[r].arg
        PROVE  u \in req'[r].todo \/ token'[u].life = "revoked"
    <3>1. /\ token'[u].owner = token[u].owner
          /\ token[u].life = "revoked" => token'[u].life = "revoked"
          /\ u = t /\ token[u].life # "none" => token'[u].life = "revoked"
      BY <1>1, <2>1, RevokeTokenStep DEF Core
    <3>2. u \in req[r].todo \/ token[u].life = "revoked"
      BY <1>1, <2>3, <2>6, <3>1 DEF DeletingAt
    <3>3. token[u].life # "none"
      <4>1. u <= Tokens
        <5>1. req[r].upto <= Tokens /\ req[r].upto \in Nat
          BY <1>1, <2>3 DEF DeletingAt, Shape, Handler
        <5>2. u \in Nat /\ Tokens \in Nat
          BY Counts DEF Token
        <5>3. QED
          BY <2>6, <5>1, <5>2
      <4>2. QED
        BY <1>1, <4>1 DEF Core, DenseTokens
    <3>4. QED
      BY <2>1, <3>1, <3>2, <3>3
  <2>7. DeletingAt(r)'
    BY <1>1, <2>3, <2>5, <2>6 DEF DeletingAt
  <2>8. QED
    BY <1>2, <1>3, <1>4, <1>5, <2>2, <2>3, <2>4, <2>7, ServeStep
<1>10. QED
  BY <1>7, <1>8, <1>9

(* Handlers that write the users or the tasks.                             *)
LEMMA RowHandlers ==
  ASSUME RegistryInv, NEW r \in Requests,
         InsertNewUser(r) \/ DeleteUser(r) \/ InsertTask(r)
  PROVE  RegistryInv'
<1> USE DEF rate, bounds
<1>1. Core /\ Starting /\ Family /\ Shape /\ DenseUsers
  BY DEF RegistryInv, Core
<1>2. mode = "serving" /\ Ends(r)
  BY <1>1, Busy DEF InsertNewUser, DeleteUser, InsertTask
<1>3. UNCHANGED <<now, mode, mix, token>>
  BY DEF InsertNewUser, DeleteUser, InsertTask
<1>4. /\ req' \in [Requests -> Handler]
      /\ \A s \in Requests : s # r => req'[s] = req[s]
      /\ req'[r] = Idle /\ RotatingAt(r)' /\ DeletingAt(r)'
  BY <1>1, <1>2, EndsStep, IdleWorks
<1>5. token' \in [Token -> Row] /\ DenseTokens' /\ Grows /\ Family'
  BY <1>1, <1>3, SameTokens DEF Shape
<1>6. task' \subseteq [by : Caller, user : {0} \union User]
  BY <1>1 DEF InsertNewUser, DeleteUser, InsertTask, Shape, Handler
<1>7. /\ user' \in [User -> Name \union {"none", "deleted"}]
      /\ Users' >= Users /\ \A u \in User : user'[u] # "none" <=> u <= Users'
  <2>1. CASE user' = user
    BY <2>1, <1>1, SameUsers
  <2>2. CASE InsertNewUser(r) /\ user' # user
    <3>1. /\ Users < mix.users /\ InsertUser(req[r].arg) /\ req[r].arg \in Name
      BY <1>1, <2>2 DEF InsertNewUser, Shape, Args
    <3>2. Users \in Nat
      BY Counts
    <3>3. QED
      BY <1>1, <3>1, <3>2, InsertUserStep
  <2>3. CASE DeleteUser(r)
    <3>1. /\ user' = [user EXCEPT ![req[r].arg] = "deleted"]
          /\ req[r].arg \in User /\ req[r].arg <= Users
      BY <1>1, <2>3 DEF DeleteUser, Shape, Args, DenseUsers
    <3>2. user' \in [User -> Name \union {"none", "deleted"}]
      BY <1>1, <3>1 DEF Shape
    <3>3. user[req[r].arg] # "none"
      BY <1>1, <3>1 DEF DenseUsers
    <3>4. \A u \in User : user'[u] # "none" <=> user[u] # "none"
      BY <1>1, <3>1, <3>3 DEF Shape
    <3>5. Users' = Users
      <4>1. {u \in User : user'[u] # "none"} = {u \in User : user[u] # "none"}
        BY <3>4
      <4>2. QED
        BY <4>1 DEF Users
    <3>6. QED
      BY <1>1, <3>2, <3>4, <3>5, Counts DEF DenseUsers
  <2>4. QED
    BY <2>1, <2>2, <2>3 DEF InsertTask
<1>8. QED
  BY <1>2, <1>3, <1>4, <1>5, <1>6, <1>7, ServeStep

(* A request begins.                                                       *)
LEMMA AskKeeps ==
  ASSUME RegistryInv, NEW r \in Requests, NEW k \in Caller, Ask(r, k)
  PROVE  RegistryInv'
<1> USE DEF tables, rate, bounds
<1>1. Core /\ Working /\ Starting /\ Family /\ Shape /\ DenseUsers
  BY DEF RegistryInv, Core
<1>2. /\ Shape' /\ mode = "serving"
      /\ UNCHANGED <<now, mode, mix, user, token, task>>
      /\ \A s \in Requests : s # r => req'[s] = req[s]
      /\ \/ req'[r].call \notin {"rotate-token", "delete-user"}
         \/ req'[r].at = "list"
  BY <1>1, AskStep
<1>3. DenseTokens' /\ Grows /\ Family' /\ Tokens' = Tokens
  BY <1>1, <1>2, SameTokens DEF Shape, Tokens
<1>4. RotatingAt(r)' /\ DeletingAt(r)'
  BY <1>2 DEF RotatingAt, DeletingAt
<1>5. Working'
  <2>1. ASSUME NEW s \in Requests, s # r
        PROVE  RotatingAt(s)' /\ DeletingAt(s)'
    BY <2>1, <1>1, <1>2, <1>3, WorkingKept DEF Working
  <2>2. QED
    BY <2>1, <1>4 DEF Working
<1>6. DenseUsers'
  <2>1. Users' = Users
    BY <1>2 DEF Users
  <2>2. \A s \in Requests : s # r /\ req'[s].call = "delete-user" => req'[s].arg <= Users'
    BY <1>1, <1>2, <2>1 DEF DenseUsers
  <2>3. req'[r].call = "delete-user" => req'[r].arg <= Users'
    <3>1. CASE AskDelete(r, k)
      <4>1. PICK u \in User : There(u) /\ Begins(r, k, "delete-user", "list", u, Unborn)
        BY <3>1 DEF AskDelete
      <4>2. user[u] # "none"
        BY <4>1 DEF There
      <4>3. u <= Users
        BY <1>1, <4>2 DEF DenseUsers
      <4>4. req'[r].arg = u
        BY <1>1, <4>1 DEF Begins, Shape
      <4>5. QED
        BY <2>1, <4>3, <4>4
    <3>2. CASE ~AskDelete(r, k)
      <4>1. ASSUME NEW call, NEW at, NEW arg, NEW ask, Begins(r, k, call, at, arg, ask)
            PROVE  req'[r].call = call
        BY <1>1, <4>1 DEF Begins, Shape
      <4>2. QED
        BY <3>2, <4>1 DEF Ask, AskToken, AskRevoke, AskRotate, AskUser, AskTask
    <3>3. QED
      BY <3>1, <3>2
  <2>4. QED
    BY <1>1, <1>2, <2>1, <2>2, <2>3 DEF DenseUsers
<1>7. Starting'
  BY <1>2 DEF Starting
<1>8. QED
  BY <1>2, <1>3, <1>5, <1>6, <1>7 DEF RegistryInv, Core

(* With no request in progress there is nothing for them to know.          *)
LEMMA AllIdle ==
  ASSUME \A r \in Requests : req'[r] = Idle
  PROVE  /\ Working'
         /\ Args'
         /\ \A r \in Requests : req'[r].call # "delete-user"
<1>1. \A r \in Requests : req'[r].call = "none"
  BY DEF Idle
<1>2. Args'
  BY <1>1 DEF Args
<1>3. Working'
  BY IdleWorks DEF Working
<1>4. QED
  BY <1>1, <1>2, <1>3

(* The steps of the start.                                                 *)
LEMMA StartKeeps ==
  ASSUME RegistryInv, FindAdmin \/ LinkOrphanTokens \/ BackfillTasks
  PROVE  RegistryInv'
<1> USE DEF rate, bounds
<1>1. Core /\ Working /\ Starting /\ Family /\ Shape /\ DenseUsers /\ DenseTokens
  BY DEF RegistryInv, Core
<1>2. mode # "serving" /\ UNCHANGED <<now, mix, req>>
  BY DEF FindAdmin, LinkOrphanTokens, BackfillTasks
<1>3. \A r \in Requests : req'[r] = Idle
  BY <1>1, <1>2 DEF Starting
<1>4. Working' /\ Args' /\ \A r \in Requests : req'[r].call # "delete-user"
  BY <1>3, AllIdle
<1>5. CASE FindAdmin
  <2>1. UNCHANGED <<token, task>> /\ mode' = "link"
    BY <1>5 DEF FindAdmin
  <2>2. DenseTokens' /\ Family' /\ token' \in [Token -> Row]
    BY <1>1, <1>2, <2>1, SameTokens DEF Shape
  <2>3. /\ user' \in [User -> Name \union {"none", "deleted"}]
        /\ \A u \in User : user'[u] # "none" <=> u <= Users'
        /\ Admin' # 0
    <3>1. CASE Admin # 0 /\ user' = user
      BY <3>1, <1>1, SameUsers DEF Admin, Named
    <3>2. CASE Users < mix.users /\ InsertUser("admin")
      <4>1. /\ Users + 1 \in User /\ user' = [user EXCEPT ![Users + 1] = "admin"]
            /\ user' \in [User -> Name \union {"none", "deleted"}]
            /\ \A u \in User : user'[u] # "none" <=> u <= Users'
        BY <1>1, <3>2, InsertUserStep
      <4>2. user'[Users + 1] = "admin"
        BY <1>1, <4>1 DEF Shape
      <4>3. Named("admin")' # {} /\ Named("admin")' \subseteq User
        BY <4>1, <4>2 DEF Named
      <4>4. Admin' \in User
        BY <4>3 DEF Admin
      <4>5. QED
        BY <4>1, <4>4 DEF User
    <3>3. QED
      BY <1>5, <3>1, <3>2 DEF FindAdmin
  <2>4. Shape'
    BY <1>1, <1>2, <1>4, <2>1, <2>2, <2>3 DEF Shape
  <2>5. DenseUsers'
    BY <1>4, <2>3 DEF DenseUsers
  <2>6. Starting'
    BY <1>3, <2>1, <2>3 DEF Starting
  <2>7. QED
    BY <1>4, <2>2, <2>4, <2>5, <2>6 DEF RegistryInv, Core
<1>6. ASSUME UNCHANGED user
      PROVE  DenseUsers' /\ Admin' = Admin
  <2>1. Users' = Users
    BY <1>6 DEF Users
  <2>2. QED
    BY <1>1, <1>4, <1>6, <2>1 DEF DenseUsers, Admin, Named
<1>7. CASE LinkOrphanTokens
  <2>1. UNCHANGED <<user, task>> /\ mode = "link" /\ mode' = "backfill"
    BY <1>7 DEF LinkOrphanTokens
  <2>2. DenseUsers' /\ Admin' = Admin /\ Admin # 0
    BY <1>1, <1>6, <2>1 DEF Starting
  <2>3. /\ token' \in [Token -> Row] /\ DenseTokens'
        /\ \A t \in Token :
             /\ token'[t].life = token[t].life
             /\ token'[t].expires = token[t].expires
             /\ token'[t].scopes = token[t].scopes
             /\ token'[t].from = token[t].from
             /\ token[t].life # "none" =>
                  token'[t].owner = IF token[t].owner = 0 THEN Admin ELSE token[t].owner
    BY <1>1, <1>7, LinkStep
  <2>4. Family'
    <3>1. ASSUME NEW t \in Token, token'[t].from # 0
          PROVE  LET old == token'[token'[t].from]
                 IN /\ old.life = "revoked"
                    /\ token'[t].owner = old.owner
                    /\ token'[t].scopes = old.scopes
                    /\ token'[t].expires = old.expires
                         \/ (token'[t].expires = 0 /\ now' >= old.expires)
      <4>1. token[t].from # 0 /\ token[t].life # "none"
        BY <1>1, <2>3, <3>1 DEF DenseTokens, Unborn
      <4>2. PICK p \in Token : p = token[t].from
        BY <1>1, <4>1 DEF Shape, Row, Caller
      <4>3. /\ token[p].life = "revoked" /\ token[t].owner = token[p].owner
            /\ token[t].scopes = token[p].scopes
            /\ token[t].expires = token[p].expires
                 \/ (token[t].expires = 0 /\ now >= token[p].expires)
        BY <1>1, <4>1, <4>2 DEF Family, RotatedIsRevoked, SuccessorKeeps
      <4>4. token'[t].owner = token'[p].owner
        BY <2>3, <4>1, <4>3
      <4>5. QED
        BY <1>2, <2>3, <4>2, <4>3, <4>4
    <3>2. QED
      BY <3>1 DEF Family, RotatedIsRevoked, SuccessorKeeps
  <2>5. Shape'
    BY <1>1, <1>2, <1>4, <2>1, <2>3 DEF Shape
  <2>6. Starting'
    BY <1>3, <2>1, <2>2, <2>3 DEF Starting
  <2>7. QED
    BY <1>4, <2>2, <2>3, <2>4, <2>5, <2>6 DEF RegistryInv, Core
<1>8. CASE BackfillTasks
  <2>1. /\ UNCHANGED <<user, token>> /\ mode' = "serving"
        /\ task' = {[k EXCEPT !.user = IF @ = 0 THEN Admin ELSE @] : k \in task}
    BY <1>8 DEF BackfillTasks
  <2>2. task' \subseteq [by : Caller, user : {0} \union User]
    <3>1. ASSUME NEW k \in [by : Caller, user : {0} \union User]
          PROVE  [k EXCEPT !.user = IF @ = 0 THEN Admin ELSE @]
                   \in [by : Caller, user : {0} \union User]
      BY AdminType
    <3>2. task \subseteq [by : Caller, user : {0} \union User]
      BY <1>1 DEF Shape
    <3>3. QED
      BY <2>1, <3>1, <3>2
  <2>3. DenseTokens' /\ Family' /\ token' \in [Token -> Row]
    BY <1>1, <1>2, <2>1, SameTokens DEF Shape
  <2>4. Shape'
    BY <1>1, <1>2, <1>4, <2>1, <2>2 DEF Shape
  <2>5. Starting'
    BY <2>1 DEF Starting
  <2>6. QED
    BY <1>4, <1>6, <2>1, <2>3, <2>4, <2>5 DEF RegistryInv, Core
<1>9. QED
  BY <1>5, <1>7, <1>8

(* Time, a crash, or nothing.                                              *)
LEMMA RestKeeps ==
  ASSUME RegistryInv, Tick \/ Crash \/ UNCHANGED rvars
  PROVE  RegistryInv'
<1> USE DEF tables, rate, bounds
<1>1. Core /\ Working /\ Starting /\ Family /\ Shape /\ DenseUsers /\ now \in Nat
  BY DEF RegistryInv, Core, Shape
<1>2. UNCHANGED <<user, token, task, mix>> /\ now' \in Nat /\ now' >= now
  BY <1>1 DEF Tick, Crash, rvars
<1>3. DenseTokens' /\ Grows /\ Family'
  BY <1>1, <1>2, SameTokens
<1>4. Users' = Users /\ Admin' = Admin
  BY <1>2 DEF Users, Admin, Named
<1>5. CASE Crash
  <2>1. \A r \in Requests : req'[r] = Idle
    BY <1>5 DEF Crash
  <2>2. Working' /\ Args' /\ \A r \in Requests : req'[r].call # "delete-user"
    BY <2>1, AllIdle
  <2>3. DenseUsers'
    BY <1>1, <1>2, <1>4, <2>2 DEF DenseUsers
  <2>4. Idle \in Handler
    BY IdleType
  <2>5. req' \in [Requests -> Handler] /\ mode' = "look"
    BY <1>5, <2>4 DEF Crash
  <2>6. Shape'
    BY <1>1, <1>2, <2>2, <2>5 DEF Shape
  <2>7. Starting'
    BY <2>1, <2>5 DEF Starting
  <2>8. QED
    BY <1>3, <2>2, <2>3, <2>6, <2>7 DEF RegistryInv, Core
<1>6. CASE Tick \/ UNCHANGED rvars
  <2>1. req' = req /\ mode' = mode
    BY <1>6 DEF Tick, rvars
  <2>2. Working'
    BY <1>1, <1>3, <2>1, WorkingKept DEF Working
  <2>3. Shape'
    BY <1>1, <1>2, <2>1 DEF Shape, Args
  <2>4. DenseUsers'
    BY <1>1, <1>2, <1>4, <2>1 DEF DenseUsers
  <2>5. Starting'
    BY <1>1, <1>2, <1>4, <2>1 DEF Starting
  <2>6. QED
    BY <1>3, <2>2, <2>3, <2>4, <2>5 DEF RegistryInv, Core
<1>7. QED
  BY <1>5, <1>6

LEMMA RegistryStart == RegistryInit => RegistryInv
<1> SUFFICES ASSUME RegistryInit
             PROVE  RegistryInv
  OBVIOUS
<1> USE DEF RegistryInit
<1>1. \A t \in Token : token[t] = Unborn
  OBVIOUS
<1>2. Unborn \in Row /\ Idle \in Handler
  BY IdleType
<1>3. \A r \in Requests : req[r] = Idle
  OBVIOUS
<1>4. Args /\ Working
  BY <1>3 DEF Args, Working, RotatingAt, DeletingAt, Idle
<1>5. Shape
  BY <1>2, <1>4 DEF Shape
<1>6. Users = 0 /\ Tokens = 0
  <2>1. {u \in User : user[u] # "none"} = {}
    OBVIOUS
  <2>2. {t \in Token : token[t].life # "none"} = {}
    BY DEF Unborn
  <2>3. QED
    BY <2>1, <2>2, FS_EmptySet DEF Users, Tokens
<1>7. DenseUsers
  BY <1>3, <1>6 DEF DenseUsers, User, Idle
<1>8. DenseTokens
  BY <1>1, <1>6 DEF DenseTokens, Token, Unborn
<1>9. Starting
  BY <1>3 DEF Starting
<1>10. Family
  BY <1>1 DEF Family, RotatedIsRevoked, SuccessorKeeps, Unborn
<1>11. QED
  BY <1>4, <1>5, <1>7, <1>8, <1>9, <1>10 DEF RegistryInv, Core

LEMMA RegistryInductive == RegistryInv /\ [RegistryNext]_rvars => RegistryInv'
<1> SUFFICES ASSUME RegistryInv, [RegistryNext]_rvars
             PROVE  RegistryInv'
  OBVIOUS
<1>1. ASSUME NEW r \in Requests, Handle(r)
      PROVE  RegistryInv'
  BY <1>1, QuietHandlers, TokenHandlers, RowHandlers DEF Handle
<1>2. QED
  BY <1>1, AskKeeps, StartKeeps, RestKeeps DEF RegistryNext

LEMMA Invariance == RegistrySpec => []RegistryInv
  BY RegistryStart, RegistryInductive, PTL DEF RegistrySpec

-----------------------------------------------------------------------------
(* However rotations and revocations interleave, a token that has a        *)
(* successor is revoked (api/tokens.py:107).                               *)
THEOREM RotatedTheorem == RegistrySpec => []RotatedIsRevoked
<1>1. RegistryInv => RotatedIsRevoked
  BY DEF RegistryInv, Family
<1>2. QED
  BY <1>1, Invariance, PTL

(* A successor has the owner, the scopes and the expiry of its             *)
(* predecessor, through interleaved rotations and starts that adopt        *)
(* orphans (tokens.py:127, main.py:48).                                    *)
THEOREM SuccessorTheorem == RegistrySpec => []SuccessorKeeps
<1>1. RegistryInv => SuccessorKeeps
  BY DEF RegistryInv, Family
<1>2. QED
  BY <1>1, Invariance, PTL

(* A deletion of a user that completes has revoked every token of the user *)
(* it found, whatever was inserted, rotated or revoked meanwhile           *)
(* (api/users.py:54).                                                      *)
THEOREM DeletionTheorem == RegistrySpec => DeletionRevokes
<1>1. ASSUME RegistryInv, [RegistryNext]_rvars, NEW u \in User,
             There(u), user'[u] = "deleted"
      PROVE  \E r \in Requests :
               /\ req[r].call = "delete-user" /\ req[r].arg = u
               /\ \A t \in 1..req[r].upto :
                    token[t].owner = u => token[t].life = "revoked"
  <2>1. Shape /\ DenseUsers
    BY <1>1 DEF RegistryInv, Core
  <2>2. user[u] # "deleted"
    BY <1>1 DEF There
  <2>3. PICK r \in Requests : DeleteUser(r)
    <3>1. ASSUME NEW n \in Name, Users < mix.users, InsertUser(n)
          PROVE  user'[u] # "deleted"
      BY <2>1, <2>2, <3>1, InsertUserStep DEF Shape
    <3>2. ASSUME NEW r \in Requests, Handle(r), ~DeleteUser(r)
          PROVE  user'[u] # "deleted"
      <4>1. CASE InsertNewUser(r) /\ user' # user
        BY <4>1, <3>1, <2>1 DEF InsertNewUser, Shape, Args
      <4>2. CASE user' = user
        BY <4>2, <2>2
      <4>3. QED
        BY <3>2, <4>1, <4>2 DEF Handle, CheckTarget, ListForRotation, Revoke, Insert,
           ListForDeletion, RevokeNext, Limit, InsertTask, tables
    <3>3. ASSUME NEW r \in Requests, NEW k \in Caller, Ask(r, k)
          PROVE  user' = user
      BY <2>1, <3>3, AskStep DEF tables
    <3>4. FindAdmin => user'[u] # "deleted"
      BY <3>1, <2>2 DEF FindAdmin
    <3>5. ~(LinkOrphanTokens \/ BackfillTasks \/ Tick \/ Crash \/ UNCHANGED rvars)
      BY <1>1, <2>2 DEF LinkOrphanTokens, BackfillTasks, Tick, Crash, rvars, tables
    <3>6. QED
      BY <1>1, <2>2, <3>2, <3>3, <3>4, <3>5 DEF RegistryNext
  <2>4. /\ req[r].call = "delete-user" /\ req[r].at = "revoke" /\ req[r].todo = {}
        /\ user' = [user EXCEPT ![req[r].arg] = "deleted"]
    BY <2>3 DEF DeleteUser
  <2>5. req[r].arg = u
    BY <1>1, <2>1, <2>2, <2>4 DEF Shape
  <2>6. DeletingAt(r)
    BY <1>1 DEF RegistryInv, Working
  <2>7. req[r].upto \in Nat /\ req[r].upto <= MaxTokens
    BY <2>1, <2>4, <2>6, Counts DEF DeletingAt, Shape, Handler
  <2>8. ASSUME NEW t \in 1..req[r].upto, token[t].owner = u
        PROVE  token[t].life = "revoked"
    <3>1. t \in Token /\ t <= req[r].upto
      BY <2>7 DEF Token
    <3>2. QED
      BY <2>4, <2>5, <2>6, <2>8, <3>1 DEF DeletingAt
  <2>9. QED
    BY <2>4, <2>5, <2>8
<1>2. RegistryInv /\ [RegistryNext]_rvars =>
        [\A u \in User : There(u) /\ user'[u] = "deleted" =>
           \E r \in Requests :
             /\ req[r].call = "delete-user" /\ req[r].arg = u
             /\ \A t \in 1..req[r].upto :
                  token[t].owner = u => token[t].life = "revoked"]_rvars
  BY <1>1
<1>3. QED
  BY <1>2, Invariance, PTL DEF RegistrySpec, DeletionRevokes

(* However an earlier start died, when the server begins to serve it has   *)
(* an admin, and no token and no task is without owner (main.py:48).       *)
THEOREM AdminTheorem == RegistrySpec => ServesWithAdmin
<1>1. ASSUME RegistryInv, [RegistryNext]_rvars, mode # "serving", mode' = "serving"
      PROVE  /\ Admin # 0
             /\ \A t \in Token : token'[t].life # "none" => token'[t].owner # 0
             /\ \A k \in task' : k.user # 0
  <2>1. BackfillTasks
    <3>1. ~\E r \in Requests : Handle(r)
      BY <1>1 DEF Handle, CheckTarget, ListForRotation, Revoke, Insert, InsertNewUser,
         ListForDeletion, RevokeNext, DeleteUser, Limit, InsertTask
    <3>2. ~\E r \in Requests, k \in Caller : Ask(r, k)
      BY <1>1, AskStep DEF RegistryInv, Core
    <3>3. QED
      BY <1>1, <3>1, <3>2 DEF RegistryNext, FindAdmin, LinkOrphanTokens, Tick, Crash, rvars
  <2>2. mode = "backfill" /\ token' = token
    BY <2>1 DEF BackfillTasks
  <2>3. Admin # 0 /\ \A t \in Token : token'[t].life # "none" => token'[t].owner # 0
    BY <1>1, <2>2 DEF RegistryInv, Starting
  <2>4. task \subseteq [by : Caller, user : {0} \union User]
    BY <1>1 DEF RegistryInv, Core, Shape
  <2>5. ASSUME NEW k \in task
        PROVE  [k EXCEPT !.user = IF @ = 0 THEN Admin ELSE @].user # 0
    BY <2>3, <2>4
  <2>6. QED
    BY <2>1, <2>3, <2>5 DEF BackfillTasks
<1>2. RegistryInv /\ [RegistryNext]_rvars =>
        [mode # "serving" /\ mode' = "serving" =>
           /\ Admin # 0
           /\ \A t \in Token : token'[t].life # "none" => token'[t].owner # 0
           /\ \A k \in task' : k.user # 0]_rvars
  BY <1>1
<1>3. QED
  BY <1>2, Invariance, PTL DEF RegistrySpec, ServesWithAdmin

-----------------------------------------------------------------------------
(* The bounds on the rows, and the identity a creation works with.         *)
Bounded ==
  /\ now \in 0..MaxTime
  /\ \A t \in Token : token[t] \in TokenRow
  /\ \A r \in Requests : req[r].ask \in TokenRow /\ req[r].upto \in 0..MaxTokens

(* A task row, and a creation under way, bears the owner of the token it   *)
(* was made with; during a start the row may still lack the admin that the *)
(* token already has.                                                      *)
OwnedLike(k) ==
  k.by # 0 =>
    /\ token[k.by].life # "none"
    /\ \/ token[k.by].owner = k.user
       \/ mode # "serving" /\ k.user = 0 /\ token[k.by].owner = Admin

Owned ==
  /\ \A k \in task : OwnedLike(k)
  /\ \A r \in Requests : OwnedLike(req[r].id)

LEMMA UnbornBounded == Unborn \in TokenRow
<1>1. 0 \in Caller /\ 0 \in 0..(MaxTime + 1)
  BY DEF Caller
<1>2. QED
  BY <1>1 DEF Unborn, TokenRow

(* What a request that begins has noted of its caller and of its wish.     *)
LEMMA BeginsNews ==
  ASSUME Shape, NEW r \in Requests, NEW k \in Caller,
         NEW call, NEW at, NEW arg, NEW ask \in TokenRow,
         Begins(r, k, call, at, arg, ask)
  PROVE  /\ req'[r].ask \in TokenRow /\ req'[r].upto = 0
         /\ req'[r].id = Nobody \/ req'[r].id = [by |-> k, user |-> As(k)]
         /\ k # 0 => token[k].life = "live"
<1> DEFINE id == IF call = "create-task" THEN [by |-> k, user |-> As(k)] ELSE Nobody
<1>1. req' = [req EXCEPT ![r] = [call |-> call, at |-> at, id |-> id, arg |-> arg, ask |-> ask,
                                 todo |-> {}, upto |-> 0]]
  BY DEF Begins
<1>2. id = Nobody \/ id = [by |-> k, user |-> As(k)]
  OBVIOUS
<1> HIDE DEF id
<1>3. req'[r].ask = ask /\ req'[r].upto = 0 /\ req'[r].id = id
  BY <1>1 DEF Shape
<1>4. k # 0 => token[k].life = "live"
  BY DEF Begins, IsActive
<1>5. QED
  BY <1>2, <1>3, <1>4

LEMMA AskNews ==
  ASSUME Shape, Bounded, NEW r \in Requests, NEW k \in Caller, Ask(r, k)
  PROVE  /\ req'[r].ask \in TokenRow /\ req'[r].upto = 0
         /\ req'[r].id = Nobody \/ req'[r].id = [by |-> k, user |-> As(k)]
         /\ k # 0 => token[k].life = "live"
<1>1. CASE AskToken(r, k)
  <2>1. PICK u \in 0..mix.users, S \in Grants, e \in {0, now + 1} :
          Begins(r, k, "create-token", IF u \in {0, As(k)} THEN "insert" ELSE "target", 0,
              [Unborn EXCEPT !.owner = IF u = 0 THEN As(k) ELSE u, !.expires = e, !.scopes = S])
    BY <1>1 DEF AskToken
  <2>2. mix.users <= MaxUsers /\ mix.users \in Nat
    BY DEF Shape
  <2>3. As(k) \in {0} \union User /\ u \in {0} \union User
    BY <2>2, AdminType DEF As, Shape, Row, Caller, User
  <2>4. e \in 0..(MaxTime + 1)
    BY DEF Bounded
  <2> DEFINE ask == [Unborn EXCEPT !.owner = IF u = 0 THEN As(k) ELSE u,
                                   !.expires = e, !.scopes = S]
  <2>5. ask \in TokenRow
    <3> DEFINE owned == [Unborn EXCEPT !.owner = IF u = 0 THEN As(k) ELSE u]
               dated == [owned EXCEPT !.expires = e]
    <3>1. owned \in TokenRow
      BY <2>3, UnbornBounded DEF TokenRow
    <3>2. dated \in TokenRow
      BY <2>4, <3>1 DEF TokenRow
    <3>3. [dated EXCEPT !.scopes = S] \in TokenRow
      BY <3>2 DEF TokenRow
    <3>4. QED
      BY <3>3
  <2> HIDE DEF ask
  <2>6. Begins(r, k, "create-token", IF u \in {0, As(k)} THEN "insert" ELSE "target", 0, ask)
    BY <2>1 DEF ask
  <2>7. QED
    BY <2>5, <2>6, BeginsNews
<1>2. CASE AskRevoke(r, k) \/ AskRotate(r, k)
  BY <1>2, UnbornBounded, BeginsNews DEF AskRevoke, AskRotate
<1>3. CASE AskUser(r, k) \/ AskDelete(r, k) \/ AskTask(r, k)
  BY <1>3, UnbornBounded, BeginsNews DEF AskUser, AskDelete, AskTask
<1>4. QED
  BY <1>1, <1>2, <1>3 DEF Ask

(* What a handler's step leaves of them, and of the tables.                *)
LEMMA HandleNews ==
  ASSUME RegistryInv, NEW r \in Requests, Handle(r)
  PROVE  /\ mode = "serving" /\ UNCHANGED <<now, mode>>
         /\ Grows
         /\ \A s \in Requests : s # r => req'[s] = req[s]
         /\ \/ req'[r] = Idle
            \/ /\ req'[r].id = req[r].id
               /\ req'[r].ask = req[r].ask \/ \E t \in Token : req'[r].ask = token[t]
               /\ req'[r].upto \in {req[r].upto, Tokens}
         /\ task' = task \/ task' = task \union {req[r].id}
<1>1. Shape /\ Core /\ Starting
  BY DEF RegistryInv, Core
<1> USE DEF tables
<1>2. CASE CheckTarget(r)
  <2>1. mode = "serving"
    BY <1>1, <1>2, Busy DEF CheckTarget
  <2>2. Goes(r, "insert") \/ Ends(r)
    BY <1>2 DEF CheckTarget
  <2>3. UNCHANGED <<now, mode, task, token>>
    BY <1>2 DEF CheckTarget
  <2>4. Grows
    BY <1>1, <2>3, SameTokens
  <2>5. QED
    BY <1>1, <2>1, <2>2, <2>3, <2>4, GoesStep, EndsStep
<1>3. CASE ListForRotation(r)
  <2>1. mode = "serving"
    BY <1>1, <1>3, Busy DEF ListForRotation
  <2>2. UNCHANGED <<now, mode, task, token>>
    BY <1>3 DEF ListForRotation
  <2>3. Grows
    BY <1>1, <2>2, SameTokens
  <2>4. QED
    BY <1>1, <1>3, <2>1, <2>2, <2>3, ListRotationStep
<1>4. CASE ListForDeletion(r)
  <2>1. mode = "serving"
    BY <1>1, <1>4, Busy DEF ListForDeletion
  <2>2. UNCHANGED <<now, mode, task, token>>
    BY <1>4 DEF ListForDeletion
  <2>3. Grows
    BY <1>1, <2>2, SameTokens
  <2>4. QED
    BY <1>1, <1>4, <2>1, <2>2, <2>3, ListDeletionStep
<1>5. CASE Limit(r)
  <2>1. mode = "serving"
    BY <1>1, <1>5, Busy DEF Limit
  <2>2. Goes(r, "row") \/ Ends(r)
    BY <1>5 DEF Limit
  <2>3. UNCHANGED <<now, mode, task, token>>
    BY <1>5 DEF Limit
  <2>4. Grows
    BY <1>1, <2>3, SameTokens
  <2>5. QED
    BY <1>1, <2>1, <2>2, <2>3, <2>4, GoesStep, EndsStep
<1>6. CASE InsertNewUser(r) \/ DeleteUser(r) \/ InsertTask(r)
  <2>1. mode = "serving"
    BY <1>1, <1>6, Busy DEF InsertNewUser, DeleteUser, InsertTask
  <2>2. Ends(r) /\ UNCHANGED <<now, mode, token>>
    BY <1>6 DEF InsertNewUser, DeleteUser, InsertTask
  <2>3. Grows
    BY <1>1, <2>2, SameTokens
  <2>4. task' = task \/ task' = task \union {req[r].id}
    BY <1>6 DEF InsertNewUser, DeleteUser, InsertTask
  <2>5. QED
    BY <1>1, <2>1, <2>2, <2>3, <2>4, EndsStep
<1>7. CASE Revoke(r)
  <2>1. mode = "serving"
    BY <1>1, <1>7, Busy DEF Revoke
  <2>2. req[r].arg \in Token /\ RevokeToken(req[r].arg)
    BY <1>1, <1>7 DEF Revoke, Shape, Args
  <2>3. Grows
    BY <1>1, <2>2, RevokeGrows
  <2>4. (Goes(r, "insert") \/ Ends(r)) /\ UNCHANGED <<now, mode, task>>
    BY <1>7 DEF Revoke
  <2>5. QED
    BY <1>1, <2>1, <2>3, <2>4, GoesStep, EndsStep
<1>8. CASE Insert(r)
  <2>1. mode = "serving"
    BY <1>1, <1>8, Busy DEF Insert
  <2>2. Ends(r) /\ UNCHANGED <<now, mode, task>> /\ Grows
    BY <1>1, <1>8, InsertGrows DEF Insert
  <2>3. QED
    BY <1>1, <2>1, <2>2, EndsStep
<1>9. CASE RevokeNext(r)
  <2>1. mode = "serving"
    BY <1>1, <1>9, Busy DEF RevokeNext
  <2>2. UNCHANGED <<now, mode, task>>
    BY <1>9 DEF RevokeNext
  <2>3. PICK t \in Token : RevokeToken(t)
    BY <1>1, <1>9, RevokeNextStep
  <2>4. Grows
    BY <1>1, <2>3, RevokeGrows
  <2>5. QED
    BY <1>1, <1>9, <2>1, <2>2, <2>4, RevokeNextStep
<1>10. QED
  BY <1>2, <1>3, <1>4, <1>5, <1>6, <1>7, <1>8, <1>9 DEF Handle

(* The rows a handler writes keep to the bounds.                           *)
LEMMA TokensBounded ==
  ASSUME RegistryInv, Bounded, NEW r \in Requests, Handle(r)
  PROVE  \A t \in Token : token'[t] \in TokenRow
<1>1. Shape /\ Core /\ DenseTokens
  BY DEF RegistryInv, Core
<1>2. ASSUME NEW u \in Token, RevokeToken(u)
      PROVE  \A t \in Token : token'[t] \in TokenRow
  BY <1>1, <1>2 DEF RevokeToken, Bounded, Shape, TokenRow
<1>3. CASE token' = token
  BY <1>3 DEF Bounded
<1>4. CASE Revoke(r)
  <2>1. req[r].arg \in Token /\ RevokeToken(req[r].arg)
    BY <1>1, <1>4 DEF Revoke, Shape, Args
  <2>2. QED
    BY <2>1, <1>2
<1>5. CASE RevokeNext(r)
  <2>1. PICK t \in Token : RevokeToken(t)
    BY <1>1, <1>5, RevokeNextStep
  <2>2. QED
    BY <2>1, <1>2
<1>6. CASE Insert(r)
  <2> DEFINE ask == req[r].ask
  <2>1. ask \in TokenRow
    BY DEF Bounded
  <2>2. PICK e \in IF req[r].call = "create-token" THEN {ask.expires} ELSE Remaining(ask) :
          InsertToken(ask.owner, e, ask.scopes, req[r].arg)
    BY <1>6 DEF Insert
  <2>3. req[r].arg \in Caller
    BY <1>1, <1>6 DEF Insert, Shape, Args, Caller
  <2> DEFINE new == [life |-> "live", owner |-> ask.owner, expires |-> e,
                     scopes |-> ask.scopes, from |-> req[r].arg]
  <2>4. e \in 0..(MaxTime + 1)
    BY <2>1, <2>2 DEF Remaining, TokenRow
  <2>5. new \in TokenRow
    BY <2>1, <2>3, <2>4 DEF TokenRow
  <2>6. token' = [token EXCEPT ![Tokens + 1] = new]
    BY <2>2 DEF InsertToken
  <2> HIDE DEF new, ask
  <2>7. QED
    BY <1>1, <2>5, <2>6 DEF Bounded, Shape
<1>7. QED
  BY <1>3, <1>4, <1>5, <1>6 DEF Handle, CheckTarget, ListForRotation, InsertNewUser,
     ListForDeletion, DeleteUser, Limit, InsertTask, tables

LEMMA BoundedStep ==
  ASSUME RegistryInv, Bounded, [RegistryNext]_rvars
  PROVE  Bounded'
<1>1. Shape /\ Core /\ Starting /\ DenseTokens
  BY DEF RegistryInv, Core
<1>2. Tokens \in 0..MaxTokens
  BY Counts
<1>3. Idle.ask \in TokenRow /\ Idle.upto = 0 /\ 0 \in 0..MaxTokens
  BY UnbornBounded DEF Idle
<1>4. CASE \E r \in Requests : Handle(r)
  <2>1. PICK r \in Requests : Handle(r)
    BY <1>4
  <2>2. \A t \in Token : token'[t] \in TokenRow
    BY <2>1, TokensBounded
  <2>3. now' = now
    BY <2>1, HandleNews
  <2>4. \A s \in Requests : s # r => req'[s] = req[s]
    BY <2>1, HandleNews
  <2>5. req'[r].ask \in TokenRow /\ req'[r].upto \in 0..MaxTokens
    <3>1. CASE req'[r] = Idle
      BY <3>1, <1>3
    <3>2. CASE req'[r] # Idle
      <4>1. /\ req'[r].ask = req[r].ask \/ \E t \in Token : req'[r].ask = token[t]
            /\ req'[r].upto \in {req[r].upto, Tokens}
        BY <2>1, <3>2, HandleNews
      <4>2. QED
        BY <4>1, <1>2 DEF Bounded
    <3>3. QED
      BY <3>1, <3>2
  <2>6. QED
    BY <2>2, <2>3, <2>4, <2>5 DEF Bounded
<1>5. CASE \E r \in Requests, k \in Caller : Ask(r, k)
  <2>1. PICK r \in Requests, k \in Caller : Ask(r, k)
    BY <1>5
  <2>2. /\ UNCHANGED <<now, token>>
        /\ \A s \in Requests : s # r => req'[s] = req[s]
    BY <1>1, <2>1, AskStep DEF tables
  <2>3. req'[r].ask \in TokenRow /\ req'[r].upto = 0
    BY <1>1, <2>1, AskNews
  <2>4. QED
    BY <1>3, <2>2, <2>3 DEF Bounded
<1>6. CASE FindAdmin \/ BackfillTasks \/ UNCHANGED rvars
  BY <1>6 DEF FindAdmin, BackfillTasks, Bounded, rvars, tables
<1>7. CASE LinkOrphanTokens
  <2>1. \A t \in Token : token'[t] \in TokenRow
    BY <1>7, AdminType DEF LinkOrphanTokens, Bounded, TokenRow
  <2>2. UNCHANGED <<now, req>>
    BY <1>7 DEF LinkOrphanTokens
  <2>3. QED
    BY <2>1, <2>2 DEF Bounded
<1>8. CASE Tick
  <2>1. now' \in 0..MaxTime
    BY <1>8 DEF Tick, Bounded
  <2>2. QED
    BY <1>8, <2>1 DEF Tick, Bounded, tables
<1>9. CASE Crash
  BY <1>3, <1>9 DEF Crash, Bounded, tables
<1>10. QED
  BY <1>4, <1>5, <1>6, <1>7, <1>8, <1>9 DEF RegistryNext

LEMMA OwnedStep ==
  ASSUME RegistryInv, Bounded, Owned, [RegistryNext]_rvars
  PROVE  Owned'
<1>1. Shape /\ Core /\ Starting /\ DenseTokens
  BY DEF RegistryInv, Core
<1> DEFINE Id == [by : Caller, user : {0} \union User]
<1>2. /\ \A k \in task : k \in Id /\ OwnedLike(k)
      /\ \A r \in Requests : req[r].id \in Id /\ OwnedLike(req[r].id)
  BY <1>1 DEF Shape, Owned, Handler
<1>3. \A k \in Id : k.by # 0 => k.by \in Token
  BY DEF Caller
<1>4. Idle.id = Nobody /\ Nobody.by = 0
  BY DEF Idle, Nobody
<1>5. ASSUME Grows, mode = "serving", mode' = "serving", NEW k \in Id, OwnedLike(k)
      PROVE  OwnedLike(k)'
  BY <1>3, <1>5 DEF OwnedLike, Grows
<1>6. CASE \E r \in Requests : Handle(r)
  <2>1. PICK r \in Requests : Handle(r)
    BY <1>6
  <2>2. /\ Grows /\ mode = "serving" /\ mode' = "serving"
        /\ \A s \in Requests : s # r => req'[s] = req[s]
        /\ req'[r] = Idle \/ req'[r].id = req[r].id
        /\ task' = task \/ task' = task \union {req[r].id}
    BY <2>1, HandleNews
  <2>3. \A k \in task' : OwnedLike(k)'
    BY <1>2, <1>5, <2>2
  <2>4. ASSUME NEW s \in Requests
        PROVE  OwnedLike(req[s].id)'
    <3>1. CASE req'[s].id = req[s].id
      <4>1. PICK k \in Id : k = req[s].id /\ OwnedLike(k)
        BY <1>2
      <4>2. OwnedLike(k)'
        BY <1>5, <2>2, <4>1
      <4>3. QED
        BY <3>1, <4>1, <4>2 DEF OwnedLike
    <3>2. CASE req'[s] = Idle
      BY <1>4, <3>2 DEF OwnedLike
    <3>3. QED
      BY <2>2, <3>1, <3>2
  <2>5. QED
    BY <2>3, <2>4 DEF Owned
<1>7. CASE \E r \in Requests, k \in Caller : Ask(r, k)
  <2>1. PICK r \in Requests, k \in Caller : Ask(r, k)
    BY <1>7
  <2>2. /\ UNCHANGED <<now, token, task, mode>> /\ mode = "serving"
        /\ \A s \in Requests : s # r => req'[s] = req[s]
    BY <1>1, <2>1, AskStep DEF tables
  <2>3. Grows
    BY <1>1, <2>2, SameTokens
  <2>4. \A e \in task' : OwnedLike(e)'
    BY <1>2, <1>5, <2>2, <2>3
  <2>5. ASSUME NEW s \in Requests, s # r
        PROVE  OwnedLike(req[s].id)'
    <3>1. PICK i \in Id : i = req[s].id /\ OwnedLike(i)
      BY <1>2
    <3>2. OwnedLike(i)'
      BY <1>5, <2>2, <2>3, <3>1
    <3>3. QED
      BY <2>2, <2>5, <3>1, <3>2 DEF OwnedLike
  <2>6. OwnedLike(req[r].id)'
    <3>1. req'[r].id = Nobody \/ req'[r].id = [by |-> k, user |-> As(k)]
      BY <1>1, <2>1, AskNews
    <3>2. k # 0 => token[k].life = "live"
      BY <1>1, <2>1, AskNews
    <3>3. CASE req'[r].id = Nobody
      BY <1>4, <3>3 DEF OwnedLike
    <3>4. CASE req'[r].id = [by |-> k, user |-> As(k)]
      BY <2>2, <3>2, <3>4 DEF OwnedLike, As
    <3>5. QED
      BY <3>1, <3>3, <3>4
  <2>7. QED
    BY <2>4, <2>5, <2>6 DEF Owned
<1>8. ASSUME UNCHANGED <<token, user>>, NEW k, OwnedLike(k), mode = mode' \/ mode' # "serving"
      PROVE  OwnedLike(k)'
  BY <1>8 DEF OwnedLike, Admin, Named
<1>9. CASE Tick \/ UNCHANGED rvars
  BY <1>8, <1>9 DEF Tick, Owned, rvars, tables
<1>10. CASE Crash
  <2>1. UNCHANGED <<token, user, task>> /\ mode' # "serving"
    BY <1>10 DEF Crash, tables
  <2>2. \A r \in Requests : req'[r].id = Nobody
    BY <1>4, <1>10 DEF Crash
  <2>3. \A r \in Requests : OwnedLike(req[r].id)'
    BY <1>4, <2>2 DEF OwnedLike
  <2>4. QED
    BY <1>8, <2>1, <2>3 DEF Owned
<1>11. ASSUME UNCHANGED req, mode # "serving"
       PROVE  \A r \in Requests : OwnedLike(req[r].id)'
  BY <1>1, <1>4, <1>11 DEF Starting, OwnedLike
<1>12. CASE FindAdmin
  <2>1. UNCHANGED <<token, task, req>> /\ mode = "look" /\ mode' = "link"
    BY <1>12 DEF FindAdmin
  <2>2. Admin # 0 => Admin' = Admin
    BY <1>12 DEF FindAdmin, Admin, Named
  <2>3. \A k \in task : OwnedLike(k)'
    BY <1>2, <2>1, <2>2 DEF OwnedLike
  <2>4. QED
    BY <1>11, <2>1, <2>3 DEF Owned
<1>13. CASE LinkOrphanTokens
  <2>1. UNCHANGED <<user, task, req>> /\ mode = "link" /\ mode' = "backfill"
    BY <1>13 DEF LinkOrphanTokens
  <2>2. \A t \in Token : /\ token'[t].life = token[t].life
                         /\ token[t].life # "none" =>
                              token'[t].owner = IF token[t].owner = 0 THEN Admin
                                                ELSE token[t].owner
    BY <1>1, <1>13, LinkStep
  <2>3. Admin' = Admin
    BY <2>1 DEF Admin, Named
  <2>4. \A k \in task : OwnedLike(k)'
    BY <1>2, <1>3, <2>1, <2>2, <2>3 DEF OwnedLike
  <2>5. QED
    BY <1>11, <2>1, <2>4 DEF Owned
<1>14. CASE BackfillTasks
  <2>1. /\ UNCHANGED <<user, token, req>> /\ mode = "backfill" /\ mode' = "serving"
        /\ task' = {[k EXCEPT !.user = IF @ = 0 THEN Admin ELSE @] : k \in task}
    BY <1>14 DEF BackfillTasks
  <2>2. \A t \in Token : token[t].life # "none" => token[t].owner # 0
    BY <1>1, <2>1 DEF Starting
  <2>3. ASSUME NEW k \in task, NEW new,
               new = [k EXCEPT !.user = IF @ = 0 THEN Admin ELSE @]
        PROVE  OwnedLike(new)'
    <3>1. new.by = k.by /\ new.user = IF k.user = 0 THEN Admin ELSE k.user
      BY <1>2, <2>3
    <3>2. OwnedLike(k) /\ (k.by # 0 => k.by \in Token)
      BY <1>2, <1>3
    <3>3. new.by # 0 => /\ token'[new.by].life # "none"
                        /\ token'[new.by].owner = new.user
      BY <2>1, <2>2, <3>1, <3>2 DEF OwnedLike
    <3>4. QED
      BY <3>3 DEF OwnedLike
  <2>4. \A k \in task' : OwnedLike(k)'
    BY <2>1, <2>3
  <2>5. QED
    BY <1>11, <2>1, <2>4 DEF Owned
<1>15. QED
  BY <1>6, <1>7, <1>9, <1>10, <1>12, <1>13, <1>14 DEF RegistryNext

-----------------------------------------------------------------------------
(* The rate limit.  A deque b recalls the end of the last accepted times a *)
(* of its fingerprint; what it has lost is out of the window at time t.    *)
Recalls(a, b, t) ==
  /\ a \in Seq(Int) /\ b \in Seq(Int)
  /\ Len(b) <= Len(a) /\ Len(a) <= MaxRequests
  /\ \A i \in 1..Len(b) : b[i] = a[Len(a) - Len(b) + i]
  /\ \A i \in 1..(Len(a) - Len(b)) : a[i] < t - Window
  /\ \A i, j \in 1..Len(a) : i <= j => a[i] <= a[j]
  /\ \A i \in 1..Len(a) : a[i] <= t

LEMMA RecallsLater ==
  ASSUME NEW a, NEW b, NEW t \in Int, Recalls(a, b, t), NEW u \in Int, t <= u
  PROVE  Recalls(a, b, u)
<1>1. Window \in Int
  BY RateLimitAssumption
<1>2. Len(a) \in Nat /\ Len(b) \in Nat /\ \A i \in 1..Len(a) : a[i] \in Int
  BY LenProperties, ElementOfSeq DEF Recalls
<1>3. ASSUME NEW i \in 1..(Len(a) - Len(b))
      PROVE  a[i] < u - Window
  <2>1. i \in 1..Len(a) /\ a[i] < t - Window
    BY <1>2 DEF Recalls
  <2>2. QED
    BY <1>1, <1>2, <2>1
<1>4. ASSUME NEW i \in 1..Len(a)
      PROVE  a[i] <= u
  BY <1>2 DEF Recalls
<1>5. QED
  BY <1>3, <1>4 DEF Recalls

(* A deque whose times are all out of the window may go.                   *)
LEMMA RecallsNothing ==
  ASSUME NEW a, NEW b, NEW t \in Int, Recalls(a, b, t),
         \A i \in 1..Len(b) : b[i] < t - Window
  PROVE  Recalls(a, <<>>, t)
<1>1. Len(a) \in Nat /\ Len(b) \in Nat /\ Len(b) <= Len(a)
  BY LenProperties DEF Recalls
<1>2. ASSUME NEW i \in 1..Len(a)
      PROVE  a[i] < t - Window
  <2>1. CASE i <= Len(a) - Len(b)
    BY <1>1, <2>1 DEF Recalls
  <2>2. CASE ~(i <= Len(a) - Len(b))
    <3>1. PICK j \in 1..Len(b) : i = Len(a) - Len(b) + j
      <4>1. i - (Len(a) - Len(b)) \in 1..Len(b)
        BY <1>1, <2>2
      <4>2. i = Len(a) - Len(b) + (i - (Len(a) - Len(b)))
        BY <1>1
      <4>3. QED
        BY <4>1, <4>2
    <3>2. a[i] = b[j]
      BY <3>1 DEF Recalls
    <3>3. QED
      BY <3>2
  <2>3. QED
    BY <2>1, <2>2
<1>3. Len(<<>>) = 0 /\ <<>> \in Seq(Int)
  BY EmptySeq
<1>4. \A i \in 1..(Len(a) - 0) : a[i] < t - Window
  BY <1>1, <1>2
<1>5. QED
  BY <1>1, <1>3, <1>4 DEF Recalls

LEMMA RecallsStale ==
  ASSUME NEW a, NEW b, NEW t \in Int, Recalls(a, b, t), Stale(b, t)
  PROVE  Recalls(a, <<>>, t)
<1>1. /\ Len(a) \in Nat /\ Len(b) \in Nat /\ Len(b) <= Len(a) /\ Window \in Int
      /\ \A i \in 1..Len(a) : a[i] \in Int
      /\ \A i \in 1..Len(b) : b[i] \in Int
  BY LenProperties, ElementOfSeq, RateLimitAssumption DEF Recalls
<1>2. CASE b = <<>>
  BY <1>2
<1>3. CASE b # <<>> /\ b[Len(b)] < t - Window
  <2>1. Len(b) \in 1..Len(b)
    BY <1>1, <1>3, EmptySeq DEF Recalls
  <2>2. ASSUME NEW i \in 1..Len(b)
        PROVE  b[i] < t - Window
    <3>1. /\ b[i] = a[Len(a) - Len(b) + i] /\ b[Len(b)] = a[Len(a) - Len(b) + Len(b)]
      BY <2>1 DEF Recalls
    <3>2. /\ Len(a) - Len(b) + i \in 1..Len(a) /\ Len(a) - Len(b) + Len(b) \in 1..Len(a)
          /\ Len(a) - Len(b) + i <= Len(a) - Len(b) + Len(b)
      BY <1>1, <2>1
    <3>3. b[i] <= b[Len(b)]
      BY <3>1, <3>2 DEF Recalls
    <3>4. b[i] \in Int /\ b[Len(b)] \in Int
      BY <1>1, <2>1
    <3>5. QED
      BY <1>1, <1>3, <3>3, <3>4
  <2>3. QED
    BY <2>2, RecallsNothing
<1>4. QED
  BY <1>2, <1>3 DEF Stale

(* Popping the old times from the left leaves the end of the deque.        *)
LEMMA SinceIsTail ==
  ASSUME NEW b \in Seq(Int), NEW m \in Int
  PROVE  \/ Since(b, m) = <<>> /\ \A i \in 1..Len(b) : b[i] < m
         \/ \E k \in 1..Len(b) : /\ Since(b, m) = SubSeq(b, k, Len(b))
                                 /\ \A i \in 1..(k - 1) : b[i] < m
<1> DEFINE recent == {i \in 1..Len(b) : b[i] >= m}
           first == CHOOSE i \in recent : \A j \in recent : i <= j
<1>1. Len(b) \in Nat /\ \A i \in 1..Len(b) : b[i] \in Int
  BY LenProperties, ElementOfSeq
<1>2. Since(b, m) = IF recent = {} THEN <<>> ELSE SubSeq(b, first, Len(b))
  BY DEF Since
<1>3. \A i \in 1..Len(b) : i \notin recent => b[i] < m
  BY <1>1
<1>4. recent \subseteq Nat /\ recent \subseteq 1..Len(b)
  BY <1>1
<1> HIDE DEF recent
<1>5. CASE recent = {}
  BY <1>2, <1>3, <1>5
<1>6. CASE recent # {}
  <2>1. \E i \in recent : \A j \in recent : i <= j
    BY <1>4, <1>6, LeastElement
  <2>2. first \in recent /\ \A j \in recent : first <= j
    BY <2>1
  <2> HIDE DEF first
  <2>3. \A i \in 1..(first - 1) : b[i] < m
    <3>1. TAKE i \in 1..(first - 1)
    <3>2. first \in 1..Len(b)
      BY <1>4, <2>2
    <3>3. i \in 1..Len(b) /\ ~(first <= i)
      BY <1>1, <3>2
    <3>4. QED
      BY <1>3, <2>2, <3>3
  <2>4. QED
    BY <1>2, <1>4, <1>6, <2>2, <2>3
<1>7. QED
  BY <1>5, <1>6

LEMMA RecallsRecent ==
  ASSUME NEW a, NEW b, NEW t \in Int, Recalls(a, b, t)
  PROVE  Recalls(a, Recent(b, t), t)
<1> DEFINE m == t - Window
<1>1. m \in Int /\ b \in Seq(Int) /\ a \in Seq(Int)
  BY RateLimitAssumption DEF Recalls
<1>2. Recent(b, t) = Since(b, m)
  BY DEF Recent
<1>3. CASE Since(b, m) = <<>> /\ \A i \in 1..Len(b) : b[i] < m
  BY <1>2, <1>3, RecallsNothing
<1>4. ASSUME NEW k \in 1..Len(b), Since(b, m) = SubSeq(b, k, Len(b)),
             \A i \in 1..(k - 1) : b[i] < m
      PROVE  Recalls(a, Since(b, m), t)
  <2> DEFINE c == Since(b, m)
             n == Len(a) - Len(b)
  <2>1. Len(a) \in Nat /\ Len(b) \in Nat /\ Len(b) <= Len(a) /\ k \in Int
    BY <1>1, LenProperties DEF Recalls
  <2>2. /\ c \in Seq(Int) /\ Len(c) = Len(b) - k + 1
        /\ \A i \in 1..(Len(b) - k + 1) : c[i] = b[k + i - 1]
    <3>1. \A i \in k..Len(b) : b[i] \in Int
      BY <1>1, <2>1, ElementOfSeq
    <3>2. k <= Len(b) /\ Len(b) \in Int
      BY <2>1
    <3>3. /\ SubSeq(b, k, Len(b)) \in Seq(Int)
          /\ Len(SubSeq(b, k, Len(b))) = Len(b) - k + 1
          /\ \A i \in 1..(Len(b) - k + 1) : SubSeq(b, k, Len(b))[i] = b[k + i - 1]
      BY <2>1, <3>1, <3>2, SubSeqProperties
    <3>4. QED
      BY <1>4, <3>3
  <2> HIDE DEF c, m
  <2>3. Len(c) <= Len(a) /\ Len(a) - Len(c) = n + (k - 1)
    BY <2>1, <2>2
  <2>4. ASSUME NEW i \in 1..Len(c)
        PROVE  c[i] = a[Len(a) - Len(c) + i]
    <3>1. k + i - 1 \in 1..Len(b) /\ i \in 1..(Len(b) - k + 1)
      BY <2>1, <2>2
    <3>2. c[i] = b[k + i - 1] /\ b[k + i - 1] = a[n + (k + i - 1)]
      BY <2>2, <3>1 DEF Recalls
    <3>3. n + (k + i - 1) = Len(a) - Len(c) + i
      BY <2>1, <2>2
    <3>4. QED
      BY <3>2, <3>3
  <2>5. ASSUME NEW i \in 1..(Len(a) - Len(c))
        PROVE  a[i] < m
    <3>1. CASE i <= n
      <4>1. i \in 1..n
        BY <2>1, <3>1
      <4>2. QED
        BY <4>1 DEF Recalls, m
    <3>2. CASE ~(i <= n)
      <4>1. i - n \in 1..(k - 1) /\ i - n \in 1..Len(b) /\ n + (i - n) = i
        BY <2>1, <2>3, <3>2
      <4>2. b[i - n] = a[n + (i - n)] /\ b[i - n] < m
        BY <1>4, <4>1 DEF Recalls
      <4>3. QED
        BY <4>1, <4>2
    <3>3. QED
      BY <3>1, <3>2
  <2>6. \A i \in 1..(Len(a) - Len(c)) : a[i] < t - Window
    BY <2>5 DEF m
  <2>7. QED
    BY <2>2, <2>3, <2>4, <2>6 DEF Recalls, c
<1>5. QED
  BY <1>1, <1>2, <1>3, <1>4, SinceIsTail

(* A creation that is let through is remembered by both; if the window had *)
(* room, the oldest of MaxRequests accepted times had left it.             *)
LEMMA RecallsAccepted ==
  ASSUME NEW a, NEW b, NEW t \in Int, Recalls(a, b, t), Len(b) < MaxRequests
  PROVE  /\ Recalls(LastOf(Append(a, t)), Append(b, t), t)
         /\ Len(a) = MaxRequests => a[1] < t - Window
<1>1. /\ a \in Seq(Int) /\ b \in Seq(Int) /\ Len(a) \in Nat /\ Len(b) \in Nat
      /\ Len(b) <= Len(a) /\ Len(a) <= MaxRequests /\ MaxRequests \in Nat /\ MaxRequests >= 1
  BY LenProperties, RateLimitAssumption DEF Recalls
<1>2. Len(a) = MaxRequests => a[1] < t - Window
  <2>1. SUFFICES ASSUME Len(a) = MaxRequests
                 PROVE  a[1] < t - Window
    OBVIOUS
  <2>2. 1 \in 1..(Len(a) - Len(b))
    BY <1>1, <2>1
  <2>3. QED
    BY <2>2 DEF Recalls
<1> DEFINE s == Append(a, t)
           c == Append(b, t)
           d == IF Len(s) > MaxRequests THEN 2 ELSE 1
           l == SubSeq(s, d, Len(s))
<1>3. /\ s \in Seq(Int) /\ Len(s) = Len(a) + 1 /\ s[Len(a) + 1] = t
      /\ \A i \in 1..Len(a) : s[i] = a[i]
  BY <1>1, AppendProperties
<1>4. /\ c \in Seq(Int) /\ Len(c) = Len(b) + 1 /\ c[Len(b) + 1] = t
      /\ \A i \in 1..Len(b) : c[i] = b[i]
  BY <1>1, AppendProperties
<1>5. d \in 1..2 /\ (d = 2 <=> Len(a) = MaxRequests)
  BY <1>1, <1>3
<1>6. LastOf(s) = l
  BY DEF LastOf
<1> HIDE DEF s, c, d
<1>7. /\ l \in Seq(Int) /\ Len(l) = Len(s) - d + 1
      /\ \A i \in 1..(Len(s) - d + 1) : l[i] = s[d + i - 1]
  BY <1>1, <1>3, <1>5, SubSeqProperties
<1> HIDE DEF l
<1>8. Len(l) = Len(a) + 2 - d /\ Len(c) <= Len(l) /\ Len(l) <= MaxRequests
  BY <1>1, <1>3, <1>4, <1>5, <1>7
<1> DEFINE na == Len(a)
           nb == Len(b)
           nc == Len(c)
           nl == Len(l)
<1>16. /\ na \in Int /\ nb \in Int /\ nb >= 0 /\ nb <= na
       /\ d \in Int /\ d >= 1 /\ nl = na + 2 - d /\ nc = nb + 1 /\ nc <= nl
  BY <1>1, <1>4, <1>5, <1>8
<1> HIDE DEF na, nb, nc, nl
<1>9. ASSUME NEW i \in 1..nl
      PROVE  LET p == d + i - 1
             IN /\ p \in 1..(na + 1)
                /\ p # na + 1 => p \in 1..na
                /\ l[i] = IF p = na + 1 THEN t ELSE a[p]
  <2> DEFINE p == d + i - 1
  <2>1. p \in 1..(na + 1) /\ (p # na + 1 => p \in 1..na)
    BY <1>16
  <2>2. i \in 1..(Len(s) - d + 1)
    BY <1>3, <1>16 DEF na
  <2>3. l[i] = s[p]
    BY <1>7, <2>2
  <2> HIDE DEF p
  <2>4. s[p] = IF p = na + 1 THEN t ELSE a[p]
    BY <1>3, <2>1 DEF na
  <2>5. QED
    BY <2>1, <2>3, <2>4 DEF p
<1>10. ASSUME NEW i \in 1..nc
       PROVE  c[i] = l[nl - nc + i]
  <2> DEFINE j == nl - nc + i
  <2>1. j \in 1..nl /\ d + j - 1 = na - nb + i
    BY <1>16
  <2>2. l[j] = IF na - nb + i = na + 1 THEN t ELSE a[na - nb + i]
    BY <1>9, <2>1
  <2>3. CASE i = nb + 1
    <3>1. na - nb + i = na + 1
      BY <1>16, <2>3
    <3>2. QED
      BY <1>4, <2>2, <2>3, <3>1 DEF nb
  <2>4. CASE i # nb + 1
    <3>1. i \in 1..nb /\ na - nb + i # na + 1
      BY <1>16, <2>4
    <3>2. c[i] = b[i] /\ b[i] = a[na - nb + i]
      BY <1>4, <3>1 DEF Recalls, na, nb
    <3>3. QED
      BY <2>2, <3>1, <3>2
  <2>5. QED
    BY <2>3, <2>4
<1>11. ASSUME NEW i \in 1..(nl - nc)
       PROVE  l[i] < t - Window
  <2> DEFINE p == d + i - 1
  <2>1. i \in 1..nl /\ p \in 1..(na - nb) /\ p # na + 1
    BY <1>16
  <2>2. l[i] = a[p]
    BY <1>9, <2>1
  <2> HIDE DEF p
  <2>3. QED
    BY <2>1, <2>2 DEF Recalls, na, nb
<1>12. ASSUME NEW i \in 1..nl
       PROVE  l[i] <= t
  <2> DEFINE p == d + i - 1
  <2>1. /\ p # na + 1 => p \in 1..na
        /\ l[i] = IF p = na + 1 THEN t ELSE a[p]
    BY <1>9
  <2> HIDE DEF p
  <2>2. QED
    BY <2>1 DEF Recalls, na
<1>13. ASSUME NEW i \in 1..nl, NEW j \in 1..nl, i <= j
       PROVE  l[i] <= l[j]
  <2> DEFINE p == d + i - 1
             q == d + j - 1
  <2>1. /\ p # na + 1 => p \in 1..na
        /\ l[i] = IF p = na + 1 THEN t ELSE a[p]
    BY <1>9
  <2>2. /\ q # na + 1 => q \in 1..na
        /\ l[j] = IF q = na + 1 THEN t ELSE a[q]
    BY <1>9
  <2>3. p <= q /\ p \in Int /\ q \in 1..(na + 1)
    BY <1>9, <1>13, <1>16
  <2>4. l[i] <= t
    BY <1>12
  <2> HIDE DEF p, q
  <2>5. CASE q = na + 1
    BY <2>2, <2>4, <2>5
  <2>6. CASE q # na + 1
    <3>1. p # na + 1
      BY <1>16, <2>2, <2>3, <2>6
    <3>2. l[i] = a[p] /\ l[j] = a[q] /\ p \in 1..Len(a) /\ q \in 1..Len(a)
      BY <2>1, <2>2, <2>6, <3>1 DEF na
    <3>3. QED
      BY <2>3, <3>2 DEF Recalls
  <2>7. QED
    BY <2>5, <2>6
<1>14. Recalls(l, c, t)
  BY <1>4, <1>7, <1>8, <1>10, <1>11, <1>12, <1>13 DEF Recalls, nc, nl
<1>15. QED
  BY <1>2, <1>6, <1>14 DEF s, c

(* The deque of a fingerprint, empty if there is none, recalls what was    *)
(* accepted from it.                                                       *)
Deque(k) == IF k \in DOMAIN bucket THEN bucket[k] ELSE <<>>

Limited ==
  /\ DOMAIN bucket \subseteq Caller
  /\ accepted \in [Caller -> Seq(Int)]
  /\ \A k \in Caller : Recalls(accepted[k], Deque(k), now)

LEMMA NothingRecalled ==
  ASSUME NEW t \in Int
  PROVE  Recalls(<<>>, <<>>, t)
<1>1. <<>> \in Seq(Int) /\ Len(<<>>) = 0 /\ MaxRequests \in Nat
  BY EmptySeq, RateLimitAssumption
<1>2. 1..0 = {} /\ 1..(0 - 0) = {}
  OBVIOUS
<1>3. QED
  BY <1>1, <1>2 DEF Recalls

(* The eviction keeps the deques that matter.                              *)
LEMMA KeptDeques ==
  ASSUME Limited, now \in Int, NEW k \in Caller
  PROVE  /\ DOMAIN Kept(bucket, now) \subseteq DOMAIN bucket
         /\ k \in DOMAIN Kept(bucket, now) => Kept(bucket, now)[k] = bucket[k]
         /\ k \notin DOMAIN Kept(bucket, now) => Recalls(accepted[k], <<>>, now)
         /\ Recalls(accepted[k], Pruned(bucket, k, now), now)
<1> DEFINE kept == Kept(bucket, now)
<1>1. /\ DOMAIN kept \subseteq DOMAIN bucket
      /\ k \in DOMAIN kept => kept[k] = bucket[k]
      /\ k \in DOMAIN bucket /\ k \notin DOMAIN kept => Stale(bucket[k], now)
  BY DEF Kept
<1>2. Recalls(accepted[k], Deque(k), now)
  BY DEF Limited
<1> HIDE DEF kept
<1>3. ASSUME k \notin DOMAIN kept
      PROVE  Recalls(accepted[k], <<>>, now)
  <2>1. CASE k \in DOMAIN bucket
    <3>1. Recalls(accepted[k], bucket[k], now) /\ Stale(bucket[k], now)
      BY <1>1, <1>2, <1>3, <2>1 DEF Deque
    <3>2. QED
      BY <3>1, RecallsStale
  <2>2. CASE k \notin DOMAIN bucket
    BY <1>2, <2>2 DEF Deque
  <2>3. QED
    BY <2>1, <2>2
<1>4. ASSUME k \in DOMAIN kept
      PROVE  Recalls(accepted[k], Recent(bucket[k], now), now)
  <2>1. Recalls(accepted[k], bucket[k], now)
    BY <1>1, <1>2, <1>4 DEF Deque
  <2>2. QED
    BY <2>1, RecallsRecent
<1>5. QED
  BY <1>1, <1>3, <1>4 DEF Pruned, kept

(* One creation: the deques and the accepted times go on together.         *)
LEMMA LimitStep ==
  ASSUME RegistryInv, Limited, NEW r \in Requests, Limit(r)
  PROVE  /\ Limited'
         /\ \A k \in Caller :
              accepted'[k] # accepted[k] /\ Len(accepted[k]) = MaxRequests =>
                accepted[k][1] < now - Window
<1> DEFINE k == req[r].id.by
           p == Pruned(bucket, k, now)
           kept == Kept(bucket, now)
<1>1. k \in Caller /\ now \in Int /\ now' = now
  BY DEF RegistryInv, Core, Shape, Handler, Limit
<1>2. accepted \in [Caller -> Seq(Int)] /\ DOMAIN bucket \subseteq Caller
  BY DEF Limited
<1>3. bucket' = Counted(bucket, k, now)
  BY DEF Limit
<1>4. \/ Len(p) < MaxRequests /\ accepted' = [accepted EXCEPT ![k] = LastOf(Append(@, now))]
      \/ ~(Len(p) < MaxRequests) /\ accepted' = accepted
  BY DEF Limit, Admits
<1>5. Recalls(accepted[k], p, now)
  BY <1>1, KeptDeques
<1>6. /\ DOMAIN bucket' = {k} \union DOMAIN kept
      /\ bucket'[k] = IF Len(p) < MaxRequests THEN Append(p, now) ELSE p
      /\ \A h \in DOMAIN kept : h # k => bucket'[h] = bucket[h]
  BY <1>3 DEF Counted, Admits
<1>7. DOMAIN kept \subseteq DOMAIN bucket
  BY <1>1, KeptDeques
<1> HIDE DEF k, p, kept
<1>8. ASSUME Len(p) < MaxRequests
      PROVE  /\ Recalls(LastOf(Append(accepted[k], now)), Append(p, now), now)
             /\ Len(accepted[k]) = MaxRequests => accepted[k][1] < now - Window
  BY <1>1, <1>5, <1>8, RecallsAccepted
<1>9. ASSUME NEW h \in Caller
      PROVE  /\ Recalls(accepted'[h], IF h \in DOMAIN bucket' THEN bucket'[h] ELSE <<>>, now)
             /\ accepted'[h] # accepted[h] /\ Len(accepted[h]) = MaxRequests =>
                  accepted[h][1] < now - Window
  <2>1. CASE h = k
    <3>1. h \in DOMAIN bucket'
      BY <1>6, <2>1
    <3>2. CASE Len(p) < MaxRequests
      <4>1. accepted'[h] = LastOf(Append(accepted[h], now)) /\ bucket'[h] = Append(p, now)
        BY <1>1, <1>2, <1>4, <1>6, <2>1, <3>2
      <4>2. QED
        BY <1>8, <2>1, <3>1, <3>2, <4>1
    <3>3. CASE ~(Len(p) < MaxRequests)
      <4>1. accepted'[h] = accepted[h] /\ bucket'[h] = p
        BY <1>4, <1>6, <2>1, <3>3
      <4>2. QED
        BY <1>5, <2>1, <3>1, <4>1
    <3>4. QED
      BY <3>2, <3>3
  <2>2. CASE h # k
    <3>1. accepted'[h] = accepted[h]
      BY <1>1, <1>2, <1>4, <2>2
    <3>2. CASE h \in DOMAIN kept
      <4>1. h \in DOMAIN bucket' /\ bucket'[h] = bucket[h] /\ h \in DOMAIN bucket
        BY <1>6, <1>7, <2>2, <3>2
      <4>2. Recalls(accepted[h], bucket[h], now)
        BY <4>1 DEF Limited, Deque
      <4>3. QED
        BY <3>1, <4>1, <4>2
    <3>3. CASE h \notin DOMAIN kept
      <4>1. h \notin DOMAIN bucket'
        BY <1>6, <2>2, <3>3
      <4>2. Recalls(accepted[h], <<>>, now)
        BY <1>1, <3>3, KeptDeques DEF kept
      <4>3. QED
        BY <3>1, <4>1, <4>2
    <3>4. QED
      BY <3>2, <3>3
  <2>3. QED
    BY <2>1, <2>2
<1>10. accepted' \in [Caller -> Seq(Int)]
  <2>1. \A h \in Caller : accepted'[h] \in Seq(Int)
    BY <1>9 DEF Recalls
  <2>2. QED
    BY <1>2, <1>4, <2>1
<1>11. DOMAIN bucket' \subseteq Caller
  BY <1>1, <1>2, <1>6, <1>7
<1>12. \A h \in Caller : Recalls(accepted[h], Deque(h), now)'
  BY <1>1, <1>9 DEF Deque, Recalls
<1>13. QED
  BY <1>9, <1>10, <1>11, <1>12 DEF Limited

(* No other step touches the two, but a crash, that empties both.          *)
LEMMA LimitedStep ==
  ASSUME RegistryInv, Limited, [RegistryNext]_rvars
  PROVE  /\ Limited'
         /\ \A k \in Caller :
              accepted'[k] # accepted[k] /\ Len(accepted[k]) = MaxRequests
                /\ accepted'[k] # <<>> =>
                  accepted[k][1] < now - Window
<1>1. Shape /\ now \in Nat
  BY DEF RegistryInv, Core, Shape
<1>2. ASSUME UNCHANGED rate, now' \in Int, now <= now'
      PROVE  Limited' /\ accepted' = accepted
  <2>1. UNCHANGED <<bucket, accepted>>
    BY <1>2 DEF rate
  <2>2. \A k \in Caller : Recalls(accepted[k], Deque(k), now')
    BY <1>1, <1>2, RecallsLater DEF Limited
  <2>3. \A k \in Caller : Recalls(accepted[k], Deque(k), now)'
    BY <2>1, <2>2 DEF Recalls, Deque
  <2>4. QED
    BY <2>1, <2>3 DEF Limited
<1>3. CASE \E r \in Requests : Limit(r)
  BY <1>3, LimitStep
<1>4. CASE \E r \in Requests : Handle(r) /\ ~Limit(r)
  <2>1. UNCHANGED rate /\ now' = now
    BY <1>4 DEF Handle, CheckTarget, ListForRotation, Revoke, Insert, InsertNewUser,
       ListForDeletion, RevokeNext, DeleteUser, InsertTask
  <2>2. QED
    BY <1>1, <1>2, <2>1
<1>5. CASE \E r \in Requests, k \in Caller : Ask(r, k)
  <2>1. UNCHANGED rate /\ now' = now
    BY <1>1, <1>5, AskStep
  <2>2. QED
    BY <1>1, <1>2, <2>1
<1>6. CASE FindAdmin \/ LinkOrphanTokens \/ BackfillTasks \/ Tick \/ UNCHANGED rvars
  <2>1. UNCHANGED rate /\ now' \in Int /\ now <= now'
    BY <1>1, <1>6 DEF FindAdmin, LinkOrphanTokens, BackfillTasks, Tick, rvars
  <2>2. QED
    BY <1>2, <2>1
<1>7. CASE Crash
  <2>1. bucket' = <<>> /\ accepted' = [k \in Caller |-> <<>>] /\ now' = now
    BY <1>7 DEF Crash
  <2>2. DOMAIN <<>> = {} /\ <<>> \in Seq(Int)
    BY EmptySeq
  <2>3. Recalls(<<>>, <<>>, now)
    BY <1>1, NothingRecalled
  <2>4. \A k \in Caller : Recalls(accepted[k], Deque(k), now)'
    BY <2>1, <2>2, <2>3 DEF Deque, Recalls
  <2>5. QED
    BY <2>1, <2>2, <2>4 DEF Limited
<1>8. QED
  BY <1>3, <1>4, <1>5, <1>6, <1>7 DEF RegistryNext

-----------------------------------------------------------------------------
LEMMA FurtherInvariance == RegistrySpec => [](RegistryInv /\ Bounded /\ Owned /\ Limited)
<1>1. RegistryInit => Bounded /\ Owned /\ Limited
  <2>1. SUFFICES ASSUME RegistryInit
                 PROVE  Bounded /\ Owned /\ Limited
    OBVIOUS
  <2>2. Bounded
    BY <2>1, UnbornBounded DEF RegistryInit, Bounded, Idle
  <2>3. Owned
    BY <2>1 DEF RegistryInit, Owned, OwnedLike, Idle, Nobody
  <2>4. DOMAIN <<>> = {} /\ <<>> \in Seq(Int) /\ Recalls(<<>>, <<>>, 0)
    BY EmptySeq, NothingRecalled
  <2>5. Limited
    BY <2>1, <2>4 DEF RegistryInit, Limited, Deque
  <2>6. QED
    BY <2>2, <2>3, <2>5
<1>2. RegistryInv /\ Bounded /\ Owned /\ Limited /\ [RegistryNext]_rvars
        => (Bounded /\ Owned /\ Limited)'
  BY BoundedStep, OwnedStep, LimitedStep
<1>3. QED
  BY <1>1, <1>2, Invariance, PTL DEF RegistrySpec

(* Rows, handlers and deques keep their types and bounds.                  *)
THEOREM RegistryTypeTheorem == RegistrySpec => []RegistryTypeOK
<1>1. RegistryInv /\ Bounded /\ Limited => RegistryTypeOK
  <2>1. SUFFICES ASSUME RegistryInv, Bounded, Limited
                 PROVE  RegistryTypeOK
    OBVIOUS
  <2>2. Shape
    BY <2>1 DEF RegistryInv, Core
  <2>3. token \in [Token -> TokenRow]
    BY <2>1, <2>2 DEF Bounded, Shape
  <2>4. ASSUME NEW k \in DOMAIN bucket
        PROVE  Len(bucket[k]) <= MaxRequests
    <3>1. Recalls(accepted[k], bucket[k], now)
      BY <2>1 DEF Limited, Deque
    <3>2. /\ Len(bucket[k]) \in Nat /\ Len(accepted[k]) \in Nat /\ MaxRequests \in Nat
          /\ Len(bucket[k]) <= Len(accepted[k]) /\ Len(accepted[k]) <= MaxRequests
      BY <3>1, LenProperties, RateLimitAssumption DEF Recalls
    <3>3. QED
      BY <3>2
  <2>5. \A r \in Requests :
          /\ req[r].at \in {"idle", "target", "insert", "list", "revoke", "limit", "row"}
          /\ req[r].id \in [by : Caller, user : {0} \union User]
          /\ req[r].todo \subseteq Token
    BY <2>2 DEF Shape, Handler
  <2>6. QED
    BY <2>1, <2>2, <2>3, <2>4, <2>5 DEF RegistryTypeOK, Bounded, Limited, Shape
<1>2. QED
  BY <1>1, FurtherInvariance, PTL

(* What a rotation must not take away: through any chain of rotations,     *)
(* deletions of the admin and starts that adopt orphans, the user of a     *)
(* task owns every successor of the token it was created with.             *)
THEOREM AccessTheorem == RegistrySpec => []AccessFollowsRotation
<1>1. RegistryInv /\ Owned => AccessFollowsRotation
  <2>1. SUFFICES ASSUME RegistryInv, Owned, NEW t \in Token, NEW k \in task,
                        k.user # 0, k.by \in Ancestors(t)
                 PROVE  token[t].owner = k.user
    BY DEF AccessFollowsRotation
  <2> DEFINE S == {u \in Token : token[u].owner = token[t].owner}
  <2>2. \A u \in S : token[u].from # 0 => token[u].from \in S
    <3>1. \A u \in Token : token[u].from \in Caller
      BY <2>1 DEF RegistryInv, Core, Shape, Row
    <3>2. QED
      BY <2>1, <3>1 DEF RegistryInv, Family, SuccessorKeeps, Caller
  <2>3. t \in S /\ S \in SUBSET Token
    OBVIOUS
  <2> HIDE DEF S
  <2>4. k.by \in S
    BY <2>1, <2>2, <2>3 DEF Ancestors
  <2>5. k.by \in Token /\ token[k.by].owner = token[t].owner
    BY <2>4 DEF S
  <2>6. k.by # 0
    BY <2>5 DEF Token
  <2>7. token[k.by].owner = k.user
    BY <2>1, <2>6 DEF Owned, OwnedLike
  <2>8. QED
    BY <2>5, <2>7
<1>2. QED
  BY <1>1, FurtherInvariance, PTL

(* No window of the clock sees more than MaxRequests creations of one      *)
(* fingerprint let through, whatever deques are evicted, until a restart.  *)
THEOREM RateTheorem == RegistrySpec => RateHolds
<1>1. RegistryInv /\ Limited /\ [RegistryNext]_rvars =>
        [\A k \in Caller :
           accepted'[k] # accepted[k] /\ Len(accepted[k]) = MaxRequests /\ accepted'[k] # <<>> =>
             accepted[k][1] < now - Window]_rvars
  BY LimitedStep
<1>2. QED
  BY <1>1, FurtherInvariance, PTL DEF RegistrySpec, RateHolds
=============================================================================
