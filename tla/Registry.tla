------------------------------ MODULE Registry ------------------------------
(***************************************************************************)
(* Users and API tokens: the endpoints of api/tokens.py and api/users.py,  *)
(* the check of a bearer token (auth.py), the start of the server that     *)
(* makes the admin user and adopts orphans (main.py), and the first steps  *)
(* of task creation, its rate limit and the owner written to its row.      *)
(*                                                                         *)
(* An action is one transaction of the store; handlers interleave between  *)
(* them.  AUTOINCREMENT never gives an id twice.  Id 0 stands for NULL,    *)
(* token 0 also for the legacy token of the server.                        *)
(***************************************************************************)
EXTENDS RateLimit

CONSTANTS
  Requests,    \* bound: requests in progress
  Name,        \* user names
  Grants,      \* the sets of scopes clients ask for
  Mixes,       \* bound: what a behaviour consists of (endpoints, "time", "crash")
               \*   and how many rows it may insert
  MaxUsers,    \* bound: users ever inserted
  MaxTokens,   \* bound: tokens ever inserted
  MaxTime,     \* bound on the clock
  MaxCrashes   \* bound: crashes in a behaviour

ASSUME RegistryAssumption ==
  /\ "admin" \in Name /\ Name \intersect {"none", "deleted"} = {}
  /\ Mixes \subseteq [does : SUBSET STRING, users : 0..MaxUsers, tokens : 0..MaxTokens]
  /\ MaxUsers \in Nat /\ MaxTokens \in Nat /\ MaxTime \in Nat /\ MaxCrashes \in Nat

User == 1..MaxUsers
Token == 1..MaxTokens
Caller == {0} \union Token

VARIABLES
  now,       \* the clock
  mode,      \* the step of the start, or "serving"
  mix,       \* for the bound: what this behaviour consists of
  user,      \* id -> name, "none" or "deleted"
  token,     \* id -> its row
  task,      \* the owner columns of the task rows
  bucket,    \* _create_rate_buckets
  accepted,  \* history: the last MaxRequests times per fingerprint
  req,       \* request -> its handler
  crashes    \* history, for the bound

tables == <<user, token, task>>
rate == <<bucket, accepted>>
bounds == <<mix, crashes>>
rvars == <<now, mode, tables, rate, req, bounds>>

There(u) == u \in User /\ user[u] \in Name
Named(n) == {u \in User : user[u] = n}
Admin == IF Named("admin") = {} THEN 0 ELSE CHOOSE u \in Named("admin") : TRUE
Users == Cardinality({u \in User : user[u] # "none"})
Tokens == Cardinality({t \in Token : token[t].life # "none"})

Unborn == [life |-> "none", owner |-> 0, expires |-> 0, scopes |-> {}, from |-> 0]

(* TokenInfo.is_active.                                                    *)
IsActive(tok) == tok.life = "live" /\ (tok.expires = 0 \/ now < tok.expires)

InsertUser(n) == user' = [user EXCEPT ![Users + 1] = n]

InsertToken(owner, expires, scopes, from) ==
  /\ Tokens < mix.tokens
  /\ token' = [token EXCEPT ![Tokens + 1] =
       [life |-> "live", owner |-> owner, expires |-> expires, scopes |-> scopes, from |-> from]]

RevokeToken(t) ==
  token' = IF token[t].life = "live" THEN [token EXCEPT ![t].life = "revoked"] ELSE token

-----------------------------------------------------------------------------
(* The start: _ensure_admin_user.                                          *)
FindAdminOnly ==   \* fault: an admin that is there ends the start
  /\ mode = "look"
  /\ IF Admin # 0
       THEN mode' = "serving" /\ UNCHANGED user
       ELSE mode' = "link" /\ Users < mix.users /\ InsertUser("admin")
  /\ UNCHANGED <<now, token, task, rate, req, bounds>>

FindAdmin ==
  /\ mode = "look"
  /\ IF Admin # 0
       THEN UNCHANGED user
       ELSE Users < mix.users /\ InsertUser("admin")
  /\ mode' = "link"
  /\ UNCHANGED <<now, token, task, rate, req, bounds>>

LinkOrphanTokens ==
  /\ mode = "link"
  /\ token' = [t \in Token |-> IF token[t].life # "none" /\ token[t].owner = 0
                                 THEN [token[t] EXCEPT !.owner = Admin] ELSE token[t]]
  /\ mode' = "backfill"
  /\ UNCHANGED <<now, user, task, rate, req, bounds>>

BackfillTasks ==
  /\ mode = "backfill"
  /\ task' = {[k EXCEPT !.user = IF @ = 0 THEN Admin ELSE @] : k \in task}
  /\ mode' = "serving"
  /\ UNCHANGED <<now, user, token, rate, req, bounds>>

-----------------------------------------------------------------------------
(* Handlers: the caller's fingerprint and user as authenticated (where     *)
(* they are used later), what is asked for, and the locals that outlive an *)
(* await.                                                                  *)
Nobody == [by |-> 0, user |-> 0]

Idle == [call |-> "none", at |-> "idle", id |-> Nobody, arg |-> 0, ask |-> Unborn,
         todo |-> {}, upto |-> 0]

Goes(r, at) == req' = [req EXCEPT ![r].at = at]
Ends(r) == req' = [req EXCEPT ![r] = Idle]

Scope(call) ==
  CASE call = "create-task" -> "tasks:create"
    [] call \in {"create-user", "delete-user"} -> "admin:users"
    [] OTHER -> "admin:tokens"

(* The user a caller stands for.                                           *)
As(k) == IF k = 0 THEN Admin ELSE token[k].owner

(* verify_token_with_scopes and require_scope.  The legacy token has every *)
(* scope and stands for the admin, if there is one.                        *)
Begins(r, k, call, at, arg, ask) ==
  /\ req[r].at = "idle"
  /\ mode = "serving"
  /\ call \in mix.does
  /\ k # 0 => IsActive(token[k]) /\ Scope(call) \in token[k].scopes
  /\ LET id == IF call = "create-task" THEN [by |-> k, user |-> As(k)] ELSE Nobody
     IN req' = [req EXCEPT ![r] = [call |-> call, at |-> at, id |-> id, arg |-> arg, ask |-> ask,
                                   todo |-> {}, upto |-> 0]]
  /\ UNCHANGED <<now, mode, tables, rate, bounds>>

(* A token for oneself, or (checked first) for another user; no scope the  *)
(* caller does not have.                                                   *)
AskToken(r, k) ==
  \E u \in 0..mix.users, S \in Grants, e \in {0, now + 1} :
    /\ k # 0 => S \subseteq token[k].scopes
    /\ Begins(r, k, "create-token", IF u \in {0, As(k)} THEN "insert" ELSE "target", 0,
              [Unborn EXCEPT !.owner = IF u = 0 THEN As(k) ELSE u, !.expires = e, !.scopes = S])

CheckTarget(r) ==
  /\ req[r].at = "target" /\ req[r].call = "create-token"
  /\ IF There(req[r].ask.owner) THEN Goes(r, "insert") ELSE Ends(r)
  /\ UNCHANGED <<now, mode, tables, rate, bounds>>

AskRevoke(r, k) ==
  \E t \in Token : Begins(r, k, "revoke-token", "revoke", t, Unborn)

AskRotate(r, k) ==
  \E t \in Token : Begins(r, k, "rotate-token", "list", t, Unborn)

(* rotate: the row as listed is what the new token takes over.             *)
ListLeavingOld(r) ==   \* fault: the old token is not revoked
  /\ req[r].at = "list" /\ req[r].call = "rotate-token"
  /\ IsActive(token[req[r].arg])
  /\ req' = [req EXCEPT ![r].at = "insert", ![r].ask = token[req[r].arg]]
  /\ UNCHANGED <<now, mode, tables, rate, bounds>>

ListForRotation(r) ==
  /\ req[r].at = "list" /\ req[r].call = "rotate-token"
  /\ IF IsActive(token[req[r].arg])
       THEN req' = [req EXCEPT ![r].at = "revoke", ![r].ask = token[req[r].arg]]
       ELSE Ends(r)
  /\ UNCHANGED <<now, mode, tables, rate, bounds>>

(* Whether the revocation took is not looked at by rotate.                 *)
Revoke(r) ==
  /\ req[r].at = "revoke" /\ req[r].call \in {"revoke-token", "rotate-token"}
  /\ RevokeToken(req[r].arg)
  /\ IF req[r].call = "rotate-token" THEN Goes(r, "insert") ELSE Ends(r)
  /\ UNCHANGED <<now, mode, user, task, rate, bounds>>

(* A rotated token keeps what remains of its time; if none remains by the  *)
(* time that is computed, the new one gets no expiry at all.               *)
Remaining(old) == {old.expires} \union IF now >= old.expires THEN {0} ELSE {}

InsertWithoutOwner(r) ==   \* fault: rotate does not pass the owner on
  /\ req[r].at = "insert" /\ req[r].call \in {"create-token", "rotate-token"}
  /\ InsertToken(IF req[r].call = "create-token" THEN req[r].ask.owner ELSE 0,
                 req[r].ask.expires, req[r].ask.scopes, req[r].arg)
  /\ Ends(r)
  /\ UNCHANGED <<now, mode, user, task, rate, bounds>>

InsertWithoutExpiry(r) ==   \* fault: the remaining time is lost
  /\ req[r].at = "insert" /\ req[r].call \in {"create-token", "rotate-token"}
  /\ InsertToken(req[r].ask.owner, IF req[r].call = "create-token" THEN req[r].ask.expires ELSE 0,
                 req[r].ask.scopes, req[r].arg)
  /\ Ends(r)
  /\ UNCHANGED <<now, mode, user, task, rate, bounds>>

Insert(r) ==
  /\ req[r].at = "insert" /\ req[r].call \in {"create-token", "rotate-token"}
  /\ LET ask == req[r].ask
     IN \E e \in IF req[r].call = "create-token" THEN {ask.expires} ELSE Remaining(ask) :
          InsertToken(ask.owner, e, ask.scopes, req[r].arg)
  /\ Ends(r)
  /\ UNCHANGED <<now, mode, user, task, rate, bounds>>

-----------------------------------------------------------------------------
(* create-user: look, then INSERT, where the name is UNIQUE.               *)
AskUser(r, k) ==
  \E n \in Name : Named(n) = {} /\ Begins(r, k, "create-user", "insert", n, Unborn)

InsertNewUser(r) ==
  /\ req[r].at = "insert" /\ req[r].call = "create-user"
  /\ IF Named(req[r].arg) = {}
       THEN Users < mix.users /\ InsertUser(req[r].arg)
       ELSE UNCHANGED user
  /\ Ends(r)
  /\ UNCHANGED <<now, mode, token, task, rate, bounds>>

(* delete-user: the tokens of the user as listed, one by one, then the row.*)
AskDelete(r, k) ==
  \E u \in User : There(u) /\ Begins(r, k, "delete-user", "list", u, Unborn)

ListForDeletion(r) ==
  /\ req[r].at = "list" /\ req[r].call = "delete-user"
  /\ req' = [req EXCEPT ![r].at = "revoke", ![r].upto = Tokens,
                        ![r].todo = {t \in Token : token[t].owner = req[r].arg}]
  /\ UNCHANGED <<now, mode, tables, rate, bounds>>

RevokeOnlyOne(r) ==   \* fault: leaves the loop after the first token
  /\ req[r].at = "revoke" /\ req[r].call = "delete-user"
  /\ \E t \in req[r].todo : RevokeToken(t)
  /\ req' = [req EXCEPT ![r].todo = {}]
  /\ UNCHANGED <<now, mode, user, task, rate, bounds>>

RevokeNext(r) ==
  /\ req[r].at = "revoke" /\ req[r].call = "delete-user"
  /\ \E t \in req[r].todo :
       /\ RevokeToken(t)
       /\ req' = [req EXCEPT ![r].todo = @ \ {t}]
  /\ UNCHANGED <<now, mode, user, task, rate, bounds>>

DeleteUser(r) ==
  /\ req[r].at = "revoke" /\ req[r].call = "delete-user" /\ req[r].todo = {}
  /\ user' = [user EXCEPT ![req[r].arg] = "deleted"]
  /\ Ends(r)
  /\ UNCHANGED <<now, mode, token, task, rate, bounds>>

-----------------------------------------------------------------------------
(* create-task as far as owners go: the limit, and later the INSERT.       *)
AskTask(r, k) == Begins(r, k, "create-task", "limit", 0, Unborn)

LastOf(s) == SubSeq(s, IF Len(s) > MaxRequests THEN 2 ELSE 1, Len(s))

Limit(r) ==
  /\ req[r].at = "limit"
  /\ LET k == req[r].id.by
     IN /\ bucket' = Counted(bucket, k, now)
        /\ IF Admits(bucket, k, now)
             THEN accepted' = [accepted EXCEPT ![k] = LastOf(Append(@, now))] /\ Goes(r, "row")
             ELSE UNCHANGED accepted /\ Ends(r)
  /\ UNCHANGED <<now, mode, tables, bounds>>

InsertTask(r) ==
  /\ req[r].at = "row"
  /\ task' = task \union {req[r].id}
  /\ Ends(r)
  /\ UNCHANGED <<now, mode, user, token, rate, bounds>>

-----------------------------------------------------------------------------
Tick ==
  /\ "time" \in mix.does /\ now < MaxTime
  /\ now' = now + 1
  /\ UNCHANGED <<mode, tables, rate, req, bounds>>

(* What is in memory is lost.                                              *)
Crash ==
  /\ "crash" \in mix.does /\ crashes < MaxCrashes
  /\ crashes' = crashes + 1
  /\ mode' = "look"
  /\ bucket' = <<>>
  /\ accepted' = [k \in Caller |-> <<>>]
  /\ req' = [r \in Requests |-> Idle]
  /\ UNCHANGED <<now, tables, mix>>

RegistryInit ==
  /\ now = 0
  /\ mode = "look"
  /\ mix \in Mixes
  /\ user = [u \in User |-> "none"]
  /\ token = [t \in Token |-> Unborn]
  /\ task = {}
  /\ bucket = <<>>
  /\ accepted = [k \in Caller |-> <<>>]
  /\ req = [r \in Requests |-> Idle]
  /\ crashes = 0

Ask(r, k) ==
  AskToken(r, k) \/ AskRevoke(r, k) \/ AskRotate(r, k) \/ AskUser(r, k) \/ AskDelete(r, k)
  \/ AskTask(r, k)

Handle(r) ==
  CheckTarget(r) \/ ListForRotation(r) \/ Revoke(r) \/ Insert(r) \/ InsertNewUser(r)
  \/ ListForDeletion(r) \/ RevokeNext(r) \/ DeleteUser(r) \/ Limit(r) \/ InsertTask(r)

RegistryNext ==
  \/ FindAdmin \/ LinkOrphanTokens \/ BackfillTasks
  \/ \E r \in Requests : Handle(r) \/ \E k \in Caller : Ask(r, k)
  \/ Tick \/ Crash

RegistrySpec == RegistryInit /\ [][RegistryNext]_rvars

-----------------------------------------------------------------------------
TokenRow == [life : {"none", "live", "revoked"}, owner : {0} \union User,
             expires : 0..(MaxTime + 1), scopes : {{}} \union Grants, from : Caller]

RegistryTypeOK ==
  /\ now \in 0..MaxTime
  /\ mode \in {"look", "link", "backfill", "serving"}
  /\ user \in [User -> Name \union {"none", "deleted"}]
  /\ token \in [Token -> TokenRow]
  /\ task \subseteq [by : Caller, user : {0} \union User]
  /\ DOMAIN bucket \subseteq Caller
  /\ \A k \in DOMAIN bucket : Len(bucket[k]) <= MaxRequests
  /\ \A r \in Requests :
       /\ req[r].at \in {"idle", "target", "insert", "list", "revoke", "limit", "row"}
       /\ req[r].id \in [by : Caller, user : {0} \union User]
       /\ req[r].ask \in TokenRow
       /\ req[r].todo \subseteq Token /\ req[r].upto \in 0..MaxTokens

(* "The old token is immediately revoked and can no longer be used"        *)
(* (api/tokens.py:107): when a successor exists its predecessor is dead,   *)
(* however rotations and revocations of it interleave.                     *)
RotatedIsRevoked ==
  \A t \in Token : token[t].from # 0 => token[token[t].from].life = "revoked"

(* A successor has the owner, the scopes and the expiry of its predecessor *)
(* ("Preserve remaining expiry if the old token had one", tokens.py:127),  *)
(* unless that ran out during the rotation: then it never expires.         *)
SuccessorKeeps ==
  \A t \in Token :
    LET old == token[token[t].from]
    IN token[t].from # 0 =>
         /\ token[t].owner = old.owner
         /\ token[t].scopes = old.scopes
         /\ token[t].expires = old.expires \/ (token[t].expires = 0 /\ now >= old.expires)

(* What a rotation must not take away: the tasks created with a token stay *)
(* accessible (_require_task_owner) with its successors, by user, once     *)
(* they have one.                                                          *)
Ancestors(t) ==
  {a \in Token : \A S \in SUBSET Token :
     t \in S /\ (\A u \in S : token[u].from # 0 => token[u].from \in S) => a \in S}

AccessFollowsRotation ==
  \A t \in Token, k \in task :
    k.user # 0 /\ k.by \in Ancestors(t) => token[t].owner = k.user

(* When delete-user removes the row, every token of that user that was     *)
(* there when it listed them is revoked; one inserted since survives.      *)
DeletionRevokes ==
  [][\A u \in User : There(u) /\ user'[u] = "deleted" =>
       \E r \in Requests :
         /\ req[r].call = "delete-user" /\ req[r].arg = u
         /\ \A t \in 1..req[r].upto : token[t].owner = u => token[t].life = "revoked"]_rvars

(* "Ensure the bootstrap admin user exists" (main.py:48): when the server  *)
(* begins to serve there is an admin, and no token or task without owner,  *)
(* at whatever step an earlier start died.                                 *)
ServesWithAdmin ==
  [][mode # "serving" /\ mode' = "serving" =>
       /\ Admin # 0
       /\ \A t \in Token : token'[t].life # "none" => token'[t].owner # 0
       /\ \A k \in task' : k.user # 0]_rvars

(* No fingerprint is let through more than MaxRequests times in a window,  *)
(* deques evicted or not, as long as the server lives.                     *)
RateHolds ==
  [][\A k \in Caller :
       accepted'[k] # accepted[k] /\ Len(accepted[k]) = MaxRequests /\ accepted'[k] # <<>> =>
         accepted[k][1] < now - Window]_rvars
=============================================================================
