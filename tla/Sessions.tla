------------------------------- MODULE Sessions -------------------------------
(***************************************************************************)
(* The sessions of ONE account (api/routes/auth.py): register, login,      *)
(* refresh, logout and delete-account with the refresh token in a cookie.  *)
(* A device sends requests and keeps the last cookie it was answered with; *)
(* several tabs of one device share its jar.  A refresh token is named by  *)
(* the request that minted it, its row is in refresh_tokens.               *)
(*                                                                         *)
(* These handlers leave the commit to get_db, whose code after the yield   *)
(* runs before or after the answer is sent, depending on the release of    *)
(* FastAPI (pyproject.toml asks for any from 0.104): setting says which.   *)
(***************************************************************************)
EXTENDS Naturals, FiniteSets

CONSTANTS
    Requests,   \* each sent once; also the tokens they mint
    Devices,
    Device,     \* Device[r]: who sends r
    None,       \* no token, no cookie
    MaxExpired  \* bound on the tokens that expire

ASSUME SessionAssumption ==
    /\ Device \in [Requests -> Devices]
    /\ None \notin Requests
    /\ MaxExpired \in Nat

Kinds == {"register", "login", "refresh", "logout"}

VARIABLES
    setting,   \* commitFirst: is the transaction committed before the answer
               \* is sent?  oneTab: does a device wait for an answer before it
               \* sends again?  Chosen at the start.
    user,      \* "absent", "exists", "deleted": the users row
    token,     \* token[t]: "none", "live", "revoked", the committed row of t
    expired,   \* tokens past expires_at
    jar,       \* jar[d]: the refresh_token cookie of device d
    req,       \* req[r]: the handler of r
    origin,    \* origin[t]: the register or login t descends from
    used,      \* used[t]: how often t was exchanged
    disturbed  \* devices that missed the answer of a request

history == <<setting, origin, used, disturbed>>
vars == <<user, token, expired, jar, req, history>>

Fresh == [kind |-> "none", pc |-> "idle", presents |-> None, revokes |-> FALSE,
          committed |-> FALSE, answered |-> FALSE]

Init ==
    /\ setting \in [commitFirst : BOOLEAN, oneTab : BOOLEAN]
    /\ user \in {"absent", "exists"}
    /\ token = [t \in Requests |-> "none"]
    /\ expired = {}
    /\ jar = [d \in Devices |-> None]
    /\ req = [r \in Requests |-> Fresh]
    /\ origin = [t \in Requests |-> None]
    /\ used = [t \in Requests |-> 0]
    /\ disturbed = {}
-----------------------------------------------------------------------------
InFlight(r) == req[r].pc \notin {"idle", "refused", "error", "done", "crashed"}
Waiting(r) == InFlight(r) /\ ~req[r].answered

\* The transaction of r has flushed its UPDATE of the row of token t.
TokenLocked(r, t) == \E q \in Requests : /\ q # r /\ req[q].presents = t
                                         /\ req[q].kind = "refresh"
                                         /\ req[q].pc = "returning"
                                         /\ ~req[q].committed

\* Another register has inserted the users row and not committed.
EmailLocked(r) == \E q \in Requests : /\ q # r /\ req[q].kind = "register"
                                      /\ req[q].pc = "returning"
                                      /\ ~req[q].committed

Step(r, pc) == req' = [req EXCEPT ![r].pc = pc]

Send(r, kind) ==
    LET d == Device[r] IN
    /\ req[r].pc = "idle"
    /\ setting.oneTab => \A q \in Requests : Device[q] = d => ~Waiting(q)
    /\ kind \in {"refresh", "logout"} => jar[d] # None
    /\ kind = "register" => user # "deleted"
    /\ req' = [req EXCEPT ![r] = [Fresh EXCEPT !.kind = kind, !.pc = "sent",
                 !.presents = IF kind \in {"refresh", "logout"} THEN jar[d] ELSE None]]
    /\ UNCHANGED <<user, token, expired, jar, history>>

\* The SELECT of the users row: 409, or 401 (no such user, wrong password).
ReadUser(r) ==
    /\ req[r].pc = "sent"
    /\ \/ /\ req[r].kind = "register"
          /\ Step(r, IF user = "exists" THEN "refused" ELSE "writing")
       \/ /\ req[r].kind = "login"
          /\ Step(r, "refused") \/ (user = "exists" /\ Step(r, "returning"))
    /\ UNCHANGED <<user, token, expired, jar, history>>

\* refresh, the SELECT of the refresh_tokens row: 401.
ReadToken(r) ==
    LET t == req[r].presents IN
    /\ req[r].pc = "sent" /\ req[r].kind = "refresh"
    /\ IF token[t] # "live" \/ t \in expired THEN Step(r, "refused")
       ELSE req' = [req EXCEPT ![r].pc = "writing", ![r].revokes = TRUE]
    /\ UNCHANGED <<user, token, expired, jar, history>>

\* logout revokes the row it finds, and answers 204 whatever it found.
Logout(r) ==
    /\ req[r].pc = "sent" /\ req[r].kind = "logout"
    /\ req' = [req EXCEPT ![r].pc = "returning",
                          ![r].revokes = (token[req[r].presents] = "live")]
    /\ UNCHANGED <<user, token, expired, jar, history>>

\* register: the flush of the new users row fails on the unique email.
AddUser(r) ==
    /\ req[r].pc = "writing" /\ req[r].kind = "register"
    /\ ~EmailLocked(r)
    /\ Step(r, IF user = "exists" THEN "error" ELSE "returning")
    /\ UNCHANGED <<user, token, expired, jar, history>>

\* refresh sets revoked, and the SELECT of the user flushes it without looking
\* at the row again; a row that is gone by now is a StaleDataError.
RevokeOld(r) ==
    LET t == req[r].presents IN
    /\ req[r].pc = "writing" /\ req[r].kind = "refresh"
    /\ ~TokenLocked(r, t)
    /\ Step(r, IF token[t] = "none" THEN "error" ELSE "returning")
    /\ UNCHANGED <<user, token, expired, jar, history>>

\* Mutation: the old token is not revoked.
TokensWithoutRotation(r) ==
    [t \in Requests |-> IF t = r /\ req[r].kind # "logout" THEN "live" ELSE token[t]]

\* Mutation: the new token is revoked in place of the old one.
TokensSwapped(r) ==
    [t \in Requests |->
       IF t = r /\ req[r].kind # "logout"
       THEN IF req[r].kind = "refresh" THEN "revoked" ELSE "live"
       ELSE token[t]]

\* What the commit of r makes of the refresh_tokens rows.
Tokens(r) ==
    [t \in Requests |->
       IF t = r /\ req[r].kind # "logout" THEN "live"
       ELSE IF t = req[r].presents /\ req[r].revokes THEN "revoked"
       ELSE token[t]]

\* Mutation: no foreign key.
NeverBroken(r) == FALSE

\* A new token of a deleted user fails on the foreign key; an UPDATE of a row
\* that has been deleted is a StaleDataError.
Broken(r) == \/ req[r].kind \in {"login", "refresh"} /\ user # "exists"
             \/ req[r].revokes /\ token[req[r].presents] = "none"

\* get_db commits, or rolls back what fails.
Commit(r) ==
    LET t == req[r].presents
        kind == req[r].kind
    IN  /\ req[r].pc = "returning" /\ ~req[r].committed
        /\ ~setting.commitFirst => req[r].answered
        /\ ~TokenLocked(r, t)
        /\ IF Broken(r) THEN Step(r, "error") /\ UNCHANGED <<user, token, expired, jar, history>>
           ELSE /\ user' = IF kind = "register" THEN "exists" ELSE user
                /\ token' = Tokens(r)
                /\ req' = [req EXCEPT ![r].committed = TRUE,
                                      ![r].pc = IF setting.commitFirst THEN @ ELSE "done"]
                /\ origin' = CASE kind \in {"register", "login"} -> [origin EXCEPT ![r] = r]
                               [] kind = "refresh" -> [origin EXCEPT ![r] = origin[t]]
                               [] OTHER -> origin
                /\ used' = IF kind = "refresh" THEN [used EXCEPT ![t] = @ + 1] ELSE used
                /\ UNCHANGED <<setting, expired, jar, disturbed>>

\* The answer of r gives the device this cookie, or gets lost.
Answer(r, cookie) ==
    LET d == Device[r] IN
    /\ req[r].pc = "returning" /\ ~req[r].answered
    /\ setting.commitFirst => req[r].committed
    /\ req' = [req EXCEPT ![r].answered = TRUE,
                          ![r].pc = IF setting.commitFirst THEN "done" ELSE @]
    /\ \/ jar' = [jar EXCEPT ![d] = cookie] /\ UNCHANGED disturbed
       \/ disturbed' = disturbed \cup {d} /\ UNCHANGED jar
    /\ UNCHANGED <<setting, user, token, expired, origin, used>>

AnswerSession(r) == req[r].kind # "logout" /\ Answer(r, r)

\* The cookie is deleted.
AnswerLogout(r) == req[r].kind = "logout" /\ Answer(r, None)

Expire(t) ==
    /\ token[t] = "live" /\ t \notin expired
    /\ Cardinality(expired) < MaxExpired
    /\ expired' = expired \cup {t}
    /\ UNCHANGED <<user, token, jar, req, history>>

\* delete_account: the rows of the user's tokens go with the users row.  (A
\* register still in flight would make another account: not this model's.)
DeleteAccount ==
    /\ user = "exists"
    /\ \A r \in Requests : ~(req[r].kind = "register" /\ InFlight(r))
    /\ \A t \in Requests : ~TokenLocked(None, t)
    /\ user' = "deleted"
    /\ token' = [t \in Requests |-> "none"]
    /\ UNCHANGED <<expired, jar, req, history>>

\* The process dies, or some transactions fail (a first login also inserts the
\* CONSUMER subscription, on its unique index): rollback, and no answer that
\* the device could use.
Crash ==
    \E dead \in SUBSET {r \in Requests : InFlight(r)} :
        /\ dead # {}
        /\ req' = [r \in Requests |-> IF r \in dead THEN [req[r] EXCEPT !.pc = "crashed"]
                                                   ELSE req[r]]
        /\ disturbed' = disturbed \cup {Device[r] : r \in dead}
        /\ UNCHANGED <<setting, user, token, expired, jar, origin, used>>

Handle(r) == \/ ReadUser(r) \/ ReadToken(r) \/ Logout(r)
             \/ AddUser(r) \/ RevokeOld(r) \/ Commit(r)
             \/ AnswerSession(r) \/ AnswerLogout(r)

Next ==
    \/ \E r \in Requests, kind \in Kinds : Send(r, kind)
    \/ \E r \in Requests : Handle(r) \/ Expire(r)
    \/ DeleteAccount
    \/ Crash

Spec == Init /\ [][Next]_vars
-----------------------------------------------------------------------------
Tokenish == Requests \cup {None}
Ended == {"refused", "error", "done", "crashed"}
Handlers == [kind : Kinds \cup {"none"},
             pc : {"idle", "sent", "writing", "returning"} \cup Ended,
             presents : Tokenish, revokes : BOOLEAN, committed : BOOLEAN, answered : BOOLEAN]

TypeOK ==
    /\ setting \in [commitFirst : BOOLEAN, oneTab : BOOLEAN]
    /\ user \in {"absent", "exists", "deleted"}
    /\ token \in [Requests -> {"none", "live", "revoked"}]
    /\ expired \subseteq Requests
    /\ jar \in [Devices -> Tokenish]
    /\ req \in [Requests -> Handlers]
    /\ origin \in [Requests -> Tokenish]
    /\ used \in [Requests -> Nat]
    /\ disturbed \subseteq Devices

OneAtATime == setting.oneTab /\ setting.commitFirst

\* The live tokens of login l.
Live(l) == {t \in Requests : token[t] = "live" /\ origin[t] = l}

Logins == INSTANCE LoginSession WITH
    Tickets <- Requests,
    credential <- [l \in Requests |-> IF OneAtATime THEN Live(l) ELSE {}],
    spent <- {t \in Requests : OneAtATime /\ origin[t] # None /\ token[t] # "live"},
    exchanged <- [t \in Requests |-> IF OneAtATime THEN used[t] ELSE 0],
    closed <- OneAtATime /\ user = "deleted"

(* A refresh token is exchanged for one new token (auth.py:351, "Revoke old *)
(* token (rotation)"), as long as a device waits for each answer and each  *)
(* answer for its commit; two requests that refresh at once both pass the   *)
(* check of :336.  Then a login has one refresh token that can be          *)
(* exchanged, through rotations, lost answers and crashes; one that was    *)
(* exchanged, revoked or deleted with the account never works again, and a *)
(* deleted account opens no login.                                          *)
ImplementsLogins == Logins!Spec

(* "Revoke a refresh token to log out" (auth.py:419): once the logout is    *)
(* committed, no token of that login can be exchanged any more, unless the  *)
(* device never learnt of the newest one, refreshed in another tab, or was  *)
(* answered before the commit.                                              *)
LogoutEnds ==
    \A r, t \in Requests :
        /\ OneAtATime
        /\ req[r].kind = "logout" /\ req[r].committed
        /\ Device[r] \notin disturbed
        /\ origin[t] = origin[req[r].presents] /\ origin[t] # None
        => token[t] # "live"

(* A device that has all its answers can go on with the cookie it holds,    *)
(* whatever its tabs did at the same time (auth.py:375-386).                *)
JarUsable ==
    \A d \in Devices :
        /\ jar[d] # None /\ user = "exists" /\ jar[d] \notin expired
        /\ d \notin disturbed
        /\ \A r \in Requests : Device[r] = d => ~InFlight(r)
        => token[jar[d]] = "live"

(* No session outlives the account (models/user.py:74, auth.py:556), even   *)
(* one that was being opened or refreshed when the account was deleted.     *)
SessionsEndWithAccount ==
    user = "deleted" => \A t \in Requests : token[t] = "none"
=============================================================================
