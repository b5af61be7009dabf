----------------------------- MODULE AppleSignIn -----------------------------
(***************************************************************************)
(* Signing in with Apple beside the registration of accounts by e-mail     *)
(* (auth.py, apple_auth.py): an identity is looked up by its Apple id, then*)
(* by its e-mail address, and linked to the account found or given a new   *)
(* one.  Every handler runs in a transaction under READ COMMITTED; users   *)
(* has the rows that are committed, what a request has flushed is in its   *)
(* record and locks the unique values and the rows it wrote.               *)
(*                                                                         *)
(* Apple and the check of its signature are external; what the handler     *)
(* makes of the claim email_verified is not.                               *)
(***************************************************************************)
EXTENDS Integers

CONSTANTS
    Requests,    \* sign-ins and registrations; an account has the name of
                 \* the request that inserts it
    Identities,  \* the "sub" of Apple's identity tokens
    Emails,      \* addresses
    EmailOf,     \* EmailOf[i]: the address Apple knows of identity i
    Claims,      \* the forms email_verified comes in
    None

ASSUME SignInAssumption ==
    /\ EmailOf \in [Identities -> Emails]
    /\ \A i, j \in Identities : EmailOf[i] = EmailOf[j] => i = j
    /\ Claims \subseteq {"True", "False", "'true'", "'false'", "absent"}
    /\ None \notin Identities \cup Emails \cup Requests
    /\ Identities \cap Emails = {}

VARIABLES
    users,      \* users[a]: the committed row of account a
    req,        \* req[r]: what request r has got to
    sessions    \* the sign-ins that were answered: identity and account

vars == <<users, req, sessions>>

\* confirmed: somebody clicked the link in the mail, or Apple said so when the
\* account was made.  agreed: Apple said so when the identity was linked.
Absent == [email |-> None, apple |-> None, password |-> FALSE, verified |-> FALSE,
           subscribed |-> FALSE, confirmed |-> FALSE, agreed |-> FALSE]
Idle == [pc |-> "idle", who |-> None, email |-> None, claim |-> "absent",
         user |-> None, write |-> "none", subscribes |-> FALSE]

Init ==
    /\ users = [a \in Requests |-> Absent]
    /\ req = [r \in Requests |-> Idle]
    /\ sessions = {}
-----------------------------------------------------------------------------
(* validate_identity_token. *)

\* What Apple says, and what bool() makes of it: a string that is not empty
\* is true.
Says(claim) == claim \in {"True", "'true'"}
Bool(claim) == claim \in {"True", "'true'", "'false'"}

\* Apple may leave the address out.
BeginSignIn(r, i, claim) ==
    /\ req[r].pc = "idle"
    /\ \E email \in {EmailOf[i], None} :
         req' = [req EXCEPT ![r] = [Idle EXCEPT !.pc = "by_apple", !.who = i,
                                                !.email = email, !.claim = claim]]
    /\ UNCHANGED <<users, sessions>>

\* register: the e-mail address is looked up first.
BeginRegister(r, e) ==
    /\ req[r].pc = "idle"
    /\ req' = [req EXCEPT ![r] = [Idle EXCEPT !.pc = "by_email", !.email = e]]
    /\ UNCHANGED <<users, sessions>>
-----------------------------------------------------------------------------
(* Looking up. *)

Registers(r) == req[r].who = None

WithApple(i) == {a \in Requests : users[a].apple = i}
WithEmail(e) == {a \in Requests : users[a].email = e}

Fail(r) ==
    /\ req' = [req EXCEPT ![r] = [Idle EXCEPT !.pc = "done"]]
    /\ UNCHANGED <<users, sessions>>

FindByApple(r) ==
    LET found == WithApple(req[r].who) IN
    /\ req[r].pc = "by_apple"
    /\ \/ \E a \in found :
            req' = [req EXCEPT ![r].pc = "subscription", ![r].user = a]
       \/ /\ found = {}
          /\ req' = [req EXCEPT ![r].pc = IF req[r].email = None THEN "insert" ELSE "by_email"]
    /\ UNCHANGED <<users, sessions>>

\* Mutation: one side's word is enough.
EitherConfirms(claim, account) == Bool(claim) \/ account.verified

\* "only when BOTH sides confirm ownership".
BothConfirm(claim, account) == Bool(claim) /\ account.verified

\* 409 for a registration, and for an unverified address; a link that is there
\* already writes nothing.
FindByEmail(r) ==
    LET found == WithEmail(req[r].email) IN
    /\ req[r].pc = "by_email"
    /\ \/ /\ found = {}
          /\ req' = [req EXCEPT ![r].pc = "insert"]
          /\ UNCHANGED <<users, sessions>>
       \/ \E a \in found :
            \/ /\ Registers(r) \/ ~BothConfirm(req[r].claim, users[a])
               /\ Fail(r)
            \/ /\ ~Registers(r) /\ BothConfirm(req[r].claim, users[a])
               /\ req' = [req EXCEPT ![r].pc = IF users[a].apple = req[r].who
                                               THEN "subscription" ELSE "link",
                                     ![r].user = a]
               /\ UNCHANGED <<users, sessions>>
-----------------------------------------------------------------------------
(* Writing.  A flush waits for a transaction that holds a unique value or a *)
(* row, and fails if that one commits first.                                *)

\* {apple_id}@privaterelay.appleid.com, when Apple told no address.
Address(r) == IF req[r].email = None THEN req[r].who ELSE req[r].email

\* Mutation: apple_id is not unique.
AppleIdNotUnique(i, a) == FALSE

\* Another account than a has the Apple id.
AppleTaken(i, a) == i # None /\ WithApple(i) \ {a} # {}

\* q has written what r is about to write: the Apple id, the address, the row.
Collide(q, r) ==
    /\ q # r /\ req[q].write # "none"
    /\ \/ req[q].who = req[r].who /\ req[r].who # None
       \/ req[q].write = "insert" /\ req[r].pc = "insert" /\ Address(q) = Address(r)
       \/ req[q].write = "link" /\ req[r].pc = "link" /\ req[q].user = req[r].user

Unlocked(r) == \A q \in Requests : ~Collide(q, r)

InsertUser(r) ==
    /\ req[r].pc = "insert" /\ Unlocked(r)
    /\ \/ /\ WithEmail(Address(r)) # {} \/ AppleTaken(req[r].who, r)
          /\ Fail(r)
       \/ /\ WithEmail(Address(r)) = {} /\ ~AppleTaken(req[r].who, r)
          /\ req' = [req EXCEPT ![r].pc = IF Registers(r) THEN "commit" ELSE "subscription",
                                ![r].user = r, ![r].write = "insert"]
          /\ UNCHANGED <<users, sessions>>

\* user.apple_id, flushed by the next query.  That an Apple id which was there
\* is replaced does not occur: an identity keeps its address, and no two share
\* one, so that an account found by the address has no other identity's id.
LinkUser(r) ==
    LET a == req[r].user IN
    /\ req[r].pc = "link" /\ Unlocked(r)
    /\ \/ /\ users[a] = Absent \/ AppleTaken(req[r].who, a)
          /\ Fail(r)
       \/ /\ users[a] # Absent /\ ~AppleTaken(req[r].who, a)
          /\ req' = [req EXCEPT ![r].pc = "subscription", ![r].write = "link"]
          /\ UNCHANGED <<users, sessions>>

\* get_or_create_subscription: the query, then perhaps the insert.
FindSubscription(r) ==
    /\ req[r].pc = "subscription"
    /\ req' = [req EXCEPT ![r].pc =
                 IF users[req[r].user].subscribed THEN "commit" ELSE "subscribe"]
    /\ UNCHANGED <<users, sessions>>

\* Is the account gone, for a request that did not make it itself?
Gone(r) == req[r].write # "insert" /\ users[req[r].user] = Absent

Subscribe(r) ==
    LET a == req[r].user IN
    /\ req[r].pc = "subscribe"
    /\ \A q \in Requests \ {r} : ~(req[q].subscribes /\ req[q].user = a)
    /\ \/ (Gone(r) \/ users[a].subscribed) /\ Fail(r)
       \/ /\ ~Gone(r) /\ ~users[a].subscribed
          /\ req' = [req EXCEPT ![r].pc = "commit", ![r].subscribes = TRUE]
          /\ UNCHANGED <<users, sessions>>

\* The row a request leaves behind.
Written(r) ==
    LET old == users[req[r].user]
        says == Says(req[r].claim)
        row == CASE req[r].write = "insert" ->
                      [Absent EXCEPT !.email = Address(r), !.apple = req[r].who,
                                     !.password = Registers(r),
                                     !.verified = Bool(req[r].claim), !.confirmed = says,
                                     !.agreed = says]
                 [] req[r].write = "link" ->
                      [old EXCEPT !.apple = req[r].who, !.agreed = says]
                 [] OTHER -> old
    IN  [row EXCEPT !.subscribed = @ \/ req[r].subscribes]

\* The refresh token is inserted and everything is committed.
Commit(r) ==
    /\ req[r].pc = "commit"
    /\ \/ Gone(r) /\ Fail(r)
       \/ /\ ~Gone(r)
          /\ users' = [users EXCEPT ![req[r].user] = Written(r)]
          /\ sessions' = IF Registers(r) THEN sessions
                         ELSE sessions \cup {<<req[r].who, req[r].user>>}
          /\ req' = [req EXCEPT ![r] = [Idle EXCEPT !.pc = "done"]]

\* Any query may fail, and the process may end.
Abort(r) == req[r].pc \notin {"idle", "done"} /\ Fail(r)
-----------------------------------------------------------------------------
(* The account's owner. *)

\* verify_email_token: the link in the mail of a registration, or of a resend
\* that an account made by a sign-in can ask for too.  The address made up for
\* one without an address reaches nobody.
ClickLink(a) ==
    /\ users[a].email \in Emails /\ ~users[a].verified
    /\ \A q \in Requests : ~(req[q].write = "link" /\ req[q].user = a)
    /\ users' = [users EXCEPT ![a].verified = TRUE, ![a].confirmed = TRUE]
    /\ UNCHANGED <<req, sessions>>

\* delete_account waits for the transactions that wrote the row or a row that
\* refers to it.
DeleteAccount(a) ==
    /\ users[a] # Absent
    /\ \A q \in Requests : ~(req[q].user = a /\ (req[q].write = "link" \/ req[q].subscribes))
    /\ users' = [users EXCEPT ![a] = Absent]
    /\ sessions' = {s \in sessions : s[2] # a}
    /\ UNCHANGED req

Step(r) ==
    \/ \E i \in Identities, claim \in Claims : BeginSignIn(r, i, claim)
    \/ \E e \in Emails : BeginRegister(r, e)
    \/ FindByApple(r) \/ FindByEmail(r) \/ InsertUser(r) \/ LinkUser(r)
    \/ FindSubscription(r) \/ Subscribe(r) \/ Commit(r) \/ Abort(r)
    \/ ClickLink(r) \/ DeleteAccount(r)

Next == \E r \in Requests : Step(r)

Spec == Init /\ [][Next]_vars
-----------------------------------------------------------------------------
Rows == [email : Emails \cup Identities \cup {None}, apple : Identities \cup {None},
         password : BOOLEAN, verified : BOOLEAN, subscribed : BOOLEAN,
         confirmed : BOOLEAN, agreed : BOOLEAN]
Progress == {"idle", "by_apple", "by_email", "insert", "link", "subscription",
             "subscribe", "commit", "done"}
Reqs == [pc : Progress, who : Identities \cup {None}, email : Emails \cup {None},
         claim : Claims \cup {"absent"}, user : Requests \cup {None},
         write : {"none", "insert", "link"}, subscribes : BOOLEAN]

TypeOK ==
    /\ users \in [Requests -> Rows]
    /\ req \in [Requests -> Reqs]
    /\ sessions \subseteq Identities \X Requests

(* "Auto-link Apple ID to an existing local account only when BOTH sides    *)
(* confirm ownership of the email" (auth.py:600-602): whatever is           *)
(* registered, verified, deleted or linked between the queries of a         *)
(* sign-in, an account with a password that carries an Apple id has a       *)
(* confirmed address, Apple agreed, and it is the identity's own address.   *)
(* That is so for claims that are booleans, or the string 'true': bool()    *)
(* takes the string 'false' for an agreement (apple_auth.py:121), and with  *)
(* it among the Claims this is false.                                       *)
LinkedOnlyIfVerified ==
    \A a \in Requests : users[a].password /\ users[a].apple # None =>
        /\ users[a].confirmed /\ users[a].agreed
        /\ users[a].email = EmailOf[users[a].apple]

(* "Creates account on first sign-in, links to existing account" (auth.py:  *)
(* 573): first sign-ins of one identity that overlap, with or without the   *)
(* address, do not end in two accounts: all its sessions are of one.        *)
OneAccountPerIdentity ==
    \A s, t \in sessions : s[1] = t[1] => s[2] = t[2]
=============================================================================
