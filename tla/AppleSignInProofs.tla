-------------------------- MODULE AppleSignInProofs --------------------------
(***************************************************************************)
(* Theorems of AppleSignIn, for any number of requests, identities and     *)
(* addresses.                                                              *)
(***************************************************************************)
EXTENDS AppleSignIn, TLAPS

Exists(a) == users[a] # Absent

\* The request has found its account or made it.
Working(r) == req[r].pc \in {"subscription", "subscribe", "commit"}

\* An account is there only once its request is done, under the address its
\* Apple identity answers for.
RowsSound ==
    \A a \in Requests : Exists(a) =>
        /\ req[a].pc = "done"
        /\ users[a].email # None
        /\ users[a].apple # None =>
              users[a].email \in {EmailOf[users[a].apple], users[a].apple}
        /\ users[a].password =>
              /\ users[a].email \in Emails
              /\ users[a].verified => users[a].confirmed
              /\ users[a].apple # None => users[a].confirmed

RowsUnique ==
    \A a, b \in Requests : a # b =>
        /\ users[a].email = users[b].email => users[a].email = None
        /\ users[a].apple = users[b].apple => users[a].apple = None

RequestSound(r) ==
    /\ req[r].who = None =>
          /\ req[r].claim = "absent"
          /\ req[r].pc \in {"idle", "by_email", "insert", "commit", "done"}
          /\ req[r].pc \notin {"idle", "done"} => req[r].email # None
    /\ req[r].who # None => req[r].email \in {EmailOf[req[r].who], None}
    /\ req[r].pc = "by_email" => req[r].email # None
    /\ req[r].write # "none" => Working(r)
    /\ Working(r) \/ req[r].pc = "link" => req[r].user # None
    /\ req[r].write = "insert" => req[r].user = r
    /\ req[r].write # "insert" /\ req[r].user # None =>
          req[req[r].user].pc = "done" /\ req[r].who # None

\* The two confirmations a link was decided on still hold when it is made.
LinkSound(r) ==
    req[r].pc = "link" \/ req[r].write = "link" =>
        /\ req[r].email = EmailOf[req[r].who]
        /\ Bool(req[r].claim)
        /\ Exists(req[r].user) => /\ users[req[r].user].email = EmailOf[req[r].who]
                                  /\ users[req[r].user].verified
        /\ req[r].write = "link" => Exists(req[r].user)

\* A sign-in that wrote nothing works on the account of its identity.
FoundSound(r) ==
    Working(r) /\ req[r].write = "none" /\ Exists(req[r].user) =>
        users[req[r].user].apple = req[r].who

\* What a request has flushed is taken by no committed row, nor by another.
WriterAlone(r) ==
    req[r].write # "none" =>
        /\ req[r].write = "insert" => \A b \in Requests : users[b].email # Address(r)
        /\ req[r].who # None =>
              \A b \in Requests : users[b].apple = req[r].who => b = req[r].user
        /\ \A q \in Requests \ {r} : req[q].write # "none" =>
              /\ req[q].who = req[r].who => req[r].who = None
              /\ req[q].write = "insert" /\ req[r].write = "insert" => Address(q) # Address(r)
              /\ req[q].write = "link" /\ req[r].write = "link" => req[q].user # req[r].user

SessionsSound == \A s \in sessions : users[s[2]].apple = s[1]

SignInInv ==
    /\ TypeOK /\ RowsSound /\ RowsUnique /\ SessionsSound
    /\ \A r \in Requests : RequestSound(r) /\ LinkSound(r) /\ FoundSound(r) /\ WriterAlone(r)
-----------------------------------------------------------------------------
(* The records. *)

LEMMA AbsentRow ==
    /\ Absent \in Rows
    /\ Absent.email = None /\ Absent.apple = None /\ Absent.password = FALSE
    /\ Absent.verified = FALSE
BY DEF Absent, Rows

LEMMA IdleRequest ==
    /\ Idle \in Reqs
    /\ Idle.pc = "idle" /\ Idle.who = None /\ Idle.email = None /\ Idle.claim = "absent"
    /\ Idle.user = None /\ Idle.write = "none"
BY DEF Idle, Reqs, Progress

\* A step that changes one request only: what has to be shown is about that one.
LEMMA OnlyRequest ==
    ASSUME SignInInv, NEW r \in Requests, NEW new \in Reqs,
           req[r].pc # "done",
           req' = [req EXCEPT ![r] = new], UNCHANGED <<users, sessions>>,
           RequestSound(r)', LinkSound(r)', FoundSound(r)', WriterAlone(r)'
    PROVE  SignInInv'
<1>1. /\ req \in [Requests -> Reqs] /\ req'[r] = new
      /\ \A q \in Requests \ {r} : req'[q] = req[q]
  BY DEF SignInInv, TypeOK
<1>2. TypeOK'
  BY <1>1 DEF SignInInv, TypeOK
<1>3. RowsSound' /\ RowsUnique' /\ SessionsSound'
  <2>1. \A a \in Requests : Exists(a)' => req'[a].pc = "done"
    BY <1>1 DEF SignInInv, RowsSound, Exists
  <2> QED BY <2>1 DEF SignInInv, RowsSound, RowsUnique, SessionsSound, Exists
<1>4. ASSUME NEW q \in Requests \ {r}
      PROVE  RequestSound(q)' /\ LinkSound(q)' /\ FoundSound(q)' /\ WriterAlone(q)'
  <2>1. RequestSound(q) /\ LinkSound(q) /\ FoundSound(q) /\ WriterAlone(q)
    BY DEF SignInInv
  <2>2. RequestSound(q)'
    BY <1>1, <2>1 DEF RequestSound, Working
  <2>3. LinkSound(q)' /\ FoundSound(q)'
    BY <1>1, <2>1 DEF LinkSound, FoundSound, Working, Exists
  <2>4. WriterAlone(q)'
    BY <1>1, <2>1 DEF WriterAlone, Address
  <2> QED BY <2>2, <2>3, <2>4
<1> QED BY <1>2, <1>3, <1>4 DEF SignInInv

LEMMA FailKeeps ==
    ASSUME SignInInv, NEW r \in Requests, req[r].pc # "done", Fail(r)
    PROVE  SignInInv'
<1> DEFINE new == [Idle EXCEPT !.pc = "done"]
<1>1. /\ new \in Reqs /\ new.pc = "done" /\ new.who = None /\ new.claim = "absent"
      /\ new.write = "none" /\ new.user = None
  BY IdleRequest DEF Reqs, Progress, Idle
<1>2. req' = [req EXCEPT ![r] = new] /\ UNCHANGED <<users, sessions>>
  BY DEF Fail
<1> HIDE DEF new
<1>3. req'[r] = new
  BY <1>2 DEF SignInInv, TypeOK
<1>4. RequestSound(r)' /\ LinkSound(r)' /\ FoundSound(r)' /\ WriterAlone(r)'
  BY <1>1, <1>3 DEF RequestSound, LinkSound, FoundSound, WriterAlone, Working
<1> QED BY <1>1, <1>2, <1>4, OnlyRequest

-----------------------------------------------------------------------------
(* The steps of a request before its commit. *)

LEMMA BeginKeeps ==
    ASSUME SignInInv, NEW r \in Requests,
           \/ \E i \in Identities, claim \in Claims : BeginSignIn(r, i, claim)
           \/ \E e \in Emails : BeginRegister(r, e)
    PROVE  SignInInv'
<1>1. CASE \E i \in Identities, claim \in Claims : BeginSignIn(r, i, claim)
  <2>0. PICK i \in Identities, claim \in Claims : BeginSignIn(r, i, claim)
    BY <1>1
  <2>1. PICK email \in {EmailOf[i], None} :
          /\ req[r].pc = "idle"
          /\ req' = [req EXCEPT ![r] = [Idle EXCEPT !.pc = "by_apple", !.who = i,
                                                    !.email = email, !.claim = claim]]
          /\ UNCHANGED <<users, sessions>>
    BY <2>0 DEF BeginSignIn
  <2> DEFINE new == [Idle EXCEPT !.pc = "by_apple", !.who = i, !.email = email, !.claim = claim]
  <2>2. /\ new \in Reqs /\ new.pc = "by_apple" /\ new.who = i /\ new.email = email
        /\ new.write = "none" /\ new.user = None
    BY SignInAssumption DEF Idle, Reqs, Progress
  <2> HIDE DEF new
  <2>3. req'[r] = new
    BY <2>1 DEF SignInInv, TypeOK, new
  <2>4. RequestSound(r)' /\ LinkSound(r)' /\ FoundSound(r)' /\ WriterAlone(r)'
    BY <2>2, <2>3, SignInAssumption
    DEF RequestSound, LinkSound, FoundSound, WriterAlone, Working
  <2> QED BY <2>1, <2>2, <2>4, OnlyRequest DEF new
<1>2. CASE \E e \in Emails : BeginRegister(r, e)
  <2>1. PICK e \in Emails :
          /\ req[r].pc = "idle"
          /\ req' = [req EXCEPT ![r] = [Idle EXCEPT !.pc = "by_email", !.email = e]]
          /\ UNCHANGED <<users, sessions>>
    BY <1>2 DEF BeginRegister
  <2> DEFINE new == [Idle EXCEPT !.pc = "by_email", !.email = e]
  <2>2. /\ new \in Reqs /\ new.pc = "by_email" /\ new.who = None /\ new.email = e
        /\ new.write = "none" /\ new.user = None /\ new.claim = "absent"
    BY DEF Idle, Reqs, Progress
  <2> HIDE DEF new
  <2>3. req'[r] = new
    BY <2>1 DEF SignInInv, TypeOK, new
  <2>4. RequestSound(r)' /\ LinkSound(r)' /\ FoundSound(r)' /\ WriterAlone(r)'
    BY <2>2, <2>3, SignInAssumption
    DEF RequestSound, LinkSound, FoundSound, WriterAlone, Working
  <2> QED BY <2>1, <2>2, <2>4, OnlyRequest DEF new
<1> QED BY <1>1, <1>2

LEMMA FindByAppleKeeps ==
    ASSUME SignInInv, NEW r \in Requests, FindByApple(r)
    PROVE  SignInInv'
<1>1. req[r].pc = "by_apple" /\ UNCHANGED <<users, sessions>> /\ req[r] \in Reqs
  BY DEF FindByApple, SignInInv, TypeOK
<1>2. /\ RequestSound(r) /\ req[r].write = "none" /\ req[r].who \in Identities
      /\ RowsSound
  BY <1>1 DEF SignInInv, RequestSound, Working, Reqs
<1>3. CASE \E a \in WithApple(req[r].who) :
             req' = [req EXCEPT ![r].pc = "subscription", ![r].user = a]
  <2>1. PICK a \in Requests :
          /\ users[a].apple = req[r].who
          /\ req' = [req EXCEPT ![r].pc = "subscription", ![r].user = a]
    BY <1>3 DEF WithApple
  <2> DEFINE new == [req[r] EXCEPT !.pc = "subscription", !.user = a]
  <2>2. /\ new \in Reqs /\ req' = [req EXCEPT ![r] = new] /\ req'[r] = new
        /\ new.pc = "subscription" /\ new.user = a /\ new.write = "none"
        /\ new.who = req[r].who /\ new.email = req[r].email /\ new.claim = req[r].claim
    BY <1>1, <1>2, <2>1 DEF SignInInv, TypeOK, Reqs, Progress
  <2> HIDE DEF new
  <2>3. req[a].pc = "done" /\ a # r
    BY <1>1, <1>2, <2>1, AbsentRow, SignInAssumption DEF RowsSound, Exists
  <2>4. RequestSound(r)'
    BY <1>1, <1>2, <2>2, <2>3, SignInAssumption DEF RequestSound, Working, SignInInv, TypeOK
  <2>5. LinkSound(r)' /\ FoundSound(r)' /\ WriterAlone(r)'
    BY <1>1, <2>1, <2>2 DEF LinkSound, FoundSound, WriterAlone
  <2> QED BY <1>1, <2>2, <2>4, <2>5, OnlyRequest
<1>4. CASE req' = [req EXCEPT ![r].pc = IF req[r].email = None THEN "insert" ELSE "by_email"]
  <2> DEFINE new == [req[r] EXCEPT !.pc = IF req[r].email = None THEN "insert" ELSE "by_email"]
  <2>2. /\ new \in Reqs /\ req' = [req EXCEPT ![r] = new] /\ req'[r] = new
        /\ new.pc \in {"insert", "by_email"} /\ (new.pc = "by_email" => new.email # None)
        /\ new.user = req[r].user /\ new.write = "none"
        /\ new.who = req[r].who /\ new.email = req[r].email /\ new.claim = req[r].claim
    BY <1>1, <1>2, <1>4 DEF SignInInv, TypeOK, Reqs, Progress
  <2> HIDE DEF new
  <2>4. RequestSound(r)'
    BY <1>1, <1>2, <2>2, SignInAssumption DEF RequestSound, Working, SignInInv, TypeOK
  <2>5. LinkSound(r)' /\ FoundSound(r)' /\ WriterAlone(r)'
    BY <1>1, <2>2 DEF LinkSound, FoundSound, WriterAlone, Working
  <2> QED BY <1>1, <2>2, <2>4, <2>5, OnlyRequest
<1> QED BY <1>3, <1>4 DEF FindByApple

LEMMA FindByEmailKeeps ==
    ASSUME SignInInv, NEW r \in Requests, FindByEmail(r)
    PROVE  SignInInv'
<1>1. req[r].pc = "by_email" /\ req[r] \in Reqs
  BY DEF FindByEmail, SignInInv, TypeOK
<1>2. /\ RequestSound(r) /\ req[r].write = "none" /\ req[r].email \in Emails
      /\ RowsSound
  BY <1>1 DEF SignInInv, RequestSound, Working, Reqs
<1>3. CASE /\ req' = [req EXCEPT ![r].pc = "insert"]
           /\ UNCHANGED <<users, sessions>>
  <2> DEFINE new == [req[r] EXCEPT !.pc = "insert"]
  <2>2. /\ new \in Reqs /\ req' = [req EXCEPT ![r] = new] /\ req'[r] = new
        /\ new.pc = "insert" /\ new.user = req[r].user /\ new.write = "none"
        /\ new.who = req[r].who /\ new.email = req[r].email /\ new.claim = req[r].claim
    BY <1>1, <1>2, <1>3 DEF SignInInv, TypeOK, Reqs, Progress
  <2> HIDE DEF new
  <2>3. RequestSound(r)'
    BY <1>1, <1>2, <2>2, SignInAssumption DEF RequestSound, Working, SignInInv, TypeOK
  <2>4. LinkSound(r)' /\ FoundSound(r)' /\ WriterAlone(r)'
    BY <1>1, <2>2 DEF LinkSound, FoundSound, WriterAlone, Working
  <2> QED BY <1>1, <1>3, <2>2, <2>3, <2>4, OnlyRequest
<1>4. CASE Fail(r)
  BY <1>1, <1>4, FailKeeps
<1>5. ASSUME NEW a \in WithEmail(req[r].email), ~Registers(r),
             BothConfirm(req[r].claim, users[a]),
             req' = [req EXCEPT ![r].pc = IF users[a].apple = req[r].who
                                          THEN "subscription" ELSE "link",
                                ![r].user = a],
             UNCHANGED <<users, sessions>>
      PROVE  SignInInv'
  <2> DEFINE pc == IF users[a].apple = req[r].who THEN "subscription" ELSE "link"
             new == [req[r] EXCEPT !.pc = pc, !.user = a]
  <2>1. a \in Requests /\ users[a].email = req[r].email
    BY <1>5 DEF WithEmail
  <2>2. /\ new \in Reqs /\ req' = [req EXCEPT ![r] = new] /\ req'[r] = new
        /\ new.pc = pc /\ new.user = a /\ new.write = "none"
        /\ new.who = req[r].who /\ new.email = req[r].email /\ new.claim = req[r].claim
    BY <1>1, <1>2, <1>5, <2>1 DEF SignInInv, TypeOK, Reqs, Progress
  <2>3. pc \in {"subscription", "link"} /\ (pc = "subscription" => users[a].apple = req[r].who)
    OBVIOUS
  <2> HIDE DEF new, pc
  <2>4. req[a].pc = "done" /\ a # r /\ req[r].who # None
    BY <1>1, <1>2, <1>5, <2>1, AbsentRow, SignInAssumption DEF RowsSound, Exists, Registers
  <2>5. RequestSound(r)'
    BY <1>1, <1>2, <2>1, <2>2, <2>3, <2>4, SignInAssumption
    DEF RequestSound, Working, SignInInv, TypeOK
  <2>6. LinkSound(r)'
    BY <1>2, <1>5, <2>1, <2>2, <2>4, SignInAssumption DEF LinkSound, BothConfirm, RequestSound
  <2>7. FoundSound(r)' /\ WriterAlone(r)'
    BY <1>5, <2>2, <2>3 DEF FoundSound, WriterAlone, Working
  <2> QED BY <1>1, <1>5, <2>2, <2>5, <2>6, <2>7, OnlyRequest
<1> QED BY <1>3, <1>4, <1>5 DEF FindByEmail

LEMMA InsertUserKeeps ==
    ASSUME SignInInv, NEW r \in Requests, InsertUser(r)
    PROVE  SignInInv'
<1>1. req[r].pc = "insert" /\ req[r] \in Reqs /\ RequestSound(r) /\ RowsSound
  BY DEF InsertUser, SignInInv, TypeOK
<1>2. CASE Fail(r)
  BY <1>1, <1>2, FailKeeps
<1>3. CASE ~Fail(r)
  <2> DEFINE pc == IF Registers(r) THEN "commit" ELSE "subscription"
             new == [req[r] EXCEPT !.pc = pc, !.user = r, !.write = "insert"]
  <2>1. /\ WithEmail(Address(r)) = {} /\ ~AppleTaken(req[r].who, r) /\ Unlocked(r)
        /\ req' = [req EXCEPT ![r].pc = pc, ![r].user = r, ![r].write = "insert"]
        /\ UNCHANGED <<users, sessions>>
    BY <1>3 DEF InsertUser
  <2>2. /\ new \in Reqs /\ req' = [req EXCEPT ![r] = new] /\ req'[r] = new
        /\ \A q \in Requests \ {r} : req'[q] = req[q]
        /\ new.pc = pc /\ new.user = r /\ new.write = "insert"
        /\ new.who = req[r].who /\ new.email = req[r].email /\ new.claim = req[r].claim
    BY <1>1, <2>1 DEF SignInInv, TypeOK, Reqs, Progress
  <2>3. pc = IF req[r].who = None THEN "commit" ELSE "subscription"
    BY DEF Registers
  <2> HIDE DEF new, pc
  <2>4. RequestSound(r)' /\ LinkSound(r)' /\ FoundSound(r)'
    BY <1>1, <2>2, <2>3, SignInAssumption DEF RequestSound, Working, LinkSound, FoundSound
  <2>5. /\ Address(r)' = Address(r)
        /\ \A q \in Requests \ {r} : Address(q)' = Address(q)
    BY <2>2 DEF Address
  <2>6. /\ \A b \in Requests : users'[b].email # Address(r)'
        /\ req[r].who # None => \A b \in Requests : users'[b].apple = req[r].who => b = r
    BY <2>1, <2>5 DEF WithEmail, AppleTaken, WithApple
  <2>7. ASSUME NEW q \in Requests \ {r}, req[q].write # "none"
        PROVE  /\ req[q].who = req[r].who => req[r].who = None
               /\ req[q].write = "insert" => Address(q) # Address(r)
    BY <1>1, <2>1, <2>7 DEF Unlocked, Collide
  <2>8. WriterAlone(r)'
    BY <2>2, <2>5, <2>6, <2>7 DEF WriterAlone
  <2> QED BY <1>1, <2>1, <2>2, <2>4, <2>8, OnlyRequest
<1> QED BY <1>2, <1>3

LEMMA LinkUserKeeps ==
    ASSUME SignInInv, NEW r \in Requests, LinkUser(r)
    PROVE  SignInInv'
<1>1. /\ req[r].pc = "link" /\ req[r] \in Reqs /\ RequestSound(r) /\ LinkSound(r)
      /\ req[r].write = "none"
  BY DEF LinkUser, SignInInv, TypeOK, RequestSound, Working
<1>2. CASE Fail(r)
  BY <1>1, <1>2, FailKeeps
<1>3. CASE ~Fail(r)
  <2> DEFINE a == req[r].user
             new == [req[r] EXCEPT !.pc = "subscription", !.write = "link"]
  <2>1. /\ Exists(a) /\ ~AppleTaken(req[r].who, a) /\ Unlocked(r)
        /\ req' = [req EXCEPT ![r].pc = "subscription", ![r].write = "link"]
        /\ UNCHANGED <<users, sessions>>
    BY <1>3 DEF LinkUser, Exists
  <2>2. /\ new \in Reqs /\ req' = [req EXCEPT ![r] = new] /\ req'[r] = new
        /\ \A q \in Requests \ {r} : req'[q] = req[q]
        /\ new.pc = "subscription" /\ new.user = a /\ new.write = "link"
        /\ new.who = req[r].who /\ new.email = req[r].email /\ new.claim = req[r].claim
    BY <1>1, <2>1 DEF SignInInv, TypeOK, Reqs, Progress
  <2> HIDE DEF new
  <2>7. a \in Requests /\ a # r /\ req[a].pc = "done" /\ req[r].who # None
    BY <1>1 DEF RequestSound, Reqs
  <2>8. RequestSound(r)'
    BY <1>1, <2>2, <2>7 DEF RequestSound, Working
  <2>3. LinkSound(r)' /\ FoundSound(r)'
    BY <1>1, <2>1, <2>2, <2>7 DEF LinkSound, FoundSound, Exists
  <2>4. req[r].who # None => \A b \in Requests : users'[b].apple = req[r].who => b = a
    BY <2>1 DEF AppleTaken, WithApple
  <2>5. ASSUME NEW q \in Requests \ {r}, req[q].write # "none"
        PROVE  /\ req[q].who = req[r].who => req[r].who = None
               /\ req[q].write = "link" => req[q].user # a
    BY <1>1, <2>1, <2>5 DEF Unlocked, Collide
  <2>6. WriterAlone(r)'
    BY <2>2, <2>4, <2>5 DEF WriterAlone
  <2> QED BY <1>1, <2>1, <2>2, <2>3, <2>6, <2>8, OnlyRequest
<1> QED BY <1>2, <1>3

\* The two queries about the subscription.
LEMMA SubscriptionKeeps ==
    ASSUME SignInInv, NEW r \in Requests, FindSubscription(r) \/ Subscribe(r)
    PROVE  SignInInv'
<1>1. /\ req[r].pc \in {"subscription", "subscribe"} /\ req[r] \in Reqs
      /\ RequestSound(r) /\ LinkSound(r) /\ FoundSound(r) /\ WriterAlone(r)
  BY DEF FindSubscription, Subscribe, SignInInv, TypeOK
<1>2. CASE Fail(r)
  BY <1>1, <1>2, FailKeeps
<1>3. ASSUME NEW pc \in {"commit", "subscribe"}, NEW subscribes \in BOOLEAN,
             req' = [req EXCEPT ![r] = [req[r] EXCEPT !.pc = pc, !.subscribes = subscribes]],
             UNCHANGED <<users, sessions>>
      PROVE  SignInInv'
  <2> DEFINE new == [req[r] EXCEPT !.pc = pc, !.subscribes = subscribes]
  <2>1. /\ new \in Reqs /\ req' = [req EXCEPT ![r] = new] /\ req'[r] = new
        /\ \A q \in Requests \ {r} : req'[q] = req[q]
        /\ new.pc = pc /\ new.user = req[r].user /\ new.write = req[r].write
        /\ new.who = req[r].who /\ new.email = req[r].email /\ new.claim = req[r].claim
    BY <1>1, <1>3 DEF SignInInv, TypeOK, Reqs, Progress
  <2> HIDE DEF new
  <2>5. req[r].write # "insert" => /\ req[r].user \in Requests /\ req[r].user # r
                                   /\ req[req[r].user].pc = "done" /\ req[r].who # None
    BY <1>1 DEF RequestSound, Working, Reqs
  <2>2. RequestSound(r)'
    BY <1>1, <2>1, <2>5 DEF RequestSound, Working
  <2>3. LinkSound(r)' /\ FoundSound(r)'
    BY <1>1, <1>3, <2>1 DEF LinkSound, FoundSound, Working, Exists
  <2>4. WriterAlone(r)'
    BY <1>1, <1>3, <2>1 DEF WriterAlone, Address
  <2> QED BY <1>1, <1>3, <2>1, <2>2, <2>3, <2>4, OnlyRequest
<1>4. CASE FindSubscription(r)
  <2> DEFINE pc == IF users[req[r].user].subscribed THEN "commit" ELSE "subscribe"
  <2>1. /\ pc \in {"commit", "subscribe"} /\ req[r].subscribes \in BOOLEAN
        /\ req' = [req EXCEPT ![r] = [req[r] EXCEPT !.pc = pc, !.subscribes = req[r].subscribes]]
        /\ UNCHANGED <<users, sessions>>
    BY <1>1, <1>4 DEF FindSubscription, SignInInv, TypeOK, Reqs
  <2> QED BY <1>3, <2>1
<1>5. CASE Subscribe(r) /\ ~Fail(r)
  <2>1. /\ req' = [req EXCEPT ![r] = [req[r] EXCEPT !.pc = "commit", !.subscribes = TRUE]]
        /\ UNCHANGED <<users, sessions>>
    BY <1>1, <1>5 DEF Subscribe, SignInInv, TypeOK, Reqs
  <2> QED BY <1>3, <2>1
<1> QED BY <1>2, <1>4, <1>5

-----------------------------------------------------------------------------
(* The commit, and the account's owner. *)

\* An identity linked to an account that has one already is the same identity:
\* the address is its own.
LEMMA LinksItsOwn ==
    ASSUME SignInInv, NEW r \in Requests, req[r].write = "link"
    PROVE  /\ req[r].user \in Requests /\ Exists(req[r].user)
           /\ req[r].who \in Identities
           /\ users[req[r].user].email = EmailOf[req[r].who]
           /\ users[req[r].user].apple \in {None, req[r].who}
<1> DEFINE a == req[r].user
<1>1. /\ req[r] \in Reqs /\ RequestSound(r) /\ LinkSound(r) /\ RowsSound
  BY DEF SignInInv, TypeOK
<1>2. a \in Requests /\ Exists(a) /\ req[r].who \in Identities
  BY <1>1 DEF RequestSound, LinkSound, Working, Reqs
<1>3. users[a].email = EmailOf[req[r].who] /\ EmailOf[req[r].who] \in Emails
  BY <1>1, <1>2, SignInAssumption DEF LinkSound
<1>4. users[a].apple \in Identities \cup {None}
  BY <1>2 DEF SignInInv, TypeOK, Rows
<1>5. users[a].apple # None => users[a].apple = req[r].who
  BY <1>1, <1>2, <1>3, <1>4, SignInAssumption DEF RowsSound
<1> QED BY <1>2, <1>3, <1>5

\* What a commit writes, and what is known of the account it writes.
LEMMA WrittenRow ==
    ASSUME SignInInv, NEW r \in Requests, req[r].pc = "commit", ~Gone(r)
    PROVE  LET a == req[r].user
               new == Written(r)
           IN  /\ a \in Requests /\ new \in Rows
               /\ req[r].write = "insert" =>
                    /\ a = r /\ ~Exists(a)
                    /\ new.email = Address(r) /\ new.apple = req[r].who
                    /\ new.password = Registers(r)
                    /\ Registers(r) => new.verified = FALSE /\ new.email \in Emails
                    /\ ~Registers(r) => new.email \in {EmailOf[req[r].who], req[r].who}
               /\ req[r].write # "insert" =>
                    /\ a # r /\ Exists(a) /\ req[a].pc = "done" /\ ~Registers(r)
                    /\ users[a].apple \in {None, req[r].who}
                    /\ new.email = users[a].email /\ new.apple = req[r].who
                    /\ new.password = users[a].password /\ new.verified = users[a].verified
                    /\ new.confirmed = users[a].confirmed
                    /\ req[r].write = "link" =>
                          /\ new.agreed = Says(req[r].claim) /\ Bool(req[r].claim)
                          /\ users[a].verified
                    /\ req[r].write = "none" => /\ users[a].apple = req[r].who
                                                /\ new.agreed = users[a].agreed
<1> DEFINE a == req[r].user
           new == Written(r)
<1>1. /\ req[r] \in Reqs /\ RequestSound(r) /\ LinkSound(r) /\ FoundSound(r) /\ RowsSound
  BY DEF SignInInv, TypeOK
<1>2. a \in Requests /\ users[a] \in Rows
  BY <1>1 DEF RequestSound, Working, Reqs, SignInInv, TypeOK
<1>6. /\ Registers(r) \in BOOLEAN /\ Says(req[r].claim) \in BOOLEAN
      /\ Bool(req[r].claim) \in BOOLEAN
  BY DEF Registers, Says, Bool
<1>3. CASE req[r].write = "insert"
  <2> DEFINE row == [Absent EXCEPT !.email = Address(r), !.apple = req[r].who,
                                   !.password = Registers(r),
                                   !.verified = Bool(req[r].claim),
                                   !.confirmed = Says(req[r].claim),
                                   !.agreed = Says(req[r].claim)]
  <2>1. a = r /\ ~Exists(a)
    BY <1>1, <1>3 DEF RequestSound, RowsSound
  <2>2. /\ Address(r) \in Emails \cup Identities
        /\ Registers(r) => Address(r) \in Emails /\ req[r].claim = "absent"
        /\ ~Registers(r) => Address(r) \in {EmailOf[req[r].who], req[r].who}
    BY <1>1, SignInAssumption DEF RequestSound, Registers, Address, Reqs
  <2>3. new = [row EXCEPT !.subscribed = @ \/ req[r].subscribes]
    BY <1>3 DEF Written
  <2>4. /\ row.email = Address(r) /\ row.apple = req[r].who /\ row.password = Registers(r)
        /\ row.verified = Bool(req[r].claim) /\ row \in Rows
    BY <1>1, <1>6, <2>2 DEF Absent, Rows, Reqs
  <2> HIDE DEF row
  <2>5. /\ new \in Rows /\ new.email = Address(r) /\ new.apple = req[r].who
        /\ new.password = Registers(r) /\ new.verified = Bool(req[r].claim)
    BY <1>1, <2>3, <2>4 DEF Rows, Reqs
  <2>6. Registers(r) => Bool(req[r].claim) = FALSE
    BY <2>2 DEF Bool
  <2> QED BY <1>2, <1>3, <1>6, <2>1, <2>2, <2>5, <2>6
<1>4. CASE req[r].write = "link"
  <2> DEFINE row == [users[a] EXCEPT !.apple = req[r].who, !.agreed = Says(req[r].claim)]
  <2>1. new = [row EXCEPT !.subscribed = @ \/ req[r].subscribes]
    BY <1>4 DEF Written
  <2>2. /\ row \in Rows /\ row.apple = req[r].who /\ row.agreed = Says(req[r].claim)
        /\ row.email = users[a].email /\ row.password = users[a].password
        /\ row.verified = users[a].verified /\ row.confirmed = users[a].confirmed
    BY <1>1, <1>2, <1>6 DEF Rows, Reqs
  <2> HIDE DEF row
  <2>3. /\ new \in Rows /\ new.apple = req[r].who /\ new.agreed = Says(req[r].claim)
        /\ new.email = users[a].email /\ new.password = users[a].password
        /\ new.verified = users[a].verified /\ new.confirmed = users[a].confirmed
    BY <1>1, <2>1, <2>2 DEF Rows, Reqs
  <2>4. /\ Exists(a) /\ users[a].verified /\ Bool(req[r].claim) /\ a # r
        /\ req[a].pc = "done" /\ ~Registers(r)
    BY <1>1, <1>4 DEF RequestSound, LinkSound, Working, Registers
  <2> QED BY <1>2, <1>4, <2>3, <2>4, LinksItsOwn
<1>5. CASE req[r].write = "none"
  <2>1. new = [users[a] EXCEPT !.subscribed = @ \/ req[r].subscribes]
    BY <1>5 DEF Written
  <2>2. Exists(a) /\ users[a].apple = req[r].who /\ a # r /\ req[a].pc = "done" /\ ~Registers(r)
    BY <1>1, <1>5 DEF Gone, Exists, FoundSound, RequestSound, Working, Registers
  <2> QED BY <1>1, <1>2, <1>5, <2>1, <2>2 DEF Rows, Reqs
<1> QED BY <1>1, <1>3, <1>4, <1>5 DEF Reqs

LEMMA CommitKeeps ==
    ASSUME SignInInv, NEW r \in Requests, Commit(r)
    PROVE  SignInInv'
<1> DEFINE a == req[r].user
           new == Written(r)
           done == [Idle EXCEPT !.pc = "done"]
<1>1. req[r].pc = "commit"
  BY DEF Commit
<1>2. CASE Gone(r)
  BY <1>1, <1>2, FailKeeps DEF Commit
<1>3. CASE ~Gone(r)
  <2>1. /\ users' = [users EXCEPT ![a] = new]
        /\ sessions' = IF Registers(r) THEN sessions ELSE sessions \cup {<<req[r].who, a>>}
        /\ req' = [req EXCEPT ![r] = done]
    BY <1>3 DEF Commit
  <2>2. /\ req[r] \in Reqs /\ RequestSound(r) /\ WriterAlone(r) /\ RowsSound /\ RowsUnique
        /\ SessionsSound /\ users \in [Requests -> Rows] /\ sessions \subseteq Identities \X Requests
    BY DEF SignInInv, TypeOK
  <2>3. /\ done \in Reqs /\ done.pc = "done" /\ done.who = None /\ done.claim = "absent"
        /\ done.write = "none" /\ done.user = None
    BY IdleRequest DEF Reqs, Progress, Idle
  <2>4. /\ a \in Requests /\ new \in Rows
        /\ req[r].write = "insert" =>
             /\ a = r /\ ~Exists(a)
             /\ new.email = Address(r) /\ new.apple = req[r].who
             /\ new.password = Registers(r)
             /\ Registers(r) => new.verified = FALSE /\ new.email \in Emails
             /\ ~Registers(r) => new.email \in {EmailOf[req[r].who], req[r].who}
        /\ req[r].write # "insert" =>
             /\ a # r /\ Exists(a) /\ req[a].pc = "done" /\ ~Registers(r)
             /\ users[a].apple \in {None, req[r].who}
             /\ new.email = users[a].email /\ new.apple = req[r].who
             /\ new.password = users[a].password /\ new.verified = users[a].verified
             /\ new.confirmed = users[a].confirmed
             /\ req[r].write = "link" => users[a].verified
             /\ req[r].write = "none" => users[a].apple = req[r].who
    BY <1>1, <1>3, WrittenRow
  <2>5. req[r].write = "link" => users[a].email = EmailOf[req[r].who]
    BY LinksItsOwn
  <2> HIDE DEF new, done, a
  <2>6. /\ users'[a] = new /\ \A b \in Requests \ {a} : users'[b] = users[b]
        /\ req'[r] = done /\ \A q \in Requests \ {r} : req'[q] = req[q]
    BY <2>1, <2>2, <2>4 DEF SignInInv, TypeOK
  <2>7. Registers(r) <=> req[r].who = None
    BY DEF Registers
  <2>8. req[r].who # None => req[r].who \in Identities /\ EmailOf[req[r].who] \in Emails
    BY <2>2, SignInAssumption DEF Reqs
  <2>9. new.email # None /\ new # Absent
    BY <2>2, <2>4, <2>7, <2>8, SignInAssumption, AbsentRow DEF RowsSound
  <2>10. TypeOK'
    BY <2>1, <2>2, <2>3, <2>4, <2>7, <2>8 DEF SignInInv, TypeOK
  <2>11. ASSUME NEW b \in Requests, Exists(b)'
         PROVE  /\ req'[b].pc = "done"
                /\ users'[b].email # None
                /\ users'[b].apple # None =>
                      users'[b].email \in {EmailOf[users'[b].apple], users'[b].apple}
                /\ users'[b].password =>
                      /\ users'[b].email \in Emails
                      /\ users'[b].verified => users'[b].confirmed
                      /\ users'[b].apple # None => users'[b].confirmed
    <3>1. CASE b = a
      <4>1. req'[b].pc = "done" /\ users'[b] = new
        BY <2>3, <2>4, <2>6, <3>1
      <4>2. CASE req[r].write = "insert"
        BY <2>4, <2>7, <2>9, <4>1, <4>2
      <4>3. CASE req[r].write # "insert"
        <5>1. /\ users[a].password =>
                    /\ users[a].email \in Emails
                    /\ users[a].verified => users[a].confirmed
                    /\ users[a].apple # None => users[a].confirmed
              /\ users[a].apple # None =>
                    users[a].email \in {EmailOf[users[a].apple], users[a].apple}
          BY <2>2, <2>4, <4>3 DEF RowsSound
        <5>2. req[r].write \in {"link", "none"}
          BY <2>2, <4>3 DEF Reqs
        <5> QED BY <2>4, <2>5, <2>9, <4>1, <4>3, <5>1, <5>2
      <4> QED BY <4>2, <4>3
    <3>2. CASE b # a
      <4>1. Exists(b) /\ users'[b] = users[b]
        BY <2>6, <2>11, <3>2 DEF Exists
      <4>2. req'[b].pc = "done"
        BY <1>1, <2>2, <2>3, <2>6, <4>1 DEF RowsSound
      <4> QED BY <2>2, <4>1, <4>2 DEF RowsSound
    <3> QED BY <3>1, <3>2
  <2>12. RowsSound'
    BY <2>11 DEF RowsSound
  <2>13. ASSUME NEW b \in Requests \ {a}
         PROVE  /\ users[b].email # new.email
                /\ users[b].apple = new.apple => new.apple = None
    BY <2>2, <2>4, <2>9, <2>7 DEF WriterAlone, RowsUnique, a, Reqs
  <2>14. RowsUnique'
    BY <2>2, <2>4, <2>6, <2>13 DEF RowsUnique
  <2>15. ASSUME NEW s \in sessions'
         PROVE  users'[s[2]].apple = s[1]
    <3>1. CASE s \in sessions
      <4>1. s[1] \in Identities /\ s[2] \in Requests /\ users[s[2]].apple = s[1]
        BY <2>2, <3>1 DEF SessionsSound
      <4> QED BY <2>4, <2>6, <4>1, AbsentRow, SignInAssumption DEF Exists
    <3>2. CASE s \notin sessions
      BY <2>1, <2>4, <2>6, <2>15, <3>2 DEF a
    <3> QED BY <3>1, <3>2
  <2>16. SessionsSound'
    BY <2>15 DEF SessionsSound
  <2>17. RequestSound(r)' /\ LinkSound(r)' /\ FoundSound(r)' /\ WriterAlone(r)'
    BY <2>3, <2>6 DEF RequestSound, LinkSound, FoundSound, WriterAlone, Working
  <2>18. ASSUME NEW q \in Requests \ {r}
         PROVE  RequestSound(q)' /\ LinkSound(q)' /\ FoundSound(q)' /\ WriterAlone(q)'
    <3>1. /\ RequestSound(q) /\ LinkSound(q) /\ FoundSound(q) /\ WriterAlone(q)
          /\ req'[q] = req[q] /\ req[q] \in Reqs /\ Address(q)' = Address(q)
      BY <2>6 DEF SignInInv, TypeOK, Address
    <3>2. RequestSound(q)'
      BY <2>3, <2>6, <3>1 DEF RequestSound, Working, Reqs
    <3>3. req[q].write # "insert" /\ req[q].user # None =>
            /\ req[q].user \in Requests /\ req[req[q].user].pc = "done"
            /\ req[q].user = a => req[r].write # "insert"
            /\ Exists(req[q].user)' <=> Exists(req[q].user)
      <4>1. SUFFICES ASSUME req[q].write # "insert", req[q].user # None
                     PROVE  /\ req[q].user \in Requests /\ req[req[q].user].pc = "done"
                            /\ req[q].user = a => req[r].write # "insert"
                            /\ Exists(req[q].user)' <=> Exists(req[q].user)
        OBVIOUS
      <4>2. req[q].user \in Requests /\ req[req[q].user].pc = "done"
        BY <3>1, <4>1 DEF RequestSound, Reqs
      <4>3. req[q].user = a => req[r].write # "insert"
        BY <1>1, <2>4, <4>2
      <4>4. CASE req[q].user = a
        BY <2>4, <2>6, <2>9, <3>1, <4>3, <4>4 DEF Exists
      <4>5. CASE req[q].user # a
        BY <2>6, <3>1, <4>2, <4>5 DEF Exists
      <4> QED BY <4>2, <4>3, <4>4, <4>5
    <3>4. LinkSound(q)'
      BY <2>4, <2>6, <3>1, <3>3 DEF LinkSound, RequestSound, Working
    <3>5. FoundSound(q)'
      BY <2>4, <2>6, <3>1, <3>3 DEF FoundSound, RequestSound, Working
    <3>6. ASSUME req[q].write # "none", NEW b \in Requests
          PROVE  /\ req[q].write = "insert" => users'[b].email # Address(q)
                 /\ req[q].who # None /\ users'[b].apple = req[q].who => b = req[q].user
      BY <2>2, <2>4, <2>6, <3>1, <3>6 DEF WriterAlone, Reqs
    <3>7. ASSUME req[q].write # "none", NEW p \in Requests \ {q}, req'[p].write # "none"
          PROVE  /\ req'[p] = req[p] /\ p # r /\ Address(p)' = Address(p)
      BY <2>3, <2>6, <3>7 DEF Address
    <3>8. WriterAlone(q)'
      BY <3>1, <3>6, <3>7 DEF WriterAlone
    <3> QED BY <3>2, <3>4, <3>5, <3>8
  <2> QED BY <2>10, <2>12, <2>14, <2>16, <2>17, <2>18 DEF SignInInv
<1> QED BY <1>2, <1>3

LEMMA ClickLinkKeeps ==
    ASSUME SignInInv, NEW a \in Requests, ClickLink(a)
    PROVE  SignInInv'
<1> DEFINE new == [users[a] EXCEPT !.verified = TRUE, !.confirmed = TRUE]
<1>1. /\ users[a].email # None /\ users' = [users EXCEPT ![a] = new]
      /\ UNCHANGED <<req, sessions>>
  BY SignInAssumption DEF ClickLink, SignInInv, TypeOK
<1>2. /\ users[a] \in Rows /\ new \in Rows /\ Exists(a)
      /\ new.email = users[a].email /\ new.apple = users[a].apple
      /\ new.password = users[a].password /\ new.verified = TRUE /\ new.confirmed = TRUE
  BY <1>1, AbsentRow DEF SignInInv, TypeOK, Rows, Exists
<1> HIDE DEF new
<1>3. users'[a] = new /\ \A b \in Requests \ {a} : users'[b] = users[b]
  BY <1>1 DEF SignInInv, TypeOK
<1>4. new # Absent
  BY <1>2, AbsentRow
<1>5. \A b \in Requests : /\ Exists(b)' <=> Exists(b)
                          /\ users'[b].email = users[b].email /\ users'[b].apple = users[b].apple
                          /\ users'[b].password = users[b].password
                          /\ users[b].verified => users'[b].verified
                          /\ users[b].confirmed => users'[b].confirmed
                          /\ b = a \/ users'[b].verified = users[b].verified
  BY <1>2, <1>3, <1>4 DEF Exists
<1>6. TypeOK'
  BY <1>1, <1>2 DEF SignInInv, TypeOK
<1>7. RowsSound'
  BY <1>1, <1>2, <1>3, <1>5 DEF SignInInv, RowsSound
<1>8. RowsUnique' /\ SessionsSound'
  BY <1>1, <1>5 DEF SignInInv, RowsUnique, SessionsSound, TypeOK
<1>9. ASSUME NEW r \in Requests
      PROVE  RequestSound(r)' /\ LinkSound(r)' /\ FoundSound(r)' /\ WriterAlone(r)'
  <2>1. /\ RequestSound(r) /\ LinkSound(r) /\ FoundSound(r) /\ WriterAlone(r)
        /\ req[r] \in Reqs /\ req' = req
    BY <1>1 DEF SignInInv, TypeOK
  <2>2. RequestSound(r)'
    BY <2>1 DEF RequestSound, Working
  <2>3. LinkSound(r)' /\ FoundSound(r)'
    BY <1>5, <2>1 DEF LinkSound, FoundSound, Working, RequestSound, Reqs
  <2>4. WriterAlone(r)'
    BY <1>5, <2>1 DEF WriterAlone, Address
  <2> QED BY <2>2, <2>3, <2>4
<1> QED BY <1>6, <1>7, <1>8, <1>9 DEF SignInInv

LEMMA DeleteAccountKeeps ==
    ASSUME SignInInv, NEW a \in Requests, DeleteAccount(a)
    PROVE  SignInInv'
<1>1. /\ users' = [users EXCEPT ![a] = Absent] /\ req' = req
      /\ sessions' = {s \in sessions : s[2] # a}
      /\ \A q \in Requests : ~(req[q].user = a /\ req[q].write = "link")
  BY DEF DeleteAccount
<1>2. /\ users'[a] = Absent /\ \A b \in Requests \ {a} : users'[b] = users[b]
      /\ sessions' \subseteq sessions
  BY <1>1 DEF SignInInv, TypeOK
<1>3. TypeOK'
  BY <1>1, <1>2, AbsentRow DEF SignInInv, TypeOK
<1>4. RowsSound' /\ RowsUnique'
  BY <1>1, <1>2, AbsentRow DEF SignInInv, RowsSound, RowsUnique, Exists
<1>5. SessionsSound'
  BY <1>1, <1>2 DEF SignInInv, SessionsSound, TypeOK
<1>6. ASSUME NEW r \in Requests
      PROVE  RequestSound(r)' /\ LinkSound(r)' /\ FoundSound(r)' /\ WriterAlone(r)'
  <2>1. /\ RequestSound(r) /\ LinkSound(r) /\ FoundSound(r) /\ WriterAlone(r)
        /\ req[r] \in Reqs /\ req' = req
    BY <1>1 DEF SignInInv, TypeOK
  <2>2. RequestSound(r)'
    BY <2>1 DEF RequestSound, Working
  <2>6. Working(r) \/ req[r].pc = "link" =>
          /\ req[r].user \in Requests
          /\ Exists(req[r].user)' => users'[req[r].user] = users[req[r].user]
                                    /\ Exists(req[r].user)
    BY <1>2, <2>1 DEF RequestSound, Reqs, Exists
  <2>7. req[r].write = "link" => Exists(req[r].user)'
    BY <1>1, <1>2, <2>1, <2>6 DEF LinkSound, RequestSound, Exists
  <2>8. LinkSound(r)'
    BY <2>1, <2>6, <2>7 DEF LinkSound, RequestSound, Working
  <2>3. LinkSound(r)' /\ FoundSound(r)'
    BY <2>1, <2>6, <2>8 DEF FoundSound, Working
  <2>4. req[r].write # "none" => Address(r) # None
    BY SignInAssumption, <2>1 DEF Address, Reqs, RequestSound, Working
  <2>5. WriterAlone(r)'
    BY <1>2, <2>1, <2>4, AbsentRow DEF WriterAlone, Address
  <2> QED BY <2>2, <2>3, <2>5
<1> QED BY <1>3, <1>4, <1>5, <1>6 DEF SignInInv

-----------------------------------------------------------------------------
(* The theorems. *)

LinkedToOwnAddress ==
    \A a \in Requests : users[a].password /\ users[a].apple # None =>
        /\ users[a].confirmed
        /\ users[a].email = EmailOf[users[a].apple]

\* Apple agreed to each link that is there.
AppleAgreed ==
    \A a \in Requests : users[a].password /\ users[a].apple # None => users[a].agreed

\* bool() makes of the claim what Apple says by it: true of the booleans that
\* Apple documents, false of the string 'false'.
ClaimsUnderstood == \A c \in Claims : Bool(c) => Says(c)

LEMMA InitHolds == Init => SignInInv
<1> SUFFICES ASSUME Init PROVE SignInInv
  OBVIOUS
<1>1. /\ \A a \in Requests : users[a] = Absent /\ req[a] = Idle
      /\ sessions = {}
  BY DEF Init
<1>2. TypeOK
  BY AbsentRow, IdleRequest DEF Init, TypeOK
<1>3. RowsSound /\ RowsUnique /\ SessionsSound
  BY <1>1, AbsentRow DEF RowsSound, RowsUnique, SessionsSound, Exists
<1>4. \A r \in Requests : RequestSound(r) /\ LinkSound(r) /\ FoundSound(r) /\ WriterAlone(r)
  BY <1>1, IdleRequest DEF RequestSound, LinkSound, FoundSound, WriterAlone, Working
<1> QED BY <1>2, <1>3, <1>4 DEF SignInInv

LEMMA StepKeeps == SignInInv /\ [Next]_vars => SignInInv'
<1> SUFFICES ASSUME SignInInv, [Next]_vars PROVE SignInInv'
  OBVIOUS
<1>1. CASE UNCHANGED vars
  BY <1>1 DEF vars, SignInInv, TypeOK, RowsSound, RowsUnique, SessionsSound, RequestSound,
     LinkSound, FoundSound, WriterAlone, Working, Exists, Address
<1>2. ASSUME NEW r \in Requests, Step(r)
      PROVE  SignInInv'
  <2>1. CASE Abort(r)
    BY <2>1, FailKeeps DEF Abort
  <2> QED BY <1>2, <2>1, BeginKeeps, FindByAppleKeeps, FindByEmailKeeps, InsertUserKeeps,
        LinkUserKeeps, SubscriptionKeeps, CommitKeeps, ClickLinkKeeps, DeleteAccountKeeps
        DEF Step
<1> QED BY <1>1, <1>2 DEF Next

LEMMA InvariantHolds == Spec => []SignInInv
BY InitHolds, StepKeeps, PTL DEF Spec

(* The rows, the requests and the sessions have their types.               *)
THEOREM TypeCorrect == Spec => []TypeOK
BY InvariantHolds, PTL DEF SignInInv

(* First sign-ins of one identity that overlap, with or without the address,*)
(* do not end in two accounts (auth.py:573), however many overlap: the      *)
(* unique Apple id holds an account for its identity, and a link never     *)
(* replaces another identity's.                                             *)
THEOREM OneAccount == Spec => []OneAccountPerIdentity
<1>1. SignInInv => OneAccountPerIdentity
  <2> SUFFICES ASSUME SignInInv, NEW s \in sessions, NEW t \in sessions, s[1] = t[1]
               PROVE  s[2] = t[2]
    BY DEF OneAccountPerIdentity
  <2>1. /\ s[1] \in Identities /\ s[2] \in Requests /\ t[2] \in Requests
        /\ users[s[2]].apple = s[1] /\ users[t[2]].apple = s[1]
    BY DEF SignInInv, TypeOK, SessionsSound
  <2> QED BY <2>1, SignInAssumption DEF SignInInv, RowsUnique
<1> QED BY <1>1, InvariantHolds, PTL

(* Whatever Apple's claim looks like: an account with a password carries an *)
(* Apple id only if its address was confirmed by its owner and is the       *)
(* identity's own (auth.py:600).                                            *)
THEOREM LinkedToOwn == Spec => []LinkedToOwnAddress
<1>1. SignInInv => LinkedToOwnAddress
  <2> SUFFICES ASSUME SignInInv, NEW a \in Requests, users[a].password, users[a].apple # None
               PROVE  users[a].confirmed /\ users[a].email = EmailOf[users[a].apple]
    BY DEF LinkedToOwnAddress
  <2>1. Exists(a) /\ users[a].apple \in Identities
    BY AbsentRow DEF Exists, SignInInv, TypeOK, Rows
  <2> QED BY <2>1, SignInAssumption DEF SignInInv, RowsSound
<1> QED BY <1>1, InvariantHolds, PTL

(* "only when BOTH sides confirm ownership of the email" (auth.py:600), for *)
(* claims that bool() understands.                                          *)
THEOREM LinkedByBoth == ClaimsUnderstood => (Spec => []LinkedOnlyIfVerified)
<1> SUFFICES ASSUME ClaimsUnderstood PROVE Spec => []LinkedOnlyIfVerified
  OBVIOUS
<1>1. Init => AppleAgreed
  BY AbsentRow DEF Init, AppleAgreed
<1>2. SignInInv /\ AppleAgreed /\ [Next]_vars => AppleAgreed'
  <2> SUFFICES ASSUME SignInInv, AppleAgreed, [Next]_vars PROVE AppleAgreed'
    OBVIOUS
  <2>1. CASE UNCHANGED users
    BY <2>1 DEF AppleAgreed
  <2>2. ASSUME NEW r \in Requests, Commit(r), ~Gone(r)
        PROVE  AppleAgreed'
    <3> DEFINE a == req[r].user
               new == Written(r)
    <3>1. a \in Requests /\ users' = [users EXCEPT ![a] = new] /\ req[r].claim \in Claims \cup {"absent"}
      BY <2>2, WrittenRow DEF Commit, SignInInv, TypeOK, Reqs
    <3>2. new.password /\ new.apple # None => new.agreed
      <4>1. CASE req[r].write = "insert"
        BY <2>2, <4>1, WrittenRow DEF Commit, Registers
      <4>2. CASE req[r].write = "link"
        <5>1. Bool(req[r].claim) /\ new.agreed = Says(req[r].claim)
          BY <2>2, <4>2, WrittenRow DEF Commit
        <5>2. req[r].claim \in Claims
          BY <3>1, <5>1 DEF Bool
        <5>3. Says(req[r].claim)
          BY <5>1, <5>2 DEF ClaimsUnderstood
        <5> QED BY <5>1, <5>3
      <4>3. CASE req[r].write = "none"
        <5>1. /\ users[a].apple = req[r].who /\ new.apple = req[r].who
              /\ new.password = users[a].password /\ new.agreed = users[a].agreed
          BY <2>2, <4>3, WrittenRow DEF Commit
        <5> HIDE DEF a, new
        <5> QED BY <3>1, <5>1 DEF AppleAgreed
      <4> QED BY <4>1, <4>2, <4>3 DEF SignInInv, TypeOK, Reqs
    <3> HIDE DEF a, new
    <3> QED BY <3>1, <3>2 DEF AppleAgreed, SignInInv, TypeOK
  <2>3. ASSUME NEW a \in Requests, ClickLink(a)
        PROVE  AppleAgreed'
    BY <2>3 DEF AppleAgreed, ClickLink, SignInInv, TypeOK, Rows
  <2>4. ASSUME NEW a \in Requests, DeleteAccount(a)
        PROVE  AppleAgreed'
    BY <2>4, AbsentRow DEF AppleAgreed, DeleteAccount, SignInInv, TypeOK
  <2>5. ASSUME NEW r \in Requests, Step(r), ~(Commit(r) /\ ~Gone(r)),
               ~ClickLink(r), ~DeleteAccount(r)
        PROVE  UNCHANGED users
    BY <2>5 DEF Step, BeginSignIn, BeginRegister, FindByApple, FindByEmail, InsertUser,
       LinkUser, FindSubscription, Subscribe, Commit, Abort, Fail
  <2> QED BY <2>1, <2>2, <2>3, <2>4, <2>5 DEF Next, vars
<1>3. LinkedToOwnAddress /\ AppleAgreed => LinkedOnlyIfVerified
  BY DEF LinkedToOwnAddress, AppleAgreed, LinkedOnlyIfVerified
<1> QED BY <1>1, <1>2, <1>3, InvariantHolds, LinkedToOwn, PTL DEF Spec
=============================================================================
