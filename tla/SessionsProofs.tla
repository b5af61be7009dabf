----------------------------- MODULE SessionsProofs -----------------------------
(***************************************************************************)
(* Theorems of Sessions, for any number of requests and devices.           *)
(***************************************************************************)
EXTENDS Sessions, TLAPS

\* Kinds of requests that mint a token, and that present one.
Mints == {"register", "login", "refresh"}
Presents == {"refresh", "logout"}

\* How far a request has got, and what was answered before it.
RequestSound(r) ==
    /\ req[r].kind = "none" <=> req[r].pc = "idle"
    /\ req[r].presents # None <=> req[r].kind \in Presents
    /\ req[r].committed \/ req[r].answered =>
          req[r].pc \in {"returning", "done", "error", "crashed"}
    /\ req[r].pc = "done" => req[r].committed /\ req[r].answered
    /\ req[r].pc = "crashed" => Device[r] \in disturbed
    /\ req[r].pc = "returning" => ~(req[r].committed /\ req[r].answered)
    /\ req[r].pc = "error" => ~req[r].committed /\ (req[r].answered => user = "deleted")
    /\ setting.commitFirst /\ req[r].answered => req[r].pc = "done"
    /\ ~setting.commitFirst /\ req[r].committed => req[r].answered

\* What it knows of the account and of the token it presents.
KnowsSound(r) ==
    /\ req[r].kind \in {"login", "refresh"} /\ req[r].pc \in {"writing", "returning"} =>
          user # "absent"
    /\ req[r].kind = "register" /\ InFlight(r) => user # "deleted"
    /\ req[r].kind = "refresh" /\ req[r].pc \in {"writing", "returning"} => req[r].revokes
    /\ req[r].pc \in {"idle", "sent"} => ~req[r].revokes
    /\ req[r].revokes => /\ req[r].presents # None
                         /\ token[req[r].presents] = "none" => user = "deleted"
    /\ req[r].presents # None =>
          /\ Device[req[r].presents] = Device[r]
          /\ req[req[r].presents].answered /\ req[req[r].presents].kind \in Mints
          /\ req[r].answered /\ Device[r] \notin disturbed =>
                jar[Device[r]] # req[r].presents

TokenSound(t) ==
    /\ token[t] # "none" => req[t].committed /\ req[t].kind \in Mints
    /\ token[t] = "live" => user = "exists"
    /\ token[t] = "revoked" => \E g \in Requests : req[g].presents = t /\ req[g].committed
    /\ req[t].committed /\ req[t].kind \in Mints /\ token[t] = "none" => user = "deleted"
    /\ user = "deleted" => token[t] = "none"

JarSound(d) ==
    jar[d] # None =>
        Device[jar[d]] = d /\ req[jar[d]].answered /\ req[jar[d]].kind \in Mints

SessionInv ==
    /\ TypeOK
    /\ \A r \in Requests : RequestSound(r) /\ KnowsSound(r) /\ TokenSound(r)
    /\ \A d \in Devices : JarSound(d)
-----------------------------------------------------------------------------
(* A device that waits for each answer. *)

OneRequest ==
    \A q, r \in Requests : Device[q] = Device[r] /\ InFlight(q) /\ InFlight(r) => q = r

\* The token a request presents is still the device's, and what the handler
\* has read of it still true.
PresentsNewest(r) ==
    InFlight(r) /\ req[r].presents # None =>
        /\ req[r].presents = jar[Device[r]]
        /\ req[r].pc \in {"writing", "returning"} /\ ~req[r].committed =>
             /\ req[r].kind = "refresh" => token[req[r].presents] # "revoked"
             /\ ~req[r].revokes => token[req[r].presents] # "live"

DescentSound(t) ==
    /\ origin[t] # None <=> req[t].committed /\ req[t].kind \in Mints
    /\ origin[t] # None => Device[origin[t]] = Device[t] /\ origin[origin[t]] = origin[t]
    /\ used[t] <= 1
    /\ used[t] = 1 => token[t] # "live" /\ origin[t] # None

OneLive ==
    \A a, b \in Requests :
        token[a] = "live" /\ token[b] = "live" /\ origin[a] = origin[b] => a = b

\* The newest token of a login is the cookie, or is on its way.
NewestKnown(d) ==
    d \notin disturbed /\ jar[d] # None =>
        \A t \in Requests : token[t] = "live" /\ origin[t] = origin[jar[d]] =>
            t = jar[d] \/ (InFlight(t) /\ req[t].committed)

LoggedOut(r) ==
    req[r].kind = "logout" /\ req[r].committed /\ Device[r] \notin disturbed =>
        \A t \in Requests :
            origin[t] = origin[req[r].presents] /\ origin[t] # None => token[t] # "live"

TabInv ==
    /\ OneRequest /\ OneLive
    /\ \A r \in Requests : PresentsNewest(r) /\ DescentSound(r) /\ LoggedOut(r)
    /\ \A d \in Devices : NewestKnown(d)

TabsInv == OneAtATime => TabInv

-----------------------------------------------------------------------------
(* The steps of a handler before its commit: they change its record only. *)

LEMMA FreshRequest ==
    /\ Fresh \in Handlers
    /\ Fresh.kind = "none" /\ Fresh.pc = "idle" /\ Fresh.presents = None
    /\ Fresh.revokes = FALSE /\ Fresh.committed = FALSE /\ Fresh.answered = FALSE
BY DEF Fresh, Handlers, Tokenish, Kinds

\* r, not committed yet, moves on to new.
Moves(r, new) ==
    /\ ~req[r].committed /\ ~new.committed
    /\ new.answered = req[r].answered
    /\ req[r].answered => new.kind = req[r].kind /\ new.presents = req[r].presents
    /\ req' = [req EXCEPT ![r] = new]
    /\ UNCHANGED <<user, token, expired, jar, history>>

LEMMA MovesRecord ==
    ASSUME TypeOK, NEW r \in Requests, NEW new \in Handlers, Moves(r, new)
    PROVE  /\ req \in [Requests -> Handlers] /\ req' \in [Requests -> Handlers]
           /\ req'[r] = new /\ \A q \in Requests \ {r} : req'[q] = req[q]
           /\ user' = user /\ token' = token /\ expired' = expired /\ jar' = jar
           /\ setting' = setting /\ origin' = origin /\ used' = used /\ disturbed' = disturbed
BY DEF TypeOK, Moves, history

LEMMA MovesKeeps ==
    ASSUME SessionInv, NEW r \in Requests, NEW new \in Handlers, Moves(r, new),
           RequestSound(r)', KnowsSound(r)'
    PROVE  SessionInv'
<1>1. /\ req \in [Requests -> Handlers] /\ req' \in [Requests -> Handlers]
      /\ req'[r] = new /\ \A q \in Requests \ {r} : req'[q] = req[q]
      /\ user' = user /\ token' = token /\ expired' = expired /\ jar' = jar
      /\ setting' = setting /\ origin' = origin /\ used' = used /\ disturbed' = disturbed
  BY MovesRecord DEF SessionInv
<1>2. /\ ~req[r].committed /\ ~new.committed /\ new.answered = req[r].answered
      /\ req[r].answered => new.kind = req[r].kind /\ new.presents = req[r].presents
  BY DEF Moves
<1>3. TypeOK'
  BY <1>1 DEF SessionInv, TypeOK
<1>4. ASSUME NEW q \in Requests \ {r}
      PROVE  RequestSound(q)' /\ KnowsSound(q)'
  <2>1. RequestSound(q) /\ KnowsSound(q) /\ req[q] \in Handlers
    BY <1>1 DEF SessionInv
  <2>2. RequestSound(q)'
    BY <1>1, <2>1 DEF RequestSound
  <2>3. req[q].presents # None => req[q].presents \in Requests
    BY <2>1 DEF Handlers, Tokenish
  <2>4. KnowsSound(q)'
    BY <1>1, <1>2, <2>1, <2>3 DEF KnowsSound, InFlight
  <2> QED BY <2>2, <2>4
<1>5. ASSUME NEW t \in Requests
      PROVE  TokenSound(t)'
  <2>1. TokenSound(t)
    BY DEF SessionInv
  <2>2. ASSUME token[t] = "revoked"
        PROVE  \E g \in Requests : req'[g].presents = t /\ req'[g].committed
    <3>1. PICK g \in Requests : req[g].presents = t /\ req[g].committed
      BY <2>1, <2>2 DEF TokenSound
    <3>2. req'[g] = req[g]
      BY <1>1, <1>2, <3>1
    <3> QED BY <3>1, <3>2
  <2>3. req'[t].committed = req[t].committed /\ (req[t].committed => req'[t].kind = req[t].kind)
    <3>1. CASE t = r
      BY <1>1, <1>2, <3>1 DEF Handlers
    <3>2. CASE t # r
      BY <1>1, <3>2
    <3> QED BY <3>1, <3>2
  <2> QED BY <1>1, <2>1, <2>2, <2>3 DEF TokenSound
<1>6. ASSUME NEW d \in Devices
      PROVE  JarSound(d)'
  <2>1. JarSound(d) /\ jar[d] \in Tokenish
    BY DEF SessionInv, TypeOK
  <2> QED BY <1>1, <1>2, <2>1 DEF JarSound, Tokenish
<1> QED BY <1>3, <1>4, <1>5, <1>6 DEF SessionInv

LEMMA SendMoves ==
    ASSUME SessionInv, NEW r \in Requests, NEW kind \in Kinds, Send(r, kind)
    PROVE  LET new == [Fresh EXCEPT !.kind = kind, !.pc = "sent",
                         !.presents = IF kind \in {"refresh", "logout"}
                                      THEN jar[Device[r]] ELSE None]
           IN  /\ new \in Handlers /\ Moves(r, new) /\ RequestSound(r)' /\ KnowsSound(r)'
               /\ ~InFlight(r) /\ InFlight(r)'
               /\ PresentsNewest(r)'
<1> DEFINE presents == IF kind \in {"refresh", "logout"} THEN jar[Device[r]] ELSE None
           new == [Fresh EXCEPT !.kind = kind, !.pc = "sent", !.presents = presents]
<1>1. /\ req[r].pc = "idle" /\ req' = [req EXCEPT ![r] = new]
      /\ kind \in {"refresh", "logout"} => jar[Device[r]] # None
      /\ kind = "register" => user # "deleted"
      /\ UNCHANGED <<user, token, expired, jar, history>>
  BY DEF Send
<1>2. /\ Device[r] \in Devices /\ presents \in Tokenish
      /\ presents # None <=> kind \in {"refresh", "logout"}
      /\ presents # None => presents = jar[Device[r]] /\ presents \in Requests
  BY <1>1, SessionAssumption DEF SessionInv, TypeOK, Tokenish
<1>3. /\ new \in Handlers /\ new.kind = kind /\ new.pc = "sent" /\ new.presents = presents
      /\ new.revokes = FALSE /\ new.committed = FALSE /\ new.answered = FALSE
  BY <1>2 DEF Fresh, Handlers
<1>4. RequestSound(r) /\ req[r] \in Handlers /\ TypeOK /\ JarSound(Device[r])
  BY <1>2 DEF SessionInv, TypeOK
<1>5. ~req[r].committed /\ ~req[r].answered
  BY <1>1, <1>4 DEF RequestSound
<1>6. Moves(r, new)
  <2> HIDE DEF new
  <2> QED BY <1>1, <1>3, <1>4, <1>5 DEF Moves, Handlers
<1>7. /\ req'[r] = new /\ \A q \in Requests \ {r} : req'[q] = req[q]
      /\ user' = user /\ token' = token /\ jar' = jar
      /\ setting' = setting /\ disturbed' = disturbed
  BY <1>3, <1>4, <1>6, MovesRecord
<1> HIDE DEF new, presents
<1>8. RequestSound(r)'
  BY <1>2, <1>3, <1>7 DEF RequestSound, Presents, Kinds
<1>9. KnowsSound(r)'
  BY <1>1, <1>2, <1>3, <1>4, <1>5, <1>7 DEF KnowsSound, JarSound
<1>10. ~InFlight(r) /\ InFlight(r)'
  BY <1>1, <1>3, <1>7 DEF InFlight
<1>11. PresentsNewest(r)'
  BY <1>2, <1>3, <1>7 DEF PresentsNewest
<1> QED BY <1>3, <1>6, <1>8, <1>9, <1>10, <1>11 DEF new, presents

\* A handler's step keeps what is known of its request.
MovesSoundly(r, new) ==
    /\ new \in Handlers /\ Moves(r, new)
    /\ RequestSound(r)' /\ KnowsSound(r)'
    /\ InFlight(r) /\ (PresentsNewest(r) => PresentsNewest(r)')

\* The step goes to pc, and sets revokes.
LEMMA HandlerMoves ==
    ASSUME SessionInv, NEW r \in Requests, InFlight(r), ~req[r].committed,
           NEW pc \in {"writing", "returning", "refused", "error"}, NEW revokes \in BOOLEAN,
           req' = [req EXCEPT ![r] = [req[r] EXCEPT !.pc = pc, !.revokes = revokes]],
           UNCHANGED <<user, token, expired, jar, history>>,
           req[r].answered => pc = "error" /\ user = "deleted",
           pc \in {"writing", "returning"} /\ req[r].kind \in {"login", "refresh"} =>
              user # "absent",
           pc \in {"writing", "returning"} /\ req[r].kind = "refresh" => revokes,
           revokes => /\ req[r].presents # None
                      /\ token[req[r].presents] = "none" => user = "deleted",
           pc \in {"writing", "returning"} /\ PresentsNewest(r) /\ req[r].presents # None =>
              /\ req[r].kind = "refresh" => token[req[r].presents] # "revoked"
              /\ ~revokes => token[req[r].presents] # "live"
    PROVE  \E new \in Handlers : MovesSoundly(r, new)
<1> DEFINE new == [req[r] EXCEPT !.pc = pc, !.revokes = revokes]
<1>1. /\ RequestSound(r) /\ KnowsSound(r) /\ req[r] \in Handlers /\ TypeOK
      /\ req[r].pc \notin {"idle", "done", "crashed", "error", "refused"}
      /\ Device[r] \in Devices
  BY SessionAssumption DEF SessionInv, TypeOK, Handlers, InFlight
<1>2. /\ new \in Handlers /\ new.kind = req[r].kind /\ new.pc = pc
      /\ new.presents = req[r].presents /\ new.revokes = revokes
      /\ new.committed = req[r].committed /\ new.answered = req[r].answered
  BY <1>1 DEF Handlers, Ended
<1> HIDE DEF new
<1>3. Moves(r, new)
  BY <1>2 DEF Moves, new
<1>4. /\ req'[r] = new /\ \A q \in Requests \ {r} : req'[q] = req[q]
      /\ user' = user /\ token' = token /\ jar' = jar
      /\ setting' = setting /\ disturbed' = disturbed
  BY <1>1, <1>2, <1>3, MovesRecord
<1>5. RequestSound(r)'
  BY <1>1, <1>2, <1>4 DEF RequestSound
<1>6. new.presents # None => /\ new.presents \in Requests
                            /\ req'[new.presents].answered = req[new.presents].answered
                            /\ req'[new.presents].kind = req[new.presents].kind
  BY <1>1, <1>2, <1>4 DEF Handlers, Tokenish
<1>7. KnowsSound(r)'
  BY <1>1, <1>2, <1>4, <1>6 DEF KnowsSound, InFlight
<1>8. PresentsNewest(r) => PresentsNewest(r)'
  BY <1>2, <1>4 DEF PresentsNewest, InFlight
<1> QED BY <1>2, <1>3, <1>5, <1>7, <1>8 DEF MovesSoundly

LEMMA ReadUserMoves ==
    ASSUME SessionInv, NEW r \in Requests, ReadUser(r)
    PROVE  \E new \in Handlers : MovesSoundly(r, new)
<1>1. /\ RequestSound(r) /\ KnowsSound(r) /\ req[r] \in Handlers /\ TypeOK
  BY DEF SessionInv, TypeOK
<1>2. /\ req[r].pc = "sent" /\ req[r].kind \in {"register", "login"}
      /\ req[r].presents = None /\ req[r].revokes = FALSE
      /\ UNCHANGED <<user, token, expired, jar, history>>
  BY <1>1 DEF ReadUser, RequestSound, KnowsSound, Presents, Handlers
<1>3. ~req[r].committed /\ ~req[r].answered /\ InFlight(r)
  BY <1>1, <1>2 DEF RequestSound, InFlight
<1>4. PICK pc \in {"writing", "returning", "refused"} :
        /\ req' = [req EXCEPT ![r].pc = pc]
        /\ req[r].kind = "login" /\ pc # "refused" => user = "exists"
  BY <1>2 DEF ReadUser, Step
<1>5. req' = [req EXCEPT ![r] = [req[r] EXCEPT !.pc = pc, !.revokes = FALSE]]
  BY <1>1, <1>2, <1>4 DEF Handlers, TypeOK
<1> QED BY <1>2, <1>3, <1>4, <1>5, HandlerMoves

LEMMA ReadTokenMoves ==
    ASSUME SessionInv, NEW r \in Requests, ReadToken(r)
    PROVE  \E new \in Handlers : MovesSoundly(r, new)
<1> DEFINE t == req[r].presents
<1>1. /\ RequestSound(r) /\ KnowsSound(r) /\ req[r] \in Handlers /\ TypeOK
  BY DEF SessionInv, TypeOK
<1>2. /\ req[r].pc = "sent" /\ req[r].kind = "refresh" /\ t \in Requests /\ t # None
      /\ req[r].revokes = FALSE
      /\ UNCHANGED <<user, token, expired, jar, history>>
  BY <1>1, SessionAssumption DEF ReadToken, RequestSound, KnowsSound, Presents, Handlers, Tokenish
<1>3. ~req[r].committed /\ ~req[r].answered /\ InFlight(r)
  BY <1>1, <1>2 DEF RequestSound, InFlight
<1>4. CASE req' = [req EXCEPT ![r].pc = "refused"]
  <2>1. req' = [req EXCEPT ![r] = [req[r] EXCEPT !.pc = "refused", !.revokes = FALSE]]
    BY <1>1, <1>2, <1>4 DEF Handlers, TypeOK
  <2> QED BY <1>2, <1>3, <2>1, HandlerMoves
<1>5. CASE token[t] = "live" /\ req' = [req EXCEPT ![r].pc = "writing", ![r].revokes = TRUE]
  <2>1. req' = [req EXCEPT ![r] = [req[r] EXCEPT !.pc = "writing", !.revokes = TRUE]]
    BY <1>1, <1>2, <1>5 DEF Handlers, TypeOK
  <2>2. user = "exists"
    BY <1>2, <1>5 DEF SessionInv, TokenSound
  <2> QED BY <1>2, <1>3, <1>5, <2>1, <2>2, HandlerMoves
<1> QED BY <1>4, <1>5 DEF ReadToken, Step

LEMMA LogoutMoves ==
    ASSUME SessionInv, NEW r \in Requests, Logout(r)
    PROVE  \E new \in Handlers : MovesSoundly(r, new)
<1> DEFINE t == req[r].presents
           revokes == token[t] = "live"
<1>1. /\ RequestSound(r) /\ KnowsSound(r) /\ req[r] \in Handlers /\ TypeOK
  BY DEF SessionInv, TypeOK
<1>2. /\ req[r].pc = "sent" /\ req[r].kind = "logout" /\ t # None
      /\ UNCHANGED <<user, token, expired, jar, history>>
  BY <1>1 DEF Logout, RequestSound, Presents
<1>3. ~req[r].committed /\ ~req[r].answered /\ InFlight(r)
  BY <1>1, <1>2 DEF RequestSound, InFlight
<1>4. req' = [req EXCEPT ![r].pc = "returning", ![r].revokes = revokes]
  BY DEF Logout
<1>5. revokes \in BOOLEAN
  OBVIOUS
<1>6. revokes => token[t] = "live"
  OBVIOUS
<1>7. ~revokes => token[t] # "live"
  OBVIOUS
<1> HIDE DEF revokes
<1>8. req' = [req EXCEPT ![r] = [req[r] EXCEPT !.pc = "returning", !.revokes = revokes]]
  BY <1>1, <1>2, <1>4, <1>5 DEF Handlers, TypeOK
<1> QED BY <1>2, <1>3, <1>5, <1>6, <1>7, <1>8, HandlerMoves

LEMMA AddUserMoves ==
    ASSUME SessionInv, NEW r \in Requests, AddUser(r)
    PROVE  \E new \in Handlers : MovesSoundly(r, new)
<1>1. /\ RequestSound(r) /\ KnowsSound(r) /\ req[r] \in Handlers /\ TypeOK
  BY DEF SessionInv, TypeOK
<1>2. /\ req[r].pc = "writing" /\ req[r].kind = "register"
      /\ req[r].presents = None /\ req[r].revokes = FALSE
      /\ UNCHANGED <<user, token, expired, jar, history>>
  BY <1>1 DEF AddUser, RequestSound, KnowsSound, Presents, Handlers
<1>3. ~req[r].committed /\ ~req[r].answered /\ InFlight(r)
  BY <1>1, <1>2 DEF RequestSound, InFlight
<1>4. PICK pc \in {"returning", "error"} : req' = [req EXCEPT ![r].pc = pc]
  BY DEF AddUser, Step
<1>5. req' = [req EXCEPT ![r] = [req[r] EXCEPT !.pc = pc, !.revokes = FALSE]]
  BY <1>1, <1>2, <1>4 DEF Handlers, TypeOK
<1> QED BY <1>2, <1>3, <1>4, <1>5, HandlerMoves

LEMMA RevokeOldMoves ==
    ASSUME SessionInv, NEW r \in Requests, RevokeOld(r)
    PROVE  \E new \in Handlers : MovesSoundly(r, new)
<1> DEFINE t == req[r].presents
<1>1. /\ RequestSound(r) /\ KnowsSound(r) /\ req[r] \in Handlers /\ TypeOK
  BY DEF SessionInv, TypeOK
<1>2. /\ req[r].pc = "writing" /\ req[r].kind = "refresh" /\ t # None
      /\ req[r].revokes = TRUE
      /\ UNCHANGED <<user, token, expired, jar, history>>
  BY <1>1 DEF RevokeOld, RequestSound, KnowsSound, Presents, Handlers
<1>3. ~req[r].committed /\ ~req[r].answered /\ InFlight(r)
  BY <1>1, <1>2 DEF RequestSound, InFlight
<1>4. PICK pc \in {"returning", "error"} : req' = [req EXCEPT ![r].pc = pc]
  BY DEF RevokeOld, Step
<1>5. req' = [req EXCEPT ![r] = [req[r] EXCEPT !.pc = pc, !.revokes = TRUE]]
  BY <1>1, <1>2, <1>4 DEF Handlers, TypeOK
<1>6. PresentsNewest(r) => token[t] # "revoked"
  BY <1>2, <1>3 DEF PresentsNewest
<1>7. user # "absent" /\ (token[t] = "none" => user = "deleted")
  BY <1>1, <1>2 DEF KnowsSound
<1> QED BY <1>2, <1>3, <1>4, <1>5, <1>6, <1>7, HandlerMoves

\* A commit that fails.
LEMMA BrokenMoves ==
    ASSUME SessionInv, NEW r \in Requests, req[r].pc = "returning", ~req[r].committed,
           Broken(r), req' = [req EXCEPT ![r].pc = "error"],
           UNCHANGED <<user, token, expired, jar, history>>
    PROVE  \E new \in Handlers : MovesSoundly(r, new)
<1>1. /\ RequestSound(r) /\ KnowsSound(r) /\ req[r] \in Handlers /\ TypeOK
  BY DEF SessionInv, TypeOK
<1>2. user = "deleted"
  BY <1>1 DEF Broken, KnowsSound, TypeOK
<1>3. req' = [req EXCEPT ![r] = [req[r] EXCEPT !.pc = "error", !.revokes = req[r].revokes]]
  BY <1>1 DEF Handlers, TypeOK
<1>4. req[r].revokes \in BOOLEAN /\ InFlight(r)
  BY <1>1 DEF Handlers, InFlight
<1>5. req[r].revokes => req[r].presents # None
  BY <1>1 DEF KnowsSound
<1> QED BY <1>2, <1>3, <1>4, <1>5, HandlerMoves

LEMMA MovesKeepsTabs ==
    ASSUME SessionInv, TabInv, NEW r \in Requests, NEW new \in Handlers, Moves(r, new),
           InFlight(r)' => \/ InFlight(r)
                           \/ \A q \in Requests : Device[q] = Device[r] => ~InFlight(q),
           PresentsNewest(r)'
    PROVE  TabInv'
<1>1. /\ req \in [Requests -> Handlers] /\ req' \in [Requests -> Handlers]
      /\ req'[r] = new /\ \A q \in Requests \ {r} : req'[q] = req[q]
      /\ user' = user /\ token' = token /\ expired' = expired /\ jar' = jar
      /\ setting' = setting /\ origin' = origin /\ used' = used /\ disturbed' = disturbed
  BY MovesRecord DEF SessionInv
<1>2. ~req[r].committed /\ ~new.committed
  BY DEF Moves
<1>3. \A q \in Requests \ {r} : InFlight(q)' <=> InFlight(q)
  BY <1>1 DEF InFlight
<1>4. OneRequest'
  BY <1>3 DEF TabInv, OneRequest
<1>5. OneLive'
  BY <1>1 DEF TabInv, OneLive
<1>6. ASSUME NEW q \in Requests
      PROVE  PresentsNewest(q)' /\ DescentSound(q)' /\ LoggedOut(q)'
  <2>1. PresentsNewest(q) /\ DescentSound(q) /\ LoggedOut(q)
    BY DEF TabInv
  <2>2. CASE q = r
    <3>1. DescentSound(q)'
      BY <1>1, <1>2, <2>1, <2>2 DEF DescentSound
    <3>2. LoggedOut(q)'
      BY <1>1, <1>2, <2>2 DEF LoggedOut
    <3> QED BY <2>2, <3>1, <3>2
  <2>3. CASE q # r
    <3>1. req'[q] = req[q] /\ (InFlight(q)' <=> InFlight(q))
      BY <1>1, <1>3, <2>3
    <3>2. PresentsNewest(q)'
      BY <1>1, <2>1, <3>1 DEF PresentsNewest
    <3>3. DescentSound(q)' /\ LoggedOut(q)'
      BY <1>1, <2>1, <3>1 DEF DescentSound, LoggedOut
    <3> QED BY <3>2, <3>3
  <2> QED BY <2>2, <2>3
<1>7. ASSUME NEW d \in Devices
      PROVE  NewestKnown(d)'
  <2>1. NewestKnown(d)
    BY DEF TabInv
  <2>2. \A t \in Requests : InFlight(t) /\ req[t].committed => InFlight(t)' /\ req'[t].committed
    BY <1>1, <1>2, <1>3
  <2> QED BY <1>1, <2>1, <2>2 DEF NewestKnown
<1> QED BY <1>4, <1>5, <1>6, <1>7 DEF TabInv

LEMMA SoundMovesKeep ==
    ASSUME SessionInv, TabsInv, NEW r \in Requests, \E new \in Handlers : MovesSoundly(r, new)
    PROVE  SessionInv' /\ TabsInv'
<1>1. PICK new \in Handlers : MovesSoundly(r, new)
  OBVIOUS
<1>2. SessionInv'
  BY <1>1, MovesKeeps DEF MovesSoundly
<1>3. OneAtATime' <=> OneAtATime
  BY <1>1 DEF MovesSoundly, Moves, history, OneAtATime
<1>4. ASSUME OneAtATime PROVE TabInv'
  <2>1. TabInv /\ PresentsNewest(r)'
    BY <1>1, <1>4 DEF TabsInv, TabInv, MovesSoundly
  <2> QED BY <1>1, <2>1, MovesKeepsTabs DEF MovesSoundly
<1> QED BY <1>2, <1>3, <1>4 DEF TabsInv

LEMMA SendKeeps ==
    ASSUME SessionInv, TabsInv, NEW r \in Requests, NEW kind \in Kinds, Send(r, kind)
    PROVE  SessionInv' /\ TabsInv'
<1>1. PICK new \in Handlers : /\ Moves(r, new) /\ RequestSound(r)' /\ KnowsSound(r)'
                              /\ PresentsNewest(r)'
  BY SendMoves
<1>2. SessionInv'
  BY <1>1, MovesKeeps
<1>3. OneAtATime' <=> OneAtATime
  BY <1>1 DEF Moves, history, OneAtATime
<1>4. ASSUME OneAtATime PROVE TabInv'
  <2>1. \A q \in Requests : Device[q] = Device[r] => ~InFlight(q)
    <3>1. \A q \in Requests : InFlight(q) => ~req[q].answered
      BY <1>4 DEF OneAtATime, SessionInv, RequestSound, InFlight
    <3> QED BY <1>4, <3>1 DEF Send, OneAtATime, Waiting
  <2> QED BY <1>1, <1>4, <2>1, MovesKeepsTabs DEF TabsInv
<1> QED BY <1>2, <1>3, <1>4 DEF TabsInv
-----------------------------------------------------------------------------
(* The other steps: what they keep of SessionInv. *)

\* A commit that succeeds.
Commits(r) ==
    /\ req[r].pc = "returning" /\ ~req[r].committed
    /\ ~setting.commitFirst => req[r].answered
    /\ ~Broken(r)
    /\ user' = IF req[r].kind = "register" THEN "exists" ELSE user
    /\ token' = Tokens(r)
    /\ req' = [req EXCEPT ![r] = [req[r] EXCEPT !.committed = TRUE,
                                    !.pc = IF setting.commitFirst THEN @ ELSE "done"]]
    /\ origin' = CASE req[r].kind \in {"register", "login"} -> [origin EXCEPT ![r] = r]
                   [] req[r].kind = "refresh" -> [origin EXCEPT ![r] = origin[req[r].presents]]
                   [] OTHER -> origin
    /\ used' = IF req[r].kind = "refresh" THEN [used EXCEPT ![req[r].presents] = @ + 1] ELSE used
    /\ UNCHANGED <<setting, expired, jar, disturbed>>

LEMMA CommitCases ==
    ASSUME TypeOK, NEW r \in Requests, Commit(r)
    PROVE  \/ Commits(r)
           \/ /\ req[r].pc = "returning" /\ ~req[r].committed /\ Broken(r)
              /\ req' = [req EXCEPT ![r].pc = "error"]
              /\ UNCHANGED <<user, token, expired, jar, history>>
<1>1. CASE Broken(r)
  BY <1>1 DEF Commit, Step
<1>2. CASE ~Broken(r)
  <2>1. req' = [req EXCEPT ![r] = [req[r] EXCEPT !.committed = TRUE,
                                    !.pc = IF setting.commitFirst THEN @ ELSE "done"]]
    BY <1>2 DEF Commit, TypeOK, Handlers
  <2> QED BY <1>2, <2>1 DEF Commit, Commits
<1> QED BY <1>1, <1>2

LEMMA CommitsRecord ==
    ASSUME SessionInv, NEW r \in Requests, Commits(r)
    PROVE  /\ req' \in [Requests -> Handlers]
           /\ req'[r].committed = TRUE /\ req'[r].kind = req[r].kind
           /\ req'[r].presents = req[r].presents /\ req'[r].revokes = req[r].revokes
           /\ req'[r].answered = req[r].answered
           /\ req'[r].pc = IF setting.commitFirst THEN "returning" ELSE "done"
           /\ req'[r].answered <=> ~setting.commitFirst
           /\ \A q \in Requests \ {r} : req'[q] = req[q]
           /\ \A t \in Requests : token'[t] =
                IF t = r /\ req[r].kind # "logout" THEN "live"
                ELSE IF t = req[r].presents /\ req[r].revokes THEN "revoked"
                ELSE token[t]
           /\ setting' = setting /\ jar' = jar /\ disturbed' = disturbed /\ expired' = expired
           /\ req[r].kind \in Kinds
           /\ TypeOK'
<1>1. /\ RequestSound(r) /\ KnowsSound(r) /\ req[r] \in Handlers /\ TypeOK
  BY DEF SessionInv, TypeOK
<1>2. /\ req[r].pc = "returning" /\ ~req[r].committed /\ req[r].kind \in Kinds
      /\ req[r].answered <=> ~setting.commitFirst
      /\ req[r].kind = "refresh" => req[r].presents \in Requests
  BY <1>1 DEF Commits, RequestSound, Handlers, Presents, Tokenish
<1> DEFINE new == [req[r] EXCEPT !.committed = TRUE,
                                 !.pc = IF setting.commitFirst THEN @ ELSE "done"]
<1>3. /\ new \in Handlers /\ new.committed = TRUE /\ new.kind = req[r].kind
      /\ new.presents = req[r].presents /\ new.revokes = req[r].revokes
      /\ new.answered = req[r].answered
      /\ new.pc = IF setting.commitFirst THEN "returning" ELSE "done"
  BY <1>1, <1>2 DEF Handlers, Ended
<1>4. req' = [req EXCEPT ![r] = new]
  BY DEF Commits
<1> HIDE DEF new
<1>5. req' \in [Requests -> Handlers] /\ req'[r] = new /\ \A q \in Requests \ {r} : req'[q] = req[q]
  BY <1>1, <1>3, <1>4 DEF TypeOK
<1>6. token' = Tokens(r) /\ token' \in [Requests -> {"none", "live", "revoked"}]
  BY <1>1 DEF Commits, Tokens, TypeOK
<1>7. user' \in {"absent", "exists", "deleted"} /\ UNCHANGED <<setting, expired, jar, disturbed>>
  BY <1>1 DEF Commits, TypeOK
<1>8. origin' \in [Requests -> Tokenish]
  <2>1. CASE req[r].kind \in {"register", "login"}
    BY <1>1, <2>1 DEF Commits, TypeOK, Tokenish
  <2>2. CASE req[r].kind = "refresh"
    BY <1>1, <1>2, <2>2 DEF Commits, TypeOK, Tokenish
  <2>3. CASE req[r].kind = "logout"
    BY <1>1, <2>3 DEF Commits, TypeOK
  <2> QED BY <1>2, <2>1, <2>2, <2>3 DEF Kinds
<1>9. used' \in [Requests -> Nat]
  BY <1>1, <1>2 DEF Commits, TypeOK
<1>10. TypeOK'
  BY <1>1, <1>5, <1>6, <1>7, <1>8, <1>9 DEF TypeOK
<1> QED BY <1>2, <1>3, <1>5, <1>6, <1>7, <1>10 DEF Tokens

LEMMA CommitsKeep ==
    ASSUME SessionInv, NEW r \in Requests, Commits(r)
    PROVE  SessionInv'
<1> DEFINE p == req[r].presents
<1>1. /\ req' \in [Requests -> Handlers]
      /\ req'[r].committed = TRUE /\ req'[r].kind = req[r].kind
      /\ req'[r].presents = p /\ req'[r].revokes = req[r].revokes
      /\ req'[r].answered = req[r].answered
      /\ req'[r].pc = IF setting.commitFirst THEN "returning" ELSE "done"
      /\ req'[r].answered <=> ~setting.commitFirst
      /\ \A q \in Requests \ {r} : req'[q] = req[q]
      /\ \A t \in Requests : token'[t] =
           IF t = r /\ req[r].kind # "logout" THEN "live"
           ELSE IF t = p /\ req[r].revokes THEN "revoked"
           ELSE token[t]
      /\ setting' = setting /\ jar' = jar /\ disturbed' = disturbed
      /\ req[r].kind \in Kinds
      /\ TypeOK'
  BY CommitsRecord
<1>2. /\ RequestSound(r) /\ KnowsSound(r) /\ TokenSound(r) /\ req[r] \in Handlers /\ TypeOK
  BY DEF SessionInv, TypeOK
<1>3. /\ req[r].pc = "returning" /\ ~req[r].committed /\ InFlight(r)
      /\ req[r].kind \in {"login", "refresh"} => user = "exists"
      /\ req[r].revokes => p \in Requests /\ token[p] # "none"
      /\ user' = IF req[r].kind = "register" THEN "exists" ELSE user
  BY <1>2 DEF Commits, InFlight, Broken, KnowsSound, Handlers, Tokenish
<1>4. /\ user' = "deleted" <=> user = "deleted"
      /\ user # "absent" => user' # "absent"
      /\ user = "exists" => user' = "exists"
  BY <1>2, <1>3 DEF KnowsSound
<1>5. \A q \in Requests : /\ req'[q].answered = req[q].answered /\ req'[q].kind = req[q].kind
                          /\ req'[q].presents = req[q].presents
                          /\ req'[q].revokes = req[q].revokes
                          /\ req[q].committed => req'[q].committed
                          /\ InFlight(q)' => InFlight(q)
                          /\ req'[q].pc \in {"writing", "returning"} => req'[q].pc = req[q].pc
  BY <1>1, <1>3 DEF InFlight
<1>6. \A t \in Requests : token'[t] = "none" => token[t] = "none"
  BY <1>1
<1>7. ASSUME NEW q \in Requests
      PROVE  RequestSound(q)'
  <2>1. CASE q = r
    BY <1>1, <1>2, <1>3, <2>1 DEF RequestSound, Kinds
  <2>2. CASE q # r
    <3>1. RequestSound(q)
      BY DEF SessionInv
    <3> QED BY <1>1, <1>4, <2>2, <3>1 DEF RequestSound
  <2> QED BY <2>1, <2>2
<1>8. ASSUME NEW q \in Requests
      PROVE  KnowsSound(q)'
  <2>1. KnowsSound(q) /\ req[q] \in Handlers
    BY <1>2 DEF SessionInv, TypeOK
  <2>2. req'[q].pc \in {"idle", "sent"} => req[q].pc = req'[q].pc
    BY <1>1, <1>3
  <2>3. req[q].presents # None => req[q].presents \in Requests
    BY <2>1 DEF Handlers, Tokenish
  <2> QED BY <1>1, <1>4, <1>5, <1>6, <2>1, <2>2, <2>3 DEF KnowsSound
<1>9. ASSUME NEW t \in Requests
      PROVE  TokenSound(t)'
  <2>1. TokenSound(t)
    BY DEF SessionInv
  <2>2. CASE t = r /\ req[r].kind # "logout"
    <3>1. token'[t] = "live" /\ user' = "exists" /\ req'[t].committed /\ req'[t].kind \in Mints
      BY <1>1, <1>3, <2>2 DEF Kinds, Mints
    <3> QED BY <3>1 DEF TokenSound
  <2>3. CASE ~(t = r /\ req[r].kind # "logout") /\ t = p /\ req[r].revokes
    <3>1. token'[t] = "revoked" /\ user # "deleted" /\ req[t].committed /\ req[t].kind \in Mints
      BY <1>1, <1>3, <2>1, <2>3 DEF TokenSound
    <3> QED BY <1>1, <1>4, <1>5, <2>3, <3>1 DEF TokenSound
  <2>4. CASE ~(t = r /\ req[r].kind # "logout") /\ ~(t = p /\ req[r].revokes)
    <3>1. token'[t] = token[t]
      BY <1>1, <2>4
    <3>2. ASSUME token[t] = "revoked"
          PROVE  \E g \in Requests : req'[g].presents = t /\ req'[g].committed
      BY <1>5, <2>1, <3>2 DEF TokenSound
    <3>3. req'[t].committed /\ req'[t].kind \in Mints => req[t].committed
      BY <1>1, <2>4 DEF Mints
    <3> QED BY <1>4, <1>5, <2>1, <3>1, <3>2, <3>3 DEF TokenSound
  <2> QED BY <2>2, <2>3, <2>4
<1>10. ASSUME NEW d \in Devices
       PROVE  JarSound(d)'
  <2>1. JarSound(d) /\ jar[d] \in Tokenish
    BY <1>2 DEF SessionInv, TypeOK
  <2> QED BY <1>1, <1>5, <2>1 DEF JarSound, Tokenish
<1> QED BY <1>1, <1>7, <1>8, <1>9, <1>10 DEF SessionInv

\* An answer, with the cookie it gives.
Answers(r, cookie) ==
    /\ cookie = IF req[r].kind = "logout" THEN None ELSE r
    /\ Answer(r, cookie)

LEMMA AnswersRecord ==
    ASSUME SessionInv, NEW r \in Requests, NEW cookie, Answers(r, cookie)
    PROVE  /\ req' \in [Requests -> Handlers]
           /\ req[r].pc = "returning" /\ ~req[r].answered
           /\ setting.commitFirst <=> req[r].committed
           /\ req'[r].answered = TRUE /\ req'[r].kind = req[r].kind
           /\ req'[r].presents = req[r].presents /\ req'[r].revokes = req[r].revokes
           /\ req'[r].committed = req[r].committed
           /\ req'[r].pc = IF setting.commitFirst THEN "done" ELSE "returning"
           /\ \A q \in Requests \ {r} : req'[q] = req[q]
           /\ setting' = setting /\ user' = user /\ token' = token /\ expired' = expired
           /\ origin' = origin /\ used' = used
           /\ Device[r] \in Devices /\ cookie \in Tokenish
           /\ \/ /\ jar' = [jar EXCEPT ![Device[r]] = cookie] /\ disturbed' = disturbed
              \/ jar' = jar /\ disturbed' = disturbed \cup {Device[r]}
           /\ TypeOK'
<1>1. /\ RequestSound(r) /\ req[r] \in Handlers /\ TypeOK /\ Device[r] \in Devices
      /\ cookie \in Tokenish
  BY SessionAssumption DEF SessionInv, TypeOK, Answers, Tokenish
<1>2. /\ req[r].pc = "returning" /\ ~req[r].answered
      /\ setting.commitFirst <=> req[r].committed
  BY <1>1 DEF Answers, Answer, RequestSound
<1> DEFINE new == [req[r] EXCEPT !.answered = TRUE,
                                 !.pc = IF setting.commitFirst THEN "done" ELSE @]
<1>3. req' = [req EXCEPT ![r] = new]
  BY <1>1 DEF Answers, Answer, TypeOK, Handlers
<1>4. /\ new \in Handlers /\ new.answered = TRUE /\ new.kind = req[r].kind
      /\ new.presents = req[r].presents /\ new.revokes = req[r].revokes
      /\ new.committed = req[r].committed
      /\ new.pc = IF setting.commitFirst THEN "done" ELSE "returning"
  BY <1>1, <1>2 DEF Handlers, Ended
<1> HIDE DEF new
<1>5. req' \in [Requests -> Handlers] /\ req'[r] = new /\ \A q \in Requests \ {r} : req'[q] = req[q]
  BY <1>1, <1>3, <1>4 DEF TypeOK
<1>6. /\ setting' = setting /\ user' = user /\ token' = token /\ expired' = expired
      /\ origin' = origin /\ used' = used
      /\ \/ /\ jar' = [jar EXCEPT ![Device[r]] = cookie] /\ disturbed' = disturbed
         \/ jar' = jar /\ disturbed' = disturbed \cup {Device[r]}
  BY DEF Answers, Answer
<1>7. TypeOK'
  BY <1>1, <1>5, <1>6 DEF TypeOK
<1> QED BY <1>1, <1>2, <1>4, <1>5, <1>6, <1>7

LEMMA AnswersKeep ==
    ASSUME SessionInv, NEW r \in Requests, NEW cookie, Answers(r, cookie)
    PROVE  SessionInv'
<1>1. /\ req' \in [Requests -> Handlers]
      /\ req[r].pc = "returning" /\ ~req[r].answered
      /\ setting.commitFirst <=> req[r].committed
      /\ req'[r].answered = TRUE /\ req'[r].kind = req[r].kind
      /\ req'[r].presents = req[r].presents /\ req'[r].revokes = req[r].revokes
      /\ req'[r].committed = req[r].committed
      /\ req'[r].pc = IF setting.commitFirst THEN "done" ELSE "returning"
      /\ \A q \in Requests \ {r} : req'[q] = req[q]
      /\ setting' = setting /\ user' = user /\ token' = token
      /\ Device[r] \in Devices
      /\ TypeOK'
  BY AnswersRecord
<1>2. /\ RequestSound(r) /\ KnowsSound(r) /\ req[r] \in Handlers /\ TypeOK
  BY DEF SessionInv, TypeOK
<1>3. /\ disturbed \subseteq disturbed'
      /\ \A d \in Devices : \/ jar'[d] = jar[d]
                            \/ d = Device[r] /\ jar'[d] = cookie
      /\ cookie = IF req[r].kind = "logout" THEN None ELSE r
      /\ Device[r] \notin disturbed' => jar'[Device[r]] = cookie
  <2>1. \/ /\ jar' = [jar EXCEPT ![Device[r]] = cookie] /\ disturbed' = disturbed
        \/ jar' = jar /\ disturbed' = disturbed \cup {Device[r]}
    BY AnswersRecord
  <2> QED BY <1>1, <1>2, <2>1 DEF TypeOK, Answers
<1>4. \A q \in Requests : /\ req[q].answered => req'[q].answered
                          /\ req'[q].kind = req[q].kind
                          /\ req'[q].presents = req[q].presents
                          /\ req'[q].committed = req[q].committed
  BY <1>1
<1>5. \A q \in Requests : /\ Device[q] \in Devices
                          /\ req[q].presents # None => /\ req[q].presents \in Requests
                                                       /\ req[q].presents # r
  BY <1>1, SessionAssumption DEF SessionInv, TypeOK, Handlers, Tokenish, KnowsSound
<1>6. ASSUME NEW q \in Requests
      PROVE  RequestSound(q)' /\ KnowsSound(q)'
  <2>1. RequestSound(q) /\ KnowsSound(q)
    BY DEF SessionInv
  <2>2. CASE q = r
    <3>1. RequestSound(q)'
      BY <1>1, <1>2, <2>2 DEF RequestSound
    <3>2. KnowsSound(q)'
      BY <1>1, <1>2, <1>3, <1>4, <1>5, <2>2 DEF KnowsSound, InFlight
    <3> QED BY <3>1, <3>2
  <2>3. CASE q # r
    <3>1. req'[q] = req[q]
      BY <1>1, <2>3
    <3>2. RequestSound(q)'
      BY <1>1, <1>3, <2>1, <3>1 DEF RequestSound
    <3>3. req[q].presents # None => jar'[Device[q]] = jar[Device[q]] \/ jar'[Device[q]] # req[q].presents
      BY <1>3, <1>5, SessionAssumption
    <3>4. KnowsSound(q)'
      BY <1>1, <1>3, <1>4, <1>5, <2>1, <3>1, <3>3 DEF KnowsSound, InFlight
    <3> QED BY <3>2, <3>4
  <2> QED BY <2>2, <2>3
<1>7. ASSUME NEW t \in Requests
      PROVE  TokenSound(t)'
  <2>1. TokenSound(t)
    BY DEF SessionInv
  <2> QED BY <1>1, <1>4, <2>1 DEF TokenSound
<1>8. ASSUME NEW d \in Devices
      PROVE  JarSound(d)'
  <2>1. JarSound(d) /\ jar[d] \in Tokenish
    BY <1>2 DEF SessionInv, TypeOK
  <2>2. CASE jar'[d] = jar[d]
    BY <1>4, <2>1, <2>2 DEF JarSound, Tokenish
  <2>3. CASE d = Device[r] /\ jar'[d] = cookie
    BY <1>1, <1>2, <1>3, <2>3 DEF JarSound, RequestSound, Handlers, Kinds, Mints
  <2> QED BY <1>3, <2>2, <2>3
<1> QED BY <1>1, <1>6, <1>7, <1>8 DEF SessionInv

LEMMA DeleteAccountKeeps ==
    ASSUME SessionInv, TabsInv, DeleteAccount
    PROVE  SessionInv' /\ TabsInv'
<1>1. /\ user = "exists" /\ user' = "deleted"
      /\ token' = [t \in Requests |-> "none"]
      /\ \A r \in Requests : ~(req[r].kind = "register" /\ InFlight(r))
      /\ UNCHANGED <<expired, jar, req, setting, origin, used, disturbed>>
  BY DEF DeleteAccount, history
<1>2. TypeOK'
  BY <1>1 DEF SessionInv, TypeOK
<1>3. ASSUME NEW r \in Requests
      PROVE  RequestSound(r)' /\ KnowsSound(r)' /\ TokenSound(r)'
  <2>1. RequestSound(r) /\ KnowsSound(r) /\ req' = req
    BY <1>1 DEF SessionInv
  <2>2. RequestSound(r)' /\ KnowsSound(r)'
    BY <1>1, <2>1 DEF RequestSound, KnowsSound, InFlight
  <2> QED BY <1>1, <2>2 DEF TokenSound
<1>4. ASSUME NEW d \in Devices
      PROVE  JarSound(d)'
  BY <1>1 DEF SessionInv, JarSound
<1>5. ASSUME TabInv PROVE TabInv'
  <2>1. \A t \in Requests : token'[t] = "none"
    BY <1>1
  <2>2. OneRequest' /\ OneLive'
    BY <1>1, <1>5, <2>1 DEF TabInv, OneRequest, OneLive, InFlight
  <2>3. ASSUME NEW r \in Requests
        PROVE  PresentsNewest(r)' /\ DescentSound(r)' /\ LoggedOut(r)'
    <3>1. PresentsNewest(r) /\ DescentSound(r) /\ req[r].presents \in Tokenish
      BY <1>5 DEF TabInv, SessionInv, TypeOK, Handlers
    <3>2. PresentsNewest(r)'
      BY <1>1, <2>1, <3>1 DEF PresentsNewest, InFlight, Tokenish
    <3>3. DescentSound(r)' /\ LoggedOut(r)'
      BY <1>1, <2>1, <3>1 DEF DescentSound, LoggedOut
    <3> QED BY <3>2, <3>3
  <2>4. ASSUME NEW d \in Devices
        PROVE  NewestKnown(d)'
    BY <2>1 DEF NewestKnown
  <2> QED BY <2>2, <2>3, <2>4 DEF TabInv
<1>6. OneAtATime' <=> OneAtATime
  BY <1>1 DEF OneAtATime
<1> QED BY <1>2, <1>3, <1>4, <1>5, <1>6 DEF SessionInv, TabsInv

LEMMA ExpireKeeps ==
    ASSUME SessionInv, TabsInv, NEW t \in Requests, Expire(t)
    PROVE  SessionInv' /\ TabsInv'
<1>1. /\ expired' = expired \cup {t}
      /\ UNCHANGED <<user, token, jar, req, setting, origin, used, disturbed>>
  BY DEF Expire, history
<1>2. SessionInv'
  BY <1>1 DEF SessionInv, TypeOK, RequestSound, KnowsSound, TokenSound, JarSound, InFlight
<1>3. TabsInv'
  BY <1>1 DEF TabsInv, OneAtATime, TabInv, OneRequest, OneLive, PresentsNewest, DescentSound,
     LoggedOut, NewestKnown, InFlight
<1> QED BY <1>2, <1>3

LEMMA CrashKeeps ==
    ASSUME SessionInv, TabsInv, Crash
    PROVE  SessionInv' /\ TabsInv'
<1>1. PICK dead \in SUBSET {r \in Requests : InFlight(r)} :
        /\ req' = [r \in Requests |-> IF r \in dead THEN [req[r] EXCEPT !.pc = "crashed"]
                                                    ELSE req[r]]
        /\ disturbed' = disturbed \cup {Device[r] : r \in dead}
        /\ UNCHANGED <<setting, user, token, expired, jar, origin, used>>
  BY DEF Crash
<1>2. ASSUME NEW r \in Requests
      PROVE  /\ req[r] \in Handlers /\ req'[r] \in Handlers
             /\ req'[r].kind = req[r].kind /\ req'[r].presents = req[r].presents
             /\ req'[r].revokes = req[r].revokes /\ req'[r].committed = req[r].committed
             /\ req'[r].answered = req[r].answered
             /\ \/ req'[r].pc = req[r].pc
                \/ req'[r].pc = "crashed" /\ Device[r] \in disturbed' /\ InFlight(r)
             /\ Device[r] \in Devices
             /\ req[r].presents # None => req[r].presents \in Requests
  <2>1. req[r] \in Handlers /\ Device[r] \in Devices
    BY SessionAssumption DEF SessionInv, TypeOK
  <2>2. CASE r \in dead
    BY <1>1, <2>1, <2>2 DEF Handlers, Ended, Tokenish
  <2>3. CASE r \notin dead
    BY <1>1, <2>1, <2>3 DEF Handlers, Tokenish
  <2> QED BY <2>2, <2>3
<1>3. disturbed \subseteq disturbed' /\ disturbed' \subseteq Devices
  BY <1>1, SessionAssumption DEF SessionInv, TypeOK
<1>4. TypeOK'
  <2>1. req' \in [Requests -> Handlers]
    BY <1>1, <1>2
  <2> QED BY <1>1, <1>3, <2>1 DEF SessionInv, TypeOK
<1>5. ASSUME NEW r \in Requests
      PROVE  RequestSound(r)' /\ KnowsSound(r)' /\ TokenSound(r)'
  <2>1. RequestSound(r) /\ KnowsSound(r) /\ TokenSound(r)
    BY DEF SessionInv
  <2>2. RequestSound(r)'
    BY <1>1, <1>2, <1>3, <2>1 DEF RequestSound, InFlight
  <2>5. req[r].presents # None =>
          /\ req'[req[r].presents].answered = req[req[r].presents].answered
          /\ req'[req[r].presents].kind = req[req[r].presents].kind
    BY <1>2
  <2>6. /\ req'[r].pc \in {"idle", "sent", "writing", "returning"} => req'[r].pc = req[r].pc
        /\ InFlight(r)' => InFlight(r)
    BY <1>2 DEF InFlight
  <2>3. KnowsSound(r)'
    BY <1>1, <1>2, <1>3, <2>1, <2>5, <2>6 DEF KnowsSound
  <2>4. TokenSound(r)'
    BY <1>1, <1>2, <2>1 DEF TokenSound
  <2> QED BY <2>2, <2>3, <2>4
<1>6. ASSUME NEW d \in Devices
      PROVE  JarSound(d)'
  BY <1>1, <1>2 DEF SessionInv, JarSound, TypeOK, Tokenish
<1>7. \A r \in Requests : InFlight(r)' => InFlight(r) /\ req'[r].pc = req[r].pc
  BY <1>2 DEF InFlight
<1>8. ASSUME TabInv, OneAtATime PROVE TabInv'
  <2>1. OneRequest' /\ OneLive'
    BY <1>1, <1>7, <1>8 DEF TabInv, OneRequest, OneLive
  <2>2. ASSUME NEW r \in Requests
        PROVE  PresentsNewest(r)' /\ DescentSound(r)' /\ LoggedOut(r)'
    <3>1. PresentsNewest(r) /\ DescentSound(r) /\ LoggedOut(r)
      BY <1>8 DEF TabInv
    <3>2. PresentsNewest(r)'
      BY <1>1, <1>2, <1>7, <3>1 DEF PresentsNewest
    <3>3. DescentSound(r)' /\ LoggedOut(r)'
      BY <1>1, <1>2, <1>3, <3>1 DEF DescentSound, LoggedOut
    <3> QED BY <3>2, <3>3
  <2>3. ASSUME NEW d \in Devices
        PROVE  NewestKnown(d)'
    <3>1. NewestKnown(d) /\ JarSound(d)
      BY <1>8 DEF TabInv, SessionInv
    <3>2. SUFFICES ASSUME d \notin disturbed', jar[d] # None, NEW t \in Requests,
                          token[t] = "live", origin[t] = origin[jar[d]]
                   PROVE  t = jar[d] \/ (InFlight(t)' /\ req'[t].committed)
      BY <1>1 DEF NewestKnown
    <3>3. CASE InFlight(t) /\ req[t].committed
      <4>1. /\ jar[d] \in Requests /\ Device[jar[d]] = d
            /\ DescentSound(t) /\ DescentSound(jar[d]) /\ TokenSound(t)
        BY <1>8, <3>1, <3>2 DEF JarSound, TabInv, SessionInv, TypeOK, Tokenish
      <4>2. origin[t] # None
        BY <3>2, <4>1 DEF TokenSound, DescentSound
      <4>3. Device[t] = d
        BY <3>2, <4>1, <4>2 DEF DescentSound
      <4> QED BY <1>2, <3>2, <3>3, <4>3 DEF InFlight
    <3> QED BY <1>3, <3>1, <3>2, <3>3 DEF NewestKnown
  <2> QED BY <2>1, <2>2, <2>3 DEF TabInv
<1>9. OneAtATime' <=> OneAtATime
  BY <1>1 DEF OneAtATime
<1> QED BY <1>4, <1>5, <1>6, <1>8, <1>9 DEF SessionInv, TabsInv

-----------------------------------------------------------------------------
(* What a commit and an answer keep of TabInv. *)

\* r is the only request of its device, so what it read is still true.
LEMMA CommitsNewest ==
    ASSUME SessionInv, TabInv, OneAtATime, NEW r \in Requests, Commits(r)
    PROVE  LET p == req[r].presents
               mints == req[r].kind \in Mints
           IN  /\ origin[r] = None /\ used[r] = 0
               /\ \A t \in Requests : origin[t] # r
               /\ \A q \in Requests \ {r} : InFlight(q) => Device[q] # Device[r]
               /\ p # None => p \in Requests /\ p # r /\ p = jar[Device[r]] /\ Device[p] = Device[r]
               /\ req[r].kind = "refresh" =>
                     /\ p # None /\ req[r].revokes /\ token[p] = "live"
                     /\ origin[p] # None /\ used[p] = 0
               /\ ~req[r].revokes /\ p # None => token[p] # "live"
               /\ \A t \in Requests \ {r} : origin'[t] = origin[t]
               /\ origin'[r] = IF req[r].kind \in {"register", "login"} THEN r
                               ELSE IF req[r].kind = "refresh" THEN origin[p] ELSE None
               /\ \A t \in Requests :
                     used'[t] = IF req[r].kind = "refresh" /\ t = p THEN 1 ELSE used[t]
               /\ \A t \in Requests : token'[t] = "live" =>
                     \/ t = r /\ mints
                     \/ t # r /\ token[t] = "live" /\ ~(t = p /\ req[r].revokes)
<1> DEFINE p == req[r].presents
<1>1. /\ RequestSound(r) /\ KnowsSound(r) /\ PresentsNewest(r) /\ DescentSound(r)
      /\ TokenSound(r) /\ TypeOK
      /\ req[r] \in Handlers
  BY DEF SessionInv, TabInv, TypeOK
<1>2. /\ req[r].pc = "returning" /\ ~req[r].committed /\ ~req[r].answered /\ InFlight(r)
      /\ req[r].kind \in Kinds
  BY <1>1 DEF Commits, RequestSound, InFlight, Handlers, OneAtATime
<1>3. origin[r] = None /\ used[r] = 0
  BY <1>1, <1>2 DEF DescentSound, TypeOK
<1>4. ASSUME NEW t \in Requests PROVE origin[t] # r
  <2>1. DescentSound(t)
    BY DEF TabInv
  <2> QED BY <1>3, <2>1, SessionAssumption DEF DescentSound
<1>5. \A q \in Requests \ {r} : InFlight(q) => Device[q] # Device[r]
  BY <1>2 DEF TabInv, OneRequest
<1>6. p # None => /\ p \in Requests /\ p # r /\ p = jar[Device[r]] /\ Device[p] = Device[r]
                  /\ req[r].kind = "refresh" => token[p] # "revoked"
                  /\ ~req[r].revokes => token[p] # "live"
  BY <1>1, <1>2 DEF PresentsNewest, KnowsSound, Handlers, Tokenish
<1>7. req[r].kind = "refresh" => /\ p # None /\ req[r].revokes /\ token[p] = "live"
  BY <1>1, <1>2, <1>6 DEF Commits, Broken, RequestSound, KnowsSound, Presents, TypeOK
<1>8. req[r].kind = "refresh" => origin[p] # None /\ used[p] = 0
  <2>1. SUFFICES ASSUME req[r].kind = "refresh" PROVE origin[p] # None /\ used[p] = 0
    OBVIOUS
  <2>2. p \in Requests /\ TokenSound(p) /\ DescentSound(p) /\ used[p] \in Nat
    BY <1>6, <1>7, <2>1 DEF SessionInv, TabInv, TypeOK
  <2> QED BY <1>7, <2>1, <2>2 DEF TokenSound, DescentSound
<1>9. /\ \A t \in Requests \ {r} : origin'[t] = origin[t]
      /\ origin'[r] = IF req[r].kind \in {"register", "login"} THEN r
                      ELSE IF req[r].kind = "refresh" THEN origin[p] ELSE None
  <2>1. CASE req[r].kind \in {"register", "login"}
    BY <1>1, <2>1 DEF Commits, TypeOK
  <2>2. CASE req[r].kind = "refresh"
    BY <1>1, <2>2 DEF Commits, TypeOK
  <2>3. CASE req[r].kind = "logout"
    BY <1>1, <1>3, <2>3 DEF Commits, TypeOK
  <2> QED BY <1>2, <2>1, <2>2, <2>3 DEF Kinds
<1>10. \A t \in Requests : used'[t] = IF req[r].kind = "refresh" /\ t = p THEN 1 ELSE used[t]
  BY <1>1, <1>6, <1>7, <1>8 DEF Commits, TypeOK
<1>11. token[r] # "live"
  BY <1>1, <1>2 DEF TokenSound
<1>12. ASSUME NEW t \in Requests, token'[t] = "live"
       PROVE  \/ t = r /\ req[r].kind \in Mints
              \/ t # r /\ token[t] = "live" /\ ~(t = p /\ req[r].revokes)
  <2>1. token'[t] = IF t = r /\ req[r].kind # "logout" THEN "live"
                    ELSE IF t = p /\ req[r].revokes THEN "revoked"
                    ELSE token[t]
    BY CommitsRecord
  <2> QED BY <1>2, <1>11, <1>12, <2>1 DEF Kinds, Mints
<1> QED BY <1>3, <1>4, <1>5, <1>6, <1>7, <1>8, <1>9, <1>10, <1>12

LEMMA CommitsKeepTabs ==
    ASSUME SessionInv, TabInv, OneAtATime, NEW r \in Requests, Commits(r)
    PROVE  TabInv'
<1> DEFINE p == req[r].presents
           d == Device[r]
<1>1. /\ req' \in [Requests -> Handlers]
      /\ req'[r].committed = TRUE /\ req'[r].kind = req[r].kind
      /\ req'[r].presents = p /\ req'[r].revokes = req[r].revokes
      /\ req'[r].pc = "returning" /\ ~req'[r].answered
      /\ \A q \in Requests \ {r} : req'[q] = req[q]
      /\ setting' = setting /\ jar' = jar /\ disturbed' = disturbed
      /\ req[r].kind \in Kinds /\ ~req[r].committed /\ ~req[r].answered
  BY CommitsRecord DEF OneAtATime, Commits
<1>2. /\ origin[r] = None /\ used[r] = 0
      /\ \A t \in Requests : origin[t] # r
      /\ \A q \in Requests \ {r} : InFlight(q) => Device[q] # d
      /\ p # None => p \in Requests /\ p # r /\ p = jar[d] /\ Device[p] = d
      /\ req[r].kind = "refresh" =>
            /\ p # None /\ req[r].revokes /\ token[p] = "live"
            /\ origin[p] # None /\ used[p] = 0
      /\ ~req[r].revokes /\ p # None => token[p] # "live"
      /\ \A t \in Requests \ {r} : origin'[t] = origin[t]
      /\ origin'[r] = IF req[r].kind \in {"register", "login"} THEN r
                      ELSE IF req[r].kind = "refresh" THEN origin[p] ELSE None
      /\ \A t \in Requests : used'[t] = IF req[r].kind = "refresh" /\ t = p THEN 1 ELSE used[t]
      /\ \A t \in Requests : token'[t] = "live" =>
            \/ t = r /\ req[r].kind \in Mints
            \/ t # r /\ token[t] = "live" /\ ~(t = p /\ req[r].revokes)
  BY CommitsNewest
<1>3. /\ d \in Devices /\ InFlight(r)
      /\ \A q \in Requests : /\ InFlight(q)' <=> InFlight(q)
                             /\ req[q].presents # None => /\ req[q].presents \in Requests
                                                          /\ req[q].presents # r
                                                          /\ Device[req[q].presents] = Device[q]
  BY <1>1, SessionAssumption
  DEF InFlight, Commits, SessionInv, TypeOK, Handlers, Tokenish, KnowsSound
<1> HIDE DEF p, d
<1>4. OneRequest'
  BY <1>3 DEF TabInv, OneRequest
<1>5. ASSUME NEW b \in Requests, b # r, token'[b] = "live", token'[r] = "live"
      PROVE  origin'[r] # origin'[b]
  <2>1. /\ token[b] = "live" /\ ~(b = p /\ req[r].revokes) /\ req[r].kind \in Mints
        /\ origin'[b] = origin[b]
    BY <1>2, <1>5
  <2>2. CASE req[r].kind \in {"register", "login"}
    BY <1>2, <2>1, <2>2
  <2>3. CASE req[r].kind = "refresh"
    <3>1. origin'[r] = origin[p] /\ token[p] = "live" /\ p # b /\ p \in Requests
      BY <1>2, <2>1, <2>3
    <3> QED BY <2>1, <3>1 DEF TabInv, OneLive
  <2> QED BY <2>1, <2>2, <2>3 DEF Mints
<1>6. OneLive'
  <2> SUFFICES ASSUME NEW a \in Requests, NEW b \in Requests, token'[a] = "live",
                      token'[b] = "live", origin'[a] = origin'[b], a # b
               PROVE  FALSE
    BY DEF OneLive
  <2>1. a # r /\ b # r
    BY <1>5
  <2>2. token[a] = "live" /\ token[b] = "live" /\ origin[a] = origin[b]
    BY <1>2, <2>1
  <2> QED BY <2>2 DEF TabInv, OneLive
<1>7. ASSUME NEW t \in Requests
      PROVE  DescentSound(t)'
  <2>1. DescentSound(t) /\ origin[t] \in Tokenish /\ used[t] \in Nat
    BY DEF TabInv, SessionInv, TypeOK
  <2>2. CASE t = r
    <3>1. used'[t] = 0
      BY <1>2, <2>2
    <3>2. CASE req[r].kind = "logout"
      BY <1>1, <1>2, <2>2, <3>1, <3>2 DEF DescentSound, Mints
    <3>3. CASE req[r].kind \in {"register", "login"}
      BY <1>1, <1>2, <2>2, <3>1, <3>3, SessionAssumption DEF DescentSound, Mints
    <3>4. CASE req[r].kind = "refresh"
      <4>1. DescentSound(p) /\ p \in Requests /\ origin[p] \in Requests
        BY <1>2, <3>4 DEF TabInv, SessionInv, TypeOK, Tokenish
      <4>2. /\ Device[origin[p]] = d /\ origin[origin[p]] = origin[p]
            /\ origin'[origin[p]] = origin[p]
        BY <1>2, <3>4, <4>1 DEF DescentSound
      <4> QED BY <1>1, <1>2, <2>2, <3>1, <3>4, <4>2 DEF DescentSound, Mints, d
    <3> QED BY <1>1, <3>2, <3>3, <3>4 DEF Kinds
  <2>3. CASE t # r
    <3>1. req'[t] = req[t] /\ origin'[t] = origin[t]
      BY <1>1, <1>2, <2>3
    <3>2. origin[t] # None => origin'[origin[t]] = origin[origin[t]]
      BY <1>2, <2>1 DEF Tokenish
    <3>3. CASE req[r].kind = "refresh" /\ t = p
      BY <1>2, <2>1, <2>3, <3>1, <3>2, <3>3 DEF DescentSound
    <3>4. CASE ~(req[r].kind = "refresh" /\ t = p)
      BY <1>2, <2>1, <2>3, <3>1, <3>2, <3>4 DEF DescentSound
    <3> QED BY <3>3, <3>4
  <2> QED BY <2>2, <2>3
<1>8. ASSUME NEW q \in Requests
      PROVE  PresentsNewest(q)'
  <2>1. PresentsNewest(q)
    BY DEF TabInv
  <2>2. CASE q = r
    BY <1>1, <1>2, <2>2 DEF PresentsNewest, d
  <2>3. CASE q # r
    <3>1. SUFFICES ASSUME InFlight(q), req[q].presents # None
                   PROVE  /\ token'[req[q].presents] = token[req[q].presents]
                          /\ req'[q] = req[q]
      BY <1>1, <1>3, <2>1, <2>3 DEF PresentsNewest
    <3>2. Device[q] # d /\ req[q].presents \in Requests /\ Device[req[q].presents] = Device[q]
      BY <1>2, <1>3, <2>3, <3>1
    <3>3. req[q].presents # r /\ req[q].presents # p
      BY <1>2, <3>2, SessionAssumption, <3>1 DEF d
    <3>4. token'[req[q].presents] = token[req[q].presents]
      BY <3>2, <3>3, CommitsRecord DEF p
    <3> QED BY <1>1, <2>3, <3>4
  <2> QED BY <2>2, <2>3
<1>9. ASSUME NEW e \in Devices
      PROVE  NewestKnown(e)'
  <2>1. SUFFICES ASSUME e \notin disturbed, jar[e] # None, NEW t \in Requests,
                        token'[t] = "live", origin'[t] = origin'[jar[e]]
                 PROVE  t = jar[e] \/ (InFlight(t)' /\ req'[t].committed)
    BY <1>1 DEF NewestKnown
  <2>2. CASE t = r
    BY <1>1, <1>3, <2>2
  <2>3. CASE t # r
    <3>1. jar[e] \in Requests /\ jar[e] # r
      BY <1>1, <2>1 DEF SessionInv, JarSound, TypeOK, Tokenish
    <3>2. token[t] = "live" /\ origin[t] = origin[jar[e]]
      BY <1>2, <2>1, <2>3, <3>1
    <3>3. t = jar[e] \/ (InFlight(t) /\ req[t].committed)
      BY <2>1, <3>2 DEF TabInv, NewestKnown
    <3> QED BY <1>1, <1>3, <2>3, <3>3
  <2> QED BY <2>2, <2>3
<1>10. ASSUME NEW q \in Requests
       PROVE  LoggedOut(q)'
  <2>1. SUFFICES ASSUME req[q].kind = "logout", req'[q].committed, Device[q] \notin disturbed,
                        NEW t \in Requests, origin'[t] = origin'[req[q].presents],
                        origin'[t] # None, token'[t] = "live"
                 PROVE  FALSE
    BY <1>1 DEF LoggedOut, p
  <2>2. req[q].presents \in Requests /\ req[q].presents # r
    <3>1. RequestSound(q)
      BY DEF SessionInv
    <3> QED BY <1>3, <2>1, <3>1 DEF RequestSound, Presents
  <2>3. origin'[req[q].presents] = origin[req[q].presents]
    BY <1>2, <2>2
  <2>4. CASE q = r
    <3>1. t # r /\ token[t] = "live" /\ origin[t] = origin[p] /\ origin[t] # None
      BY <1>2, <2>1, <2>3, <2>4 DEF Mints, p
    <3>2. p = jar[d] /\ p # None /\ d \notin disturbed
      BY <1>2, <2>1, <2>2, <2>4, SessionAssumption DEF p, d
    <3>3. t = p \/ (InFlight(t) /\ req[t].committed)
      BY <1>3, <3>1, <3>2 DEF TabInv, NewestKnown
    <3>4. Device[t] = d
      <4>1. DescentSound(t) /\ DescentSound(p)
        BY <1>2, <3>2 DEF TabInv
      <4> QED BY <1>2, <3>1, <3>2, <4>1 DEF DescentSound
    <3>5. t = p
      BY <1>2, <3>1, <3>3, <3>4
    <3> QED BY <1>2, <2>1, <3>1, <3>2, <3>5
  <2>5. CASE q # r
    <3>1. req[q].committed /\ LoggedOut(q)
      BY <1>1, <2>1, <2>5 DEF TabInv
    <3>2. CASE t # r
      BY <1>2, <2>1, <2>3, <3>1, <3>2 DEF LoggedOut
    <3>3. CASE t = r /\ req[r].kind = "refresh"
      <4>1. token[p] = "live" /\ origin[p] = origin[req[q].presents] /\ origin[p] # None
            /\ p \in Requests
        BY <1>2, <2>1, <2>3, <3>3
      <4> QED BY <2>1, <3>1, <4>1 DEF LoggedOut
    <3>4. CASE t = r /\ req[r].kind # "refresh"
      BY <1>2, <2>1, <2>2, <2>3, <3>4
    <3> QED BY <3>2, <3>3, <3>4
  <2> QED BY <2>4, <2>5
<1> QED BY <1>4, <1>6, <1>7, <1>8, <1>9, <1>10 DEF TabInv

LEMMA AnswersKeepTabs ==
    ASSUME SessionInv, TabInv, OneAtATime, NEW r \in Requests, NEW cookie, Answers(r, cookie)
    PROVE  TabInv'
<1> DEFINE d == Device[r]
<1>1. /\ req' \in [Requests -> Handlers]
      /\ req[r].pc = "returning" /\ ~req[r].answered /\ req[r].committed
      /\ req'[r].kind = req[r].kind /\ req'[r].presents = req[r].presents
      /\ req'[r].committed = req[r].committed /\ req'[r].pc = "done"
      /\ \A q \in Requests \ {r} : req'[q] = req[q]
      /\ setting' = setting /\ user' = user /\ token' = token
      /\ origin' = origin /\ used' = used /\ d \in Devices
  BY AnswersRecord DEF OneAtATime
<1>2. /\ disturbed \subseteq disturbed'
      /\ \A e \in Devices : jar'[e] = jar[e] \/ e = d
      /\ d \notin disturbed' => jar'[d] = IF req[r].kind = "logout" THEN None ELSE r
  <2>1. /\ \/ /\ jar' = [jar EXCEPT ![d] = cookie] /\ disturbed' = disturbed
           \/ jar' = jar /\ disturbed' = disturbed \cup {d}
        /\ cookie = IF req[r].kind = "logout" THEN None ELSE r
    BY AnswersRecord DEF Answers
  <2> QED BY <1>1, <2>1 DEF SessionInv, TypeOK
<1>3. /\ InFlight(r) /\ ~InFlight(r)'
      /\ \A q \in Requests \ {r} : /\ InFlight(q)' <=> InFlight(q)
                                   /\ InFlight(q) => Device[q] # d
      /\ \A q \in Requests : Device[q] \in Devices
  BY <1>1, SessionAssumption DEF InFlight, TabInv, OneRequest
<1>4. OneRequest' /\ OneLive'
  BY <1>1, <1>3 DEF TabInv, OneRequest, OneLive
<1>5. ASSUME NEW q \in Requests
      PROVE  PresentsNewest(q)' /\ DescentSound(q)' /\ LoggedOut(q)'
  <2>1. PresentsNewest(q) /\ DescentSound(q) /\ LoggedOut(q)
    BY DEF TabInv
  <2>5. /\ req'[q].kind = req[q].kind /\ req'[q].presents = req[q].presents
        /\ req'[q].committed = req[q].committed
    BY <1>1
  <2>6. DescentSound(q)'
    BY <1>1, <2>1, <2>5 DEF DescentSound
  <2>2. DescentSound(q)' /\ LoggedOut(q)'
    BY <1>1, <1>2, <2>1, <2>5, <2>6 DEF LoggedOut
  <2>3. CASE q = r
    BY <1>3, <2>2, <2>3 DEF PresentsNewest
  <2>4. CASE q # r
    <3>1. req'[q] = req[q] /\ (InFlight(q)' => InFlight(q) /\ jar'[Device[q]] = jar[Device[q]])
      BY <1>1, <1>2, <1>3, <2>4
    <3>2. PresentsNewest(q)'
      BY <1>1, <2>1, <3>1 DEF PresentsNewest
    <3> QED BY <2>2, <3>2
  <2> QED BY <2>3, <2>4
\* The newest token, now in the jar, is the one that is live.
<1>6. ASSUME req[r].kind # "logout", NEW t \in Requests, token[t] = "live",
             origin[t] = origin[r]
      PROVE  t = r
  <2>1. /\ TokenSound(r) /\ TokenSound(t) /\ req[r].kind \in Mints
        /\ token[r] \in {"none", "live", "revoked"}
    BY <1>1, <1>6 DEF SessionInv, TypeOK, RequestSound, Handlers, Kinds, Mints
  <2>2. token[r] # "none"
    BY <1>1, <1>6, <2>1 DEF TokenSound
  <2>3. token[r] # "revoked"
    <3>1. SUFFICES ASSUME token[r] = "revoked" PROVE FALSE
      OBVIOUS
    <3>2. PICK g \in Requests : req[g].presents = r /\ req[g].committed
      BY <2>1, <3>1 DEF TokenSound
    <3>3. KnowsSound(g)
      BY DEF SessionInv
    <3> QED BY <1>1, <3>2, <3>3, SessionAssumption DEF KnowsSound
  <2> QED BY <1>6, <2>1, <2>2, <2>3 DEF TabInv, OneLive
<1>7. ASSUME NEW e \in Devices
      PROVE  NewestKnown(e)'
  <2>1. SUFFICES ASSUME e \notin disturbed', jar'[e] # None, NEW t \in Requests,
                        token[t] = "live", origin[t] = origin[jar'[e]]
                 PROVE  t = jar'[e] \/ (InFlight(t)' /\ req'[t].committed)
    BY <1>1 DEF NewestKnown
  <2>2. CASE e = d
    BY <1>2, <1>6, <2>1, <2>2
  <2>3. CASE e # d
    <3>1. jar'[e] = jar[e] /\ NewestKnown(e) /\ JarSound(e) /\ jar[e] \in Tokenish
      BY <1>2, <2>3 DEF TabInv, SessionInv, TypeOK
    <3>2. t = jar[e] \/ (InFlight(t) /\ req[t].committed)
      BY <1>2, <2>1, <3>1 DEF NewestKnown
    <3>3. Device[t] = e
      <4>1. /\ jar[e] \in Requests /\ Device[jar[e]] = e /\ TokenSound(t)
            /\ DescentSound(t) /\ DescentSound(jar[e])
        BY <2>1, <3>1 DEF JarSound, Tokenish, TabInv, SessionInv
      <4>2. origin[t] # None
        BY <2>1, <4>1 DEF TokenSound, DescentSound
      <4> QED BY <2>1, <3>1, <4>1, <4>2 DEF DescentSound
    <3> QED BY <1>1, <1>3, <2>3, <3>1, <3>2, <3>3
  <2> QED BY <2>2, <2>3
<1> QED BY <1>4, <1>5, <1>7 DEF TabInv
-----------------------------------------------------------------------------
(* The theorems. *)

LEMMA InitHolds == Init => SessionInv /\ TabsInv
<1> SUFFICES ASSUME Init PROVE SessionInv /\ TabsInv
  OBVIOUS
<1>1. /\ \A r \in Requests : req[r] = Fresh /\ token[r] = "none" /\ origin[r] = None
                             /\ used[r] = 0
      /\ \A d \in Devices : jar[d] = None
      /\ user # "deleted"
  BY DEF Init
<1>2. TypeOK
  BY FreshRequest DEF Init, TypeOK, Tokenish
<1>3. \A r \in Requests : RequestSound(r) /\ KnowsSound(r) /\ TokenSound(r)
  BY <1>1, FreshRequest DEF RequestSound, KnowsSound, TokenSound, InFlight, Presents, Mints
<1>4. \A d \in Devices : JarSound(d)
  BY <1>1 DEF JarSound
<1>5. \A r \in Requests : ~InFlight(r)
  BY <1>1, FreshRequest DEF InFlight
<1>6. TabInv
  BY <1>1, <1>5, FreshRequest DEF TabInv, OneRequest, OneLive, PresentsNewest, DescentSound,
     LoggedOut, NewestKnown, Mints
<1> QED BY <1>2, <1>3, <1>4, <1>6 DEF SessionInv, TabsInv

LEMMA CommitKeeps ==
    ASSUME SessionInv, TabsInv, NEW r \in Requests, Commit(r)
    PROVE  SessionInv' /\ TabsInv'
<1>1. CASE Commits(r)
  <2>1. OneAtATime' <=> OneAtATime
    BY <1>1 DEF Commits, OneAtATime
  <2> QED BY <1>1, <2>1, CommitsKeep, CommitsKeepTabs DEF TabsInv
<1>2. CASE ~Commits(r)
  BY <1>2, CommitCases, BrokenMoves, SoundMovesKeep DEF SessionInv
<1> QED BY <1>1, <1>2

LEMMA AnswerKeeps ==
    ASSUME SessionInv, TabsInv, NEW r \in Requests, AnswerSession(r) \/ AnswerLogout(r)
    PROVE  SessionInv' /\ TabsInv'
<1>1. PICK cookie \in {None, r} : Answers(r, cookie)
  BY DEF AnswerSession, AnswerLogout, Answers
<1>2. OneAtATime' <=> OneAtATime
  BY <1>1 DEF Answers, Answer, OneAtATime
<1> QED BY <1>1, <1>2, AnswersKeep, AnswersKeepTabs DEF TabsInv

LEMMA HandleKeeps ==
    ASSUME SessionInv, TabsInv, NEW r \in Requests, Handle(r)
    PROVE  SessionInv' /\ TabsInv'
<1>1. CASE ReadUser(r)
  BY <1>1, ReadUserMoves, SoundMovesKeep
<1>2. CASE ReadToken(r)
  BY <1>2, ReadTokenMoves, SoundMovesKeep
<1>3. CASE Logout(r)
  BY <1>3, LogoutMoves, SoundMovesKeep
<1>4. CASE AddUser(r)
  BY <1>4, AddUserMoves, SoundMovesKeep
<1>5. CASE RevokeOld(r)
  BY <1>5, RevokeOldMoves, SoundMovesKeep
<1>6. CASE Commit(r)
  BY <1>6, CommitKeeps
<1>7. CASE AnswerSession(r) \/ AnswerLogout(r)
  BY <1>7, AnswerKeeps
<1> QED BY <1>1, <1>2, <1>3, <1>4, <1>5, <1>6, <1>7 DEF Handle

LEMMA InvariantHolds == Spec => [](SessionInv /\ TabsInv)
<1>1. SessionInv /\ TabsInv /\ [Next]_vars => SessionInv' /\ TabsInv'
  <2> SUFFICES ASSUME SessionInv, TabsInv, [Next]_vars PROVE SessionInv' /\ TabsInv'
    OBVIOUS
  <2>1. CASE UNCHANGED vars
    BY <2>1 DEF vars, history, SessionInv, TypeOK, RequestSound, KnowsSound, TokenSound,
       JarSound, InFlight, TabsInv, OneAtATime, TabInv, OneRequest, OneLive, PresentsNewest,
       DescentSound, LoggedOut, NewestKnown
  <2>2. ASSUME NEW r \in Requests, NEW kind \in Kinds, Send(r, kind)
        PROVE  SessionInv' /\ TabsInv'
    BY <2>2, SendKeeps
  <2>3. ASSUME NEW r \in Requests, Handle(r) \/ Expire(r)
        PROVE  SessionInv' /\ TabsInv'
    BY <2>3, HandleKeeps, ExpireKeeps
  <2> QED BY <2>1, <2>2, <2>3, DeleteAccountKeeps, CrashKeeps DEF Next
<1> QED BY <1>1, InitHolds, PTL DEF Spec

(* The rows, the handlers and the cookies have their types.                *)
THEOREM TypeCorrect == Spec => []TypeOK
BY InvariantHolds, PTL DEF SessionInv

(* No session outlives the account (models/user.py:74, auth.py:556): the   *)
(* tokens go with it, and the foreign key and the row count turn away the  *)
(* commits that come later, whatever they read before.                     *)
THEOREM EndWithAccount == Spec => []SessionsEndWithAccount
<1>1. SessionInv => SessionsEndWithAccount
  BY DEF SessionInv, TokenSound, SessionsEndWithAccount
<1> QED BY <1>1, InvariantHolds, PTL

(* A device that has all its answers holds a cookie it can go on with      *)
(* (auth.py:375), in whatever order its tabs were answered, committed       *)
(* before the answer or after it: a token is revoked by a request that had *)
(* it from the jar, and that request's answer has replaced it.             *)
THEOREM CookieUsable == Spec => []JarUsable
<1>1. SessionInv => JarUsable
  <2> SUFFICES ASSUME SessionInv, NEW d \in Devices, jar[d] # None, user = "exists",
                      d \notin disturbed, \A r \in Requests : Device[r] = d => ~InFlight(r)
               PROVE  token[jar[d]] = "live"
    BY DEF JarUsable
  <2> DEFINE t == jar[d]
  <2>1. /\ t \in Requests /\ Device[t] = d /\ req[t].answered /\ req[t].kind \in Mints
        /\ RequestSound(t) /\ TokenSound(t) /\ ~InFlight(t) /\ req[t] \in Handlers
        /\ token[t] \in {"none", "live", "revoked"}
    BY DEF SessionInv, TypeOK, Tokenish, JarSound
  <2>2. req[t].committed
    BY <2>1 DEF RequestSound, InFlight, Handlers
  <2>3. token[t] # "none"
    BY <2>1, <2>2 DEF TokenSound
  <2>4. token[t] # "revoked"
    <3>1. SUFFICES ASSUME token[t] = "revoked" PROVE FALSE
      OBVIOUS
    <3>2. PICK g \in Requests : req[g].presents = t /\ req[g].committed
      BY <2>1, <3>1 DEF TokenSound
    <3>3. KnowsSound(g) /\ RequestSound(g) /\ req[g] \in Handlers
      BY DEF SessionInv, TypeOK
    <3>4. Device[g] = d
      BY <2>1, <3>2, <3>3 DEF KnowsSound
    <3>5. req[g].answered
      BY <3>2, <3>3, <3>4 DEF RequestSound, InFlight
    <3> QED BY <2>1, <3>2, <3>3, <3>4, <3>5 DEF KnowsSound
  <2> QED BY <2>1, <2>3, <2>4
<1> QED BY <1>1, InvariantHolds, PTL

(* A committed logout ends its login (auth.py:419): the cookie it came with *)
(* was the only live token of the login, and nothing descends from a login *)
(* that has none.                                                           *)
THEOREM LogoutEndsLogin == Spec => []LogoutEnds
<1>1. SessionInv /\ TabsInv => LogoutEnds
  BY DEF SessionInv, TabsInv, TabInv, LoggedOut, LogoutEnds
<1> QED BY <1>1, InvariantHolds, PTL
-----------------------------------------------------------------------------
(* Rotation (auth.py:351), seen from outside.  What LoginSession's variables *)
(* stand for where a device waits for each answer and each answer for its    *)
(* commit: *)
Credential == [l \in Requests |-> IF OneAtATime THEN Live(l) ELSE {}]
Spent == {t \in Requests : OneAtATime /\ origin[t] # None /\ token[t] # "live"}
Exchanged == [t \in Requests |-> IF OneAtATime THEN used[t] ELSE 0]
Closed == OneAtATime /\ user = "deleted"

\* A token that can be exchanged is the one of its login.
LEMMA OneCredential ==
    ASSUME SessionInv, TabInv, OneAtATime, NEW t \in Requests, token[t] = "live"
    PROVE  origin[t] \in Requests /\ Credential[origin[t]] = {t}
<1>1. DescentSound(t) /\ TokenSound(t) /\ origin[t] \in Tokenish
  BY DEF SessionInv, TabInv, TypeOK
<1>2. origin[t] \in Requests
  BY <1>1 DEF DescentSound, TokenSound, Tokenish
<1>3. Live(origin[t]) = {t}
  BY DEF Live, TabInv, OneLive
<1> QED BY <1>2, <1>3 DEF Credential

\* A token that is yet to be minted is new.
LEMMA NotMinted ==
    ASSUME SessionInv, NEW r \in Requests, ~req[r].committed, origin[r] = None
    PROVE  r \notin Spent /\ \A l \in Requests : r \notin Credential[l]
BY SessionAssumption DEF Spent, Credential, Live

LEMMA CommitOpens ==
    ASSUME SessionInv, TabInv, OneAtATime, NEW r \in Requests, Commits(r),
           req[r].kind \in {"register", "login"}
    PROVE  Logins!Open(r)
<1> DEFINE p == req[r].presents
<1>1. /\ KnowsSound(r) /\ RequestSound(r) /\ InFlight(r) /\ TypeOK /\ ~req[r].committed
  BY DEF SessionInv, Commits, InFlight
<1>2. p = None /\ p \notin Requests
  BY <1>1, SessionAssumption DEF RequestSound, Presents
<1>3. user # "deleted" /\ user' # "deleted" /\ OneAtATime'
  BY <1>1 DEF KnowsSound, Commits, Broken, OneAtATime
<1>4. /\ origin[r] = None /\ (\A t \in Requests : origin[t] # r)
      /\ (\A t \in Requests : origin'[t] = IF t = r THEN r ELSE origin[t])
      /\ \A t \in Requests : used'[t] = used[t]
  BY CommitsNewest
<1>5. \A t \in Requests : token'[t] = IF t = r THEN "live" ELSE token[t]
  BY <1>2, CommitsRecord
<1>6. Credential[r] = {}
  BY <1>4 DEF Credential, Live
<1>7. ASSUME NEW l \in Requests PROVE Credential'[l] = IF l = r THEN {r} ELSE Credential[l]
  <2>1. Credential'[l] = {t \in Requests : token'[t] = "live" /\ origin'[t] = l}
    BY <1>3 DEF Credential, Live
  <2>2. Credential[l] = {t \in Requests : token[t] = "live" /\ origin[t] = l}
    BY DEF Credential, Live
  <2> HIDE DEF p
  <2>3. r \notin Credential[l]
    BY <1>1, <1>4, NotMinted
  <2>4. CASE l = r
    BY <1>4, <1>5, <2>1, <2>4
  <2>5. CASE l # r
    BY <1>4, <1>5, <2>1, <2>2, <2>3, <2>5
  <2> QED BY <2>4, <2>5
<1>8. Credential' = [Credential EXCEPT ![r] = {r}]
  BY <1>7 DEF Credential
<1>9. Spent' = Spent
  BY <1>3, <1>4, <1>5, SessionAssumption DEF Spent
<1>10. Exchanged' = Exchanged
  BY <1>3, <1>4 DEF Exchanged
<1>11. Closed = FALSE /\ Closed' = FALSE
  BY <1>3 DEF Closed
<1>12. r \notin Spent /\ \A l \in Requests : r \notin Credential[l]
  BY <1>1, <1>4, NotMinted
<1> QED BY <1>6, <1>8, <1>9, <1>10, <1>11, <1>12
        DEF Logins!Open, Logins!New, Credential, Spent, Exchanged, Closed

LEMMA CommitExchanges ==
    ASSUME SessionInv, TabInv, OneAtATime, NEW r \in Requests, Commits(r),
           req[r].kind = "refresh"
    PROVE  \E l \in Requests : \E t \in Credential[l] : Logins!Exchange(l, t, r)
<1> DEFINE p == req[r].presents
           l == origin[p]
<1>1. user = "exists" /\ user' = "exists" /\ OneAtATime' /\ TypeOK /\ ~req[r].committed
  BY DEF Commits, Broken, OneAtATime, SessionInv
<1>2. /\ origin[r] = None /\ p \in Requests /\ p # r
      /\ req[r].revokes /\ token[p] = "live" /\ used[p] = 0
      /\ (\A t \in Requests : origin'[t] = IF t = r THEN l ELSE origin[t])
      /\ \A t \in Requests : used'[t] = IF t = p THEN 1 ELSE used[t]
  BY CommitsNewest
<1>3. \A t \in Requests : token'[t] = IF t = r THEN "live" ELSE IF t = p THEN "revoked"
                                      ELSE token[t]
  <2>1. \A t \in Requests :
           token'[t] = IF t = r /\ req[r].kind # "logout" THEN "live"
                       ELSE IF t = p /\ req[r].revokes THEN "revoked" ELSE token[t]
    BY CommitsRecord
  <2> HIDE DEF p
  <2> QED BY <1>2, <2>1
<1>4. l \in Requests /\ Credential[l] = {p}
  BY <1>2, OneCredential
<1>5. r \notin Spent /\ \A x \in Requests : r \notin Credential[x]
  BY <1>1, <1>2, NotMinted
<1> HIDE DEF p, l
<1>6. ASSUME NEW x \in Requests PROVE Credential'[x] = IF x = l THEN {r} ELSE Credential[x]
  <2>1. Credential'[x] = {t \in Requests : token'[t] = "live" /\ origin'[t] = x}
    BY <1>1 DEF Credential, Live
  <2>2. Credential[x] = {t \in Requests : token[t] = "live" /\ origin[t] = x}
    BY DEF Credential, Live
  <2>3. \A t \in Requests : t \in Credential'[x] <=> IF x = l THEN t = r ELSE t \in Credential[x]
    <3>1. p \in Credential[l] /\ \A t \in Requests : t \in Credential[l] => t = p
      BY <1>4
    <3>2. CASE x = l
      BY <1>2, <1>3, <2>1, <2>2, <3>1, <3>2
    <3>3. CASE x # l
      <4>1. p \notin Credential[x]
        BY <1>2, <2>2, <3>3 DEF l
      <4> QED BY <1>2, <1>3, <1>5, <2>1, <2>2, <3>3, <4>1
    <3> QED BY <3>2, <3>3
  <2> QED BY <2>1, <2>2, <2>3
<1>7. Credential' = [Credential EXCEPT ![l] = {r}]
  BY <1>6 DEF Credential
<1>8. Spent' = Spent \cup {p}
  <2>1. \A t \in Requests : t \in Spent' <=> t \in Spent \/ t = p
    <3>1. origin[p] # None
      BY <1>2, <1>4, SessionAssumption DEF l
    <3> QED BY <1>1, <1>2, <1>3, <3>1 DEF Spent
  <2> QED BY <1>2, <2>1 DEF Spent
<1>9. Exchanged' = [Exchanged EXCEPT ![p] = @ + 1]
  <2>1. \A t \in Requests : Exchanged'[t] = IF t = p THEN 1 ELSE Exchanged[t]
    BY <1>1, <1>2 DEF Exchanged
  <2>2. Exchanged[p] = 0 /\ 0 + 1 = 1
    BY <1>2 DEF Exchanged
  <2> QED BY <2>1, <2>2 DEF Exchanged
<1>10. Closed = FALSE /\ Closed' = FALSE
  BY <1>1 DEF Closed
<1>11. Logins!Exchange(l, p, r)
  BY <1>4, <1>5, <1>7, <1>8, <1>9, <1>10
  DEF Logins!Exchange, Logins!New, Credential, Spent, Exchanged, Closed
<1> QED BY <1>4, <1>11

LEMMA CommitRevokes ==
    ASSUME SessionInv, TabInv, OneAtATime, NEW r \in Requests, Commits(r),
           req[r].kind = "logout"
    PROVE  \/ \E l \in Requests : \E t \in Credential[l] : Logins!Revoke(l, t)
           \/ /\ Credential' = Credential /\ Spent' = Spent
              /\ Exchanged' = Exchanged /\ Closed' = Closed
<1> DEFINE p == req[r].presents
           l == origin[p]
<1>1. user' = user /\ OneAtATime' /\ TypeOK
  BY DEF Commits, OneAtATime, SessionInv
<1>2. /\ origin[r] = None /\ (p # None => p \in Requests)
      /\ (\A t \in Requests : origin'[t] = origin[t])
      /\ \A t \in Requests : used'[t] = used[t]
  BY CommitsNewest
<1>3. \A t \in Requests : token'[t] = IF t = p /\ req[r].revokes THEN "revoked" ELSE token[t]
  BY CommitsRecord
<1>4. Exchanged' = Exchanged /\ Closed' = Closed
  BY <1>1, <1>2 DEF Exchanged, Closed
<1>5. \A x \in Requests :
         /\ Credential'[x] = {t \in Requests : token'[t] = "live" /\ origin'[t] = x}
         /\ Credential[x] = {t \in Requests : token[t] = "live" /\ origin[t] = x}
  BY <1>1 DEF Credential, Live
<1>6. CASE p \in Requests /\ req[r].revokes /\ token[p] = "live"
  <2>1. l \in Requests /\ Credential[l] = {p}
    BY <1>6, OneCredential
  <2>2. Spent' = Spent \cup {p}
    <3>1. origin[p] # None
      BY <2>1, SessionAssumption
    <3> HIDE DEF p
    <3>2. \A t \in Requests : t \in Spent' <=> t \in Spent \/ t = p
      BY <1>1, <1>2, <1>3, <1>6, <3>1 DEF Spent
    <3> QED BY <1>6, <3>2 DEF Spent
  <2>3. ASSUME NEW x \in Requests PROVE Credential'[x] = IF x = l THEN {} ELSE Credential[x]
    <3>1. p \in Credential[l] /\ \A t \in Requests : t \in Credential[l] => t = p
      BY <2>1
    <3>2. x # l => p \notin Credential[x]
      BY <1>5
    <3> HIDE DEF p, l
    <3>3. \A t \in Requests : t \in Credential'[x] <=> x # l /\ t \in Credential[x]
      BY <1>2, <1>3, <1>5, <1>6, <3>1, <3>2
    <3> QED BY <1>5, <3>3
  <2> HIDE DEF p, l
  <2>4. Credential' = [Credential EXCEPT ![l] = {}]
    BY <2>3 DEF Credential
  <2>5. ASSUME NEW x \in Requests, NEW t \in Requests, x = l, t = p PROVE Logins!Revoke(x, t)
    BY <1>4, <2>1, <2>2, <2>4, <2>5 DEF Logins!Revoke, Credential, Spent, Exchanged, Closed
  <2>6. PICK x \in Requests, t \in Requests : x = l /\ t = p
    BY <1>6, <2>1
  <2>7. Logins!Revoke(x, t) /\ t \in Credential[x]
    BY <2>1, <2>5, <2>6
  <2> QED BY <2>7
<1>7. CASE ~(p \in Requests /\ req[r].revokes /\ token[p] = "live")
  <2> HIDE DEF p
  <2>1. \A t \in Requests : token'[t] = "live" <=> token[t] = "live"
    BY <1>3, <1>7
  <2>2. Spent' = Spent
    BY <1>1, <1>2, <2>1 DEF Spent
  <2>3. ASSUME NEW x \in Requests PROVE Credential'[x] = Credential[x]
    <3>1. \A t \in Requests : t \in Credential'[x] <=> t \in Credential[x]
      BY <1>2, <1>5, <2>1
    <3> QED BY <1>5, <3>1
  <2>4. Credential' = Credential
    BY <2>3 DEF Credential
  <2> QED BY <1>4, <2>2, <2>4, Zenon
<1> QED BY <1>6, <1>7

LEMMA DeletionCloses ==
    ASSUME SessionInv, TabInv, OneAtATime, DeleteAccount
    PROVE  Logins!Close
<1>1. /\ user = "exists" /\ user' = "deleted" /\ OneAtATime'
      /\ token' = [t \in Requests |-> "none"] /\ UNCHANGED <<origin, used>>
  BY DEF DeleteAccount, history, OneAtATime
<1>2. Closed = FALSE /\ Closed' = TRUE /\ Exchanged' = Exchanged
  BY <1>1 DEF Closed, Exchanged
<1>3. Credential' = [l \in Requests |-> {}]
  BY <1>1 DEF Credential, Live
<1>4. Spent' = Spent \cup UNION {Credential[l] : l \in Requests}
  <2>1. ASSUME NEW t \in Requests
        PROVE  t \in Spent' <=> t \in Spent \/ \E l \in Requests : t \in Credential[l]
    <3>1. CASE token[t] = "live"
      <4>1. origin[t] \in Requests /\ t \in Credential[origin[t]]
        BY <3>1, OneCredential
      <4> QED BY <1>1, <4>1, SessionAssumption DEF Spent
    <3>2. CASE token[t] # "live"
      BY <1>1, <3>2 DEF Spent, Credential, Live
    <3> QED BY <3>1, <3>2
  <2>2. Spent \subseteq Requests /\ Spent' \subseteq Requests
        /\ \A l \in Requests : Credential[l] \subseteq Requests
    BY DEF Spent, Credential, Live
  <2> QED BY <2>1, <2>2
<1> QED BY <1>2, <1>3, <1>4 DEF Logins!Close, Credential, Spent, Exchanged, Closed

LEMMA SessionStep ==
    ASSUME SessionInv, TabsInv, [Next]_vars
    PROVE  [Logins!Next]_(Logins!vars)
<1> DEFINE Mapped == <<Credential, Spent, Exchanged, Closed>>
<1>1. CASE UNCHANGED Mapped
  BY <1>1 DEF Logins!vars, Credential, Spent, Exchanged, Closed
<1>2. setting' = setting
  BY DEF Next, Handle, Send, ReadUser, ReadToken, Logout, AddUser, RevokeOld, Commit,
     AnswerSession, AnswerLogout, Answer, Expire, DeleteAccount, Crash, vars, history
<1>3. OneAtATime' <=> OneAtATime
  BY <1>2 DEF OneAtATime
<1>4. CASE ~OneAtATime
  BY <1>1, <1>3, <1>4 DEF Credential, Spent, Exchanged, Closed
<1>5. CASE UNCHANGED <<user, token, origin, used, setting>>
  BY <1>1, <1>5 DEF Credential, Spent, Exchanged, Closed, Live, OneAtATime
<1>6. ASSUME NEW r \in Requests, Commits(r), OneAtATime PROVE [Logins!Next]_(Logins!vars)
  <2>1. TabInv /\ req[r].kind \in Kinds
    BY <1>6 DEF TabsInv, SessionInv, TypeOK, Handlers, Commits, RequestSound
  <2>2. CASE req[r].kind \in {"register", "login"}
    BY <1>6, <2>1, <2>2, CommitOpens DEF Logins!Next
  <2>3. CASE req[r].kind = "refresh"
    BY <1>6, <2>1, <2>3, CommitExchanges DEF Logins!Next, Credential
  <2>4. CASE req[r].kind = "logout"
    BY <1>1, <1>6, <2>1, <2>4, CommitRevokes DEF Logins!Next, Credential
  <2> QED BY <2>1, <2>2, <2>3, <2>4 DEF Kinds
<1>7. CASE DeleteAccount /\ OneAtATime
  BY <1>7, DeletionCloses DEF TabsInv, Logins!Next
<1>8. ASSUME NEW r \in Requests, Handle(r), ~Commits(r)
      PROVE  UNCHANGED <<user, token, origin, used, setting>>
  BY <1>8, CommitCases DEF SessionInv, Handle, ReadUser, ReadToken, Logout, AddUser, RevokeOld,
     AnswerSession, AnswerLogout, Answer, history
<1>9. ASSUME NEW r \in Requests, \/ \E kind \in Kinds : Send(r, kind)
                                 \/ Expire(r)
      PROVE  UNCHANGED <<user, token, origin, used, setting>>
  BY <1>9 DEF Send, Expire, history
<1>10. Crash \/ UNCHANGED vars => UNCHANGED <<user, token, origin, used, setting>>
  BY DEF Crash, vars, history
<1> QED BY <1>4, <1>5, <1>6, <1>7, <1>8, <1>9, <1>10 DEF Next

(* While a device waits for each answer and each answer for its commit,     *)
(* register, login, refresh, logout and delete-account implement the        *)
(* abstract logins: each exchange of a token (auth.py:351) puts one new     *)
(* token in its place, and what was exchanged, revoked or deleted with the  *)
(* account is never exchanged again.                                        *)
THEOREM LoginsImplemented == Spec => ImplementsLogins
<1>1. Init => Logins!Init
  <2> SUFFICES ASSUME Init PROVE Logins!Init
    OBVIOUS
  <2>1. /\ \A t \in Requests : token[t] = "none" /\ origin[t] = None /\ used[t] = 0
        /\ user # "deleted"
    BY DEF Init
  <2> QED BY <2>1 DEF Logins!Init, Live
<1>2. SessionInv /\ TabsInv /\ [Next]_vars => [Logins!Next]_(Logins!vars)
  BY SessionStep
<1> QED BY <1>1, <1>2, InvariantHolds, PTL DEF Spec, ImplementsLogins, Logins!Spec
=============================================================================
