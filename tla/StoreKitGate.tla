---------------------------- MODULE StoreKitGate -----------------------------
(***************************************************************************)
(* The StoreKit transaction an app sends along instead of logging in       *)
(* (X-StoreKit-JWS): the middleware lets a request with a valid one past   *)
(* the rate limit and remembers the verdict (middleware.py), the translate *)
(* route asks again for the tier and remembers nothing (translate.py), and *)
(* both use Apple's public keys, which are cached as well                  *)
(* (apple_storekit.py).  Two caches, two clocks, and a fetch during which  *)
(* other requests run.  The verifier is switched on.                       *)
(*                                                                         *)
(* A transaction is known by its prefix (the 64 characters the verdict is  *)
(* remembered under), the key that signed it and the moment it expires.    *)
(***************************************************************************)
EXTENDS Integers

CONSTANTS
    Tokens,     \* signed transactions
    PrefixOf,   \* PrefixOf[t]: the first 64 characters of t
    KeyOf,      \* KeyOf[t]: the key t is signed with
    ExpiryOf,   \* ExpiryOf[t]: the expires_date of t
    OldKeys,    \* the keys Apple has published long since
    Requests,   \* requests that can be in progress at once
    Ttl,        \* lifetime of a remembered verdict (TTLCache(ttl=300))
    KeysTtl,    \* KEYS_CACHE_SECONDS
    MaxFetch,   \* how long a fetch of the keys lasts at most (timeout=10.0)
    MaxTime     \* bound on the clock

ASSUME GateAssumption ==
    /\ Ttl \in Nat \ {0} /\ KeysTtl \in Nat \ {0}
    /\ MaxFetch \in Nat /\ MaxTime \in Nat
    /\ MaxFetch <= KeysTtl
    /\ OldKeys # {}
    /\ ExpiryOf \in [Tokens -> Int]

Keys == {KeyOf[t] : t \in Tokens}
Prefixes == {PrefixOf[t] : t \in Tokens}
LongAgo == -(Ttl + KeysTtl)
NoVerdict == [valid |-> FALSE, until |-> LongAgo]

VARIABLES
    now,        \* the clock
    published,  \* the keys Apple publishes
    since,      \* since[k]: when Apple began to publish k
    known,      \* _storekit_keys
    fetched,    \* _storekit_keys_fetched
    failed,     \* when a fetch last failed
    cache,      \* _storekit_cache: per prefix a verdict and its end
    req         \* req[r]: what request r has got to

apple == <<published, since>>
vars == <<now, apple, known, fetched, failed, cache, req>>

\* "gated" is a request that has its verdict: was it let past the rate limit,
\* and when.  A request "fetching" or "fetched" asks for the gate or, after
\* that, for the handler.
Idle == [pc |-> "idle", stage |-> "gate", token |-> "none", started |-> 0, got |-> {},
         let |-> FALSE, at |-> 0]

Init ==
    /\ now = 0
    /\ published = OldKeys
    /\ since = [k \in Keys |-> LongAgo]
    /\ known = {}                                \* None
    /\ fetched = LongAgo
    /\ failed = LongAgo
    /\ cache = [p \in Prefixes |-> NoVerdict]
    /\ req = [r \in Requests |-> Idle]
-----------------------------------------------------------------------------
(* Time, Apple, and the room in the cache. *)

\* TTLCache: a verdict is gone when its time is over.
Tick ==
    /\ now < MaxTime
    /\ \A r \in Requests : req[r].pc \in {"fetching", "fetched"} =>
                               now - req[r].started < MaxFetch
    /\ now' = now + 1
    /\ cache' = [p \in Prefixes |-> IF now' < cache[p].until THEN cache[p] ELSE NoVerdict]
    /\ UNCHANGED <<apple, known, fetched, failed, req>>

\* A key is published before it signs anything.
PublishKey(k) ==
    /\ k \notin published
    /\ published' = published \cup {k}
    /\ since' = [since EXCEPT ![k] = now]
    /\ UNCHANGED <<now, known, fetched, failed, cache, req>>

\* maxsize: the verdicts of other apps push this one out.
Evict(p) ==
    /\ cache[p] # NoVerdict
    /\ cache' = [cache EXCEPT ![p] = NoVerdict]
    /\ UNCHANGED <<now, apple, known, fetched, failed, req>>
-----------------------------------------------------------------------------
(* verify_transaction and the two who ask it. *)

\* verify_transaction with the keys at hand, and the expires_date.
Valid(t, keys) == KeyOf[t] \in keys /\ ExpiryOf[t] > now

Gate(r, t, verdict) ==
    req' = [req EXCEPT ![r] = [Idle EXCEPT !.pc = "gated", !.token = t, !.at = now,
                                           !.let = verdict]]

\* The gate stores the verdict; the handler answers with what it gets.
Judge(r, t, keys) ==
    IF req[r].stage = "gate"
    THEN /\ cache' = [cache EXCEPT ![PrefixOf[t]] =
                         [valid |-> Valid(t, keys), until |-> now + Ttl]]
         /\ Gate(r, t, Valid(t, keys))
    ELSE req' = [req EXCEPT ![r] = Idle] /\ UNCHANGED cache

KeysFresh == known # {} /\ now - fetched < KeysTtl

\* _fetch_storekit_keys: the keys at hand, or a request to Apple.
AskKeys(r, t) ==
    \/ KeysFresh /\ Judge(r, t, known)
    \/ /\ ~KeysFresh
       /\ req' = [req EXCEPT ![r] = [@ EXCEPT !.pc = "fetching", !.token = t, !.started = now]]
       /\ UNCHANGED cache

\* Mutation: a verdict that is used lives on.
TakeAndRenew(r, t) ==
    /\ Gate(r, t, cache[PrefixOf[t]].valid)
    /\ cache' = [cache EXCEPT ![PrefixOf[t]].until = now + Ttl]

\* A verdict is remembered for the prefix.
TakeVerdict(r, t) ==
    /\ Gate(r, t, cache[PrefixOf[t]].valid)
    /\ UNCHANGED cache

\* _has_valid_storekit_subscription.
Arrive(r, t) ==
    /\ req[r].pc = "idle"
    /\ KeyOf[t] \in published
    /\ \/ now < cache[PrefixOf[t]].until /\ TakeVerdict(r, t)
       \/ now >= cache[PrefixOf[t]].until /\ AskKeys(r, t)
    /\ UNCHANGED <<now, apple, known, fetched, failed>>

\* get_storekit_tier; the gate's verdict decided about the rate limit only.
Handle(r) ==
    /\ req[r].pc = "gated"
    /\ \/ KeysFresh /\ req' = [req EXCEPT ![r] = Idle]
       \/ ~KeysFresh /\ req' = [req EXCEPT ![r] =
              [Idle EXCEPT !.pc = "fetching", !.stage = "handler",
                           !.token = req[r].token, !.started = now]]
    /\ UNCHANGED <<now, apple, known, fetched, failed, cache>>

\* Apple answers with the keys of that moment.
Serve(r) ==
    /\ req[r].pc = "fetching"
    /\ req' = [req EXCEPT ![r].pc = "fetched", ![r].got = published]
    /\ UNCHANGED <<now, apple, known, fetched, failed, cache>>

\* Mutation: the keys count as new from the moment they arrive.
FetchedAtEnd(r) == now

\* now is read before the request is sent.
FetchedAt(r) == req[r].started

\* The answer replaces what any other request has stored meanwhile.
TakeKeys(r) ==
    /\ req[r].pc = "fetched"
    /\ known' = req[r].got
    /\ fetched' = FetchedAt(r)
    /\ Judge(r, req[r].token, req[r].got)
    /\ UNCHANGED <<now, apple, failed>>

\* No answer, or an error: the keys at hand are used, however old.
FetchFails(r) ==
    /\ req[r].pc \in {"fetching", "fetched"}
    /\ failed' = now
    /\ Judge(r, req[r].token, known)
    /\ UNCHANGED <<now, apple, known, fetched>>

Next ==
    \/ Tick
    \/ \E k \in Keys : PublishKey(k)
    \/ \E p \in Prefixes : Evict(p)
    \/ \E r \in Requests : \/ \E t \in Tokens : Arrive(r, t)
                           \/ Handle(r) \/ Serve(r) \/ TakeKeys(r) \/ FetchFails(r)

Spec == Init /\ [][Next]_vars
-----------------------------------------------------------------------------
TypeOK ==
    /\ now \in 0 .. MaxTime
    /\ published \subseteq Keys \cup OldKeys /\ known \subseteq Keys \cup OldKeys
    /\ since \in [Keys -> Int]
    /\ fetched \in Int /\ failed \in Int
    /\ cache \in [Prefixes -> [valid : BOOLEAN, until : Int]]
    /\ req \in [Requests ->
         [pc : {"idle", "fetching", "fetched", "gated"},
          stage : {"gate", "handler"}, token : Tokens \cup {"none"},
          started : 0 .. MaxTime, got : SUBSET (Keys \cup OldKeys), let : BOOLEAN, at : 0 .. MaxTime]]

(* "Cache verified StoreKit transactions for 5 minutes" (middleware.py:21): *)
(* whoever is let past the rate limit presents a transaction, or shares the *)
(* prefix of one, that was still valid less than Ttl ago, however often and *)
(* by whom the verdict was used since.                                      *)
GateIsFresh ==
    \A r \in Requests : req[r].pc = "gated" /\ req[r].let =>
        \E t \in Tokens : /\ PrefixOf[t] = PrefixOf[req[r].token]
                          /\ req[r].at < ExpiryOf[t] + Ttl

\* What may keep a valid transaction from being let through: the key is so
\* new that the cached ones, or the verdict made with them, may lack it, or
\* Apple's keys could not be had.
Excused(r) ==
    \/ req[r].at < since[KeyOf[req[r].token]] + KeysTtl + Ttl
    \/ req[r].at < failed + Ttl

Refused(r) == req[r].pc = "gated" /\ ~req[r].let /\ ExpiryOf[req[r].token] > req[r].at

(* The two caches, their slow and failing refreshes that overtake each      *)
(* other, and the remembered refusals cannot lock a subscriber out for      *)
(* longer than their lifetimes together: a valid transaction is refused     *)
(* only within Ttl of a failed fetch, or within KeysTtl + Ttl of the        *)
(* publication of its key (apple_storekit.py:65-82, middleware.py:46-77) -  *)
(* if no other transaction has its prefix.                                  *)
RefusalIsBrief ==
    \A r \in Requests :
        Refused(r) /\ (\A t \in Tokens \ {req[r].token} :
                                PrefixOf[t] # PrefixOf[req[r].token]) => Excused(r)
=============================================================================
