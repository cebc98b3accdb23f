------------------------------ MODULE RateLimiter ------------------------------
(***************************************************************************)
(* allow_within_rate_limit (gateway/state.py) for one bucket, as           *)
(* enforce_rate_limit (gateway/app.py) calls it, in both state backends.   *)
(*                                                                         *)
(* In memory a call is one step: the coroutine reads the clock, and the    *)
(* lock around its deque is never contended because nothing suspends under *)
(* it.  On Redis a call is two: the gateway reads its own clock and sends  *)
(* that stamp, and Redis evaluates the script when the call arrives.       *)
(* Calls of several gateways, or of one, can arrive out of order, the      *)
(* stamps come from clocks that disagree, and the client sends a call      *)
(* again (retry_on_timeout) when its answer is late, with the same uuid.   *)
(*                                                                         *)
(* Time is discrete.  now is the slowest clock of the gateways; the others *)
(* run at most MaxSkew ahead, at each reading.  Redis's own clock is used  *)
(* only for a duration (EXPIRE), so it needs no offset.  A bucket is never *)
(* empty here: every caller passes a non-empty literal prefix.             *)
(***************************************************************************)
EXTENDS Integers, FiniteSets

CONSTANTS
  Callers,    \* handlers, on any gateway, that share the bucket
  Members,    \* the uuids that name the hits; their number bounds the calls
  NoMember,   \* no uuid
  Limits,     \* the limits the environment may configure
  Window,     \* window_seconds
  Margin,     \* the slack EXPIRE adds to the window
  MaxSkew,    \* how far two gateway clocks may disagree
  MaxDelay,   \* how long after the clock reading a call may still be evaluated
  MaxRetries, \* how often the client sends a call again
  MaxNow      \* bound on the clock

ASSUME LimiterAssumption ==
  /\ Limits \subseteq Int
  /\ {Window, Margin, MaxSkew, MaxDelay, MaxRetries, MaxNow} \subseteq Nat

VARIABLES
  limit,      \* the configured limit, fixed for the run
  shared,     \* is the backend Redis, rather than the process's memory?  Fixed, too
  now,        \* the slowest gateway clock
  call,       \* where each caller is: idle, asked, allowed or refused
  stamp,      \* the clock reading each asked caller sent
  readAt,     \* when it was read
  member,     \* the uuid of its hit
  retries,    \* how often it was sent again
  hits,       \* the bucket: the deque, or the sorted set
  expireAt,   \* when Redis drops the bucket's key
  admitted    \* history: every hit ever recorded

vars == <<limit, shared, now, call, stamp, readAt, member, retries, hits, expireAt, admitted>>

\* A hit carries its score, and the time it was admitted at for the properties.
Hits == [member : Members, score : Nat, at : Nat]

TypeOK ==
  /\ limit \in Limits
  /\ shared \in BOOLEAN
  /\ now \in Nat
  /\ call \in [Callers -> {"idle", "asked", "allowed", "refused"}]
  /\ stamp \in [Callers -> Nat]
  /\ readAt \in [Callers -> Nat]
  /\ member \in [Callers -> Members \cup {NoMember}]
  /\ retries \in [Callers -> Nat]
  /\ hits \subseteq Hits
  /\ expireAt \in Nat
  /\ admitted \subseteq Hits

Init ==
  /\ limit \in Limits
  /\ shared \in BOOLEAN
  /\ now = 0
  /\ call = [c \in Callers |-> "idle"]
  /\ stamp = [c \in Callers |-> 0]
  /\ readAt = [c \in Callers |-> 0]
  /\ member = [c \in Callers |-> NoMember]
  /\ retries = [c \in Callers |-> 0]
  /\ hits = {}
  /\ expireAt = 0
  /\ admitted = {}

-----------------------------------------------------------------------------
Answer(c, a) == call' = [call EXCEPT ![c] = a]

\* The call is over and its locals with it.
Forget(c) ==
  /\ stamp' = [stamp EXCEPT ![c] = 0]
  /\ readAt' = [readAt EXCEPT ![c] = 0]
  /\ member' = [member EXCEPT ![c] = NoMember]
  /\ retries' = [retries EXCEPT ![c] = 0]

\* limit <= 0: the limiter is off and nothing is recorded.
Unlimited(c) ==
  /\ call[c] = "idle"
  /\ limit <= 0
  /\ Answer(c, "allowed")
  /\ UNCHANGED <<limit, shared, now, stamp, readAt, member, retries, hits, expireAt, admitted>>

Full(kept) == Cardinality(kept) >= limit

Verdict(kept) == IF Full(kept) THEN "refused" ELSE "allowed"

\* A uuid nobody has used.
Fresh == Members \ ({a.member : a \in admitted} \cup {member[c] : c \in Callers})

\* Mutants: a refused call is recorded, too; a call sent again is recorded again.
Record_ChargesRefusals(kept, m, score) ==
  LET hit == [member |-> m, score |-> score, at |-> now]
  IN  /\ hits' = kept \cup {hit}
      /\ admitted' = IF Full(kept) THEN admitted ELSE admitted \cup {hit}

Record_ChargesAgain(kept, m, score) ==
  LET hit == [member |-> m, score |-> score, at |-> now]
  IN  IF Full(kept)
      THEN hits' = kept /\ UNCHANGED admitted
      ELSE hits' = kept \cup {hit} /\ admitted' = admitted \cup {hit}

\* A bucket that is not full gets the hit; a sorted set that has the member already
\* keeps it (same uuid, same score).
Record(kept, m, score) ==
  LET hit == [member |-> m, score |-> score, at |-> now]
  IN  IF Full(kept) \/ m \in {h.member : h \in kept}
      THEN hits' = kept /\ UNCHANGED admitted
      ELSE hits' = kept \cup {hit} /\ admitted' = admitted \cup {hit}

\* Mutant: the hits on the edge are dropped, too.
KeptInMemory_DropsEdge == {h \in hits : h.score > now - Window}

\* The hits popleft leaves in the deque: it drops those strictly before the window.
KeptInMemory == {h \in hits : h.score >= now - Window}

MemoryAllow(c) ==
  /\ ~shared
  /\ call[c] = "idle"
  /\ limit > 0
  /\ \E m \in Fresh : Record(KeptInMemory, m, now)
  /\ Answer(c, Verdict(KeptInMemory))
  /\ UNCHANGED <<limit, shared, now, stamp, readAt, member, retries, expireAt>>

\* now_ms = int(time.time() * 1000), then the await of eval.
RedisAsk(c) ==
  /\ shared
  /\ call[c] = "idle"
  /\ limit > 0
  /\ \E s \in now..(now + MaxSkew) : stamp' = [stamp EXCEPT ![c] = s]
  /\ readAt' = [readAt EXCEPT ![c] = now]
  /\ \E m \in Fresh : member' = [member EXCEPT ![c] = m]
  /\ Answer(c, "asked")
  /\ UNCHANGED <<limit, shared, now, retries, hits, expireAt, admitted>>

\* An expired key is gone for every command that looks at it.
Live == {h \in hits : now < expireAt}

\* Mutant: the window is one short.
KeptByRedis_Short(s) == {h \in Live : h.score > s - Window + 1}

\* ZREMRANGEBYSCORE 0 (stamp - window): the bound itself is removed too.
KeptByRedis(s) == {h \in Live : h.score > s - Window}

\* The script, in one step; both of its exits refresh the key's expiry.
RedisEvaluate(c) ==
  /\ shared
  /\ call[c] = "asked"
  /\ Record(KeptByRedis(stamp[c]), member[c], stamp[c])
  /\ expireAt' = now + Window + Margin
  /\ \/ /\ Answer(c, Verdict(KeptByRedis(stamp[c])))
        /\ Forget(c)
     \/ \* the answer is late: the same call is sent again
        /\ retries[c] < MaxRetries
        /\ retries' = [retries EXCEPT ![c] = @ + 1]
        /\ UNCHANGED <<call, stamp, readAt, member>>
  /\ UNCHANGED <<limit, shared, now>>

\* The connection fails, or no answer came in time: the handler ends with an error.
RedisGivesUp(c) ==
  /\ shared
  /\ call[c] = "asked"
  /\ Answer(c, "idle")
  /\ Forget(c)
  /\ UNCHANGED <<limit, shared, now, hits, expireAt, admitted>>

\* The handler goes on, or answers 429; either way its call is over.
Done(c) ==
  /\ call[c] \in {"allowed", "refused"}
  /\ Answer(c, "idle")
  /\ UNCHANGED <<limit, shared, now, stamp, readAt, member, retries, hits, expireAt, admitted>>

\* No call is on its way for longer than MaxDelay.
Tick ==
  /\ now < MaxNow
  /\ \A c \in Callers : call[c] = "asked" => now < readAt[c] + MaxDelay
  /\ now' = now + 1
  /\ UNCHANGED <<limit, shared, call, stamp, readAt, member, retries, hits, expireAt, admitted>>

Next ==
  \/ \E c \in Callers :
       \/ Unlimited(c)
       \/ MemoryAllow(c)
       \/ RedisAsk(c)
       \/ RedisEvaluate(c)
       \/ RedisGivesUp(c)
       \/ Done(c)
  \/ Tick

Spec == Init /\ [][Next]_vars

-----------------------------------------------------------------------------
\* The span over which the limit really holds: the whole closed window in one process;
\* on Redis the window less what the clocks disagree by and a call may be late by.
Span == IF shared THEN Window - MaxSkew - MaxDelay - 1 ELSE Window

\* How far back an admission may still cause a refusal.
Reach == IF shared THEN Window + MaxSkew + MaxDelay - 1 ELSE Window

Within(span, t) == {a \in admitted : t - span <= a.at /\ a.at <= t}

\* In no span of the real time that ends with an admission are more calls admitted than
\* the limit, whatever order the calls reach Redis in and whatever clock they carry
\* (allow_within_rate_limit in both backends).
WindowBound ==
  limit > 0 => \A a \in admitted : Cardinality(Within(Span, a.at)) <= limit

\* A call is refused only for admissions that fill the limit within Reach: refusals,
\* lost calls and hits a late stamp should not see never eat into the budget, and a
\* limiter that is off refuses nobody.
RefusalJustified ==
  [][\A c \in Callers :
       call[c] # "refused" /\ call'[c] = "refused"
         => limit > 0 /\ Cardinality(Within(Reach, now)) >= limit]_vars

\* A call that is sent again is charged once in any span (uuid members).
ChargedOnce ==
  \A a, b \in admitted : a.member = b.member /\ a # b => a.at < b.at - Span \/ b.at < a.at - Span

\* What makes WindowBound inductive.  A hit's score is close to the time it was
\* admitted at, and so is the stamp of a call on its way; the bucket holds only
\* admitted hits, and still holds every one a window that ends now can count.
ScoresClose ==
  /\ \A a \in admitted : a.at <= now /\ a.at - MaxDelay <= a.score /\ a.score <= a.at + MaxSkew
  /\ \A c \in Callers : call[c] = "asked" =>
       /\ limit > 0 /\ member[c] \in Members
       /\ readAt[c] <= now /\ now <= readAt[c] + MaxDelay
       /\ readAt[c] <= stamp[c] /\ stamp[c] <= readAt[c] + MaxSkew
  /\ shared => \A h \in hits : h.at + Window + Margin <= expireAt
  /\ ~shared => /\ \A c \in Callers : call[c] # "asked"
                /\ \A a \in admitted : a.score = a.at

BucketComplete ==
  /\ hits \subseteq admitted
  /\ Within(Span, now) \subseteq hits

LimiterInv ==
  /\ TypeOK
  /\ IsFiniteSet(admitted)
  /\ ScoresClose
  /\ BucketComplete
  /\ WindowBound
  /\ ChargedOnce
=============================================================================
