-------------------------- MODULE RateLimiter_proofs --------------------------
(***************************************************************************)
(* WindowBound, ChargedOnce and RefusalJustified of RateLimiter, for every *)
(* window, skew and delay, any number of callers and both backends.        *)
(*                                                                         *)
(* The bucket is compared with the history of admissions: BucketComplete   *)
(* says that it holds every admission a window ending now can count, so a  *)
(* bucket below the limit means the history is, too.  Pruning keeps it     *)
(* complete because ScoresClose ties a score, and the stamp that prunes,   *)
(* to the real time.                                                       *)
(***************************************************************************)
EXTENDS RateLimiter, FiniteSetTheorems, TLAPS

(***************************************************************************)
(* The number of elements of a subset of a finite set.                     *)
(***************************************************************************)
LEMMA SubsetCount ==
  ASSUME NEW S, IsFiniteSet(S), NEW T, T \subseteq S
  PROVE  /\ IsFiniteSet(T)
         /\ Cardinality(T) \in Nat
         /\ Cardinality(T) <= Cardinality(S)
BY FS_Subset, FS_CardinalityType

(***************************************************************************)
(* A call evaluated on a pruned bucket that is still complete leaves the   *)
(* bucket complete, the history within the bound and the scores close.     *)
(***************************************************************************)
LEMMA RecordKeeps ==
  ASSUME LimiterInv, limit > 0, NEW m \in Members,
         NEW kept, kept \subseteq hits, Within(Span, now) \subseteq kept,
         NEW score \in Nat, now - MaxDelay <= score, score <= now + MaxSkew,
         Record(kept, m, score), limit' = limit, shared' = shared, now' = now
  PROVE  /\ hits' \subseteq Hits /\ admitted' \subseteq Hits
         /\ IsFiniteSet(admitted')
         /\ \A h \in hits' : h \in hits \/ h.at = now
         /\ \A a \in admitted' : /\ a.at <= now
                                 /\ a.at - MaxDelay <= a.score
                                 /\ a.score <= a.at + MaxSkew
         /\ ~shared /\ score = now => \A a \in admitted' : a.score = a.at
         /\ BucketComplete'
         /\ WindowBound'
         /\ ChargedOnce'
<1>1. CASE UNCHANGED admitted /\ hits' = kept
  <2>1. BucketComplete'
    BY <1>1 DEF LimiterInv, BucketComplete, Within, Span
  <2>2. WindowBound' /\ ChargedOnce'
    BY <1>1 DEF LimiterInv, WindowBound, ChargedOnce, Within, Span
  <2>3. QED
    BY <1>1, <2>1, <2>2 DEF LimiterInv, TypeOK, ScoresClose
<1>2. CASE /\ ~Full(kept)
           /\ m \notin {h.member : h \in kept}
           /\ hits' = kept \cup {[member |-> m, score |-> score, at |-> now]}
           /\ admitted' = admitted \cup {[member |-> m, score |-> score, at |-> now]}
  <2> DEFINE hit == [member |-> m, score |-> score, at |-> now]
  <2>1. hits' = kept \cup {hit} /\ admitted' = admitted \cup {hit}
    BY <1>2
  <2>2. hit \in Hits /\ hit.at = now /\ hit.score = score /\ hit.member = m
    BY DEF Hits, LimiterInv, TypeOK
  <2> HIDE DEF hit
  <2>3. now \in Nat /\ Span \in Int /\ Span <= Window /\ limit \in Int /\ MaxDelay \in Nat /\ MaxSkew \in Nat
    BY LimiterAssumption DEF LimiterInv, TypeOK, Span
  <2>4. IsFiniteSet(admitted')
    BY <2>1, FS_AddElement DEF LimiterInv
  <2>5. BucketComplete'
    BY <2>1 DEF LimiterInv, BucketComplete, Within, Span
  <2>6. \A x \in admitted : x \in Hits /\ x.at \in Nat /\ x.at <= now
    BY DEF LimiterInv, ScoresClose, TypeOK, Hits
  <2>7. WindowBound'
    <3> SUFFICES ASSUME NEW a \in admitted'
                 PROVE  Cardinality(Within(Span, a.at)') <= limit
      BY DEF WindowBound, Within, Span
    <3>1. a.at \in Nat /\ a.at <= now
      BY <2>1, <2>2, <2>3, <2>6
    <3>2. CASE a.at = now
      <4>1. Within(Span, a.at)' \subseteq kept \cup {hit}
        BY <2>1, <3>2 DEF Within, Span
      <4>2. IsFiniteSet(kept)
        BY FS_Subset DEF LimiterInv, BucketComplete
      <4>3. /\ IsFiniteSet(kept \cup {hit})
            /\ Cardinality(kept \cup {hit}) = Cardinality(kept) \/ Cardinality(kept \cup {hit}) = Cardinality(kept) + 1
        BY <4>2, FS_AddElement
      <4>4. Cardinality(kept) \in Nat /\ Cardinality(kept \cup {hit}) \in Nat
        BY <4>2, <4>3, FS_CardinalityType
      <4>5. Cardinality(Within(Span, a.at)') <= Cardinality(kept \cup {hit}) /\ Cardinality(Within(Span, a.at)') \in Nat
        BY <4>1, <4>3, SubsetCount
      <4>6. QED
        BY <1>2, <2>3, <4>3, <4>4, <4>5 DEF Full
    <3>3. CASE a.at < now
      <4>1. a \in admitted
        BY <2>1, <2>2, <2>3, <3>3
      <4>2. Within(Span, a.at)' = Within(Span, a.at)
        BY <2>1, <2>2, <2>3, <3>1, <3>3 DEF Within, Span
      <4>3. QED
        BY <4>1, <4>2 DEF LimiterInv, WindowBound
    <3>4. QED
      BY <2>3, <3>1, <3>2, <3>3
  <2>8. ChargedOnce'
    <3>1. \A x \in admitted : x.member = m => x.at < now - Span
      <4> SUFFICES ASSUME NEW x \in admitted, x.member = m
                   PROVE  x.at < now - Span
        OBVIOUS
      <4>1. x \notin Within(Span, now)
        BY <1>2
      <4>2. QED
        BY <2>3, <2>6, <4>1 DEF Within
    <3>2. \A a, b \in admitted' :
            a.member = b.member /\ a # b => a.at < b.at - Span \/ b.at < a.at - Span
      BY <2>1, <2>2, <3>1 DEF LimiterInv, ChargedOnce
    <3>3. QED
      BY <3>2 DEF ChargedOnce, Span
  <2>9. \A h \in hits' : h \in hits \/ h.at = now
    BY <2>1, <2>2
  <2>10. \A a \in admitted' : /\ a.at <= now
                             /\ a.at - MaxDelay <= a.score
                             /\ a.score <= a.at + MaxSkew
    BY <2>1, <2>2, <2>3 DEF LimiterInv, ScoresClose
  <2>11. hits' \subseteq Hits /\ admitted' \subseteq Hits
    BY <2>1, <2>2 DEF LimiterInv, TypeOK
  <2>12. ~shared /\ score = now => \A a \in admitted' : a.score = a.at
    BY <2>1, <2>2 DEF LimiterInv, ScoresClose
  <2>13. QED
    BY <2>4, <2>5, <2>7, <2>8, <2>9, <2>10, <2>11, <2>12
<1>3. QED
  BY <1>1, <1>2 DEF Record

(***************************************************************************)
(* Pruning never drops an admission that a window ending now can count.    *)
(***************************************************************************)
LEMMA MemoryPrunesOld ==
  ASSUME LimiterInv, ~shared
  PROVE  Within(Span, now) \subseteq KeptInMemory
<1> SUFFICES ASSUME NEW a \in Within(Span, now)
             PROVE  a \in KeptInMemory
  OBVIOUS
<1>1. a \in hits /\ a \in admitted /\ now - Window <= a.at
  BY DEF LimiterInv, BucketComplete, Within, Span
<1>2. a \in Hits /\ a.at <= a.score
  BY <1>1, LimiterAssumption DEF LimiterInv, ScoresClose, TypeOK, Hits
<1>3. QED
  BY <1>1, <1>2, LimiterAssumption DEF KeptInMemory, LimiterInv, TypeOK, Hits

LEMMA RedisPrunesOld ==
  ASSUME LimiterInv, shared, NEW c \in Callers, call[c] = "asked"
  PROVE  Within(Span, now) \subseteq KeptByRedis(stamp[c])
<1> SUFFICES ASSUME NEW a \in Within(Span, now)
             PROVE  a \in KeptByRedis(stamp[c])
  OBVIOUS
<1>1. a \in hits /\ a \in admitted /\ now - (Window - MaxSkew - MaxDelay - 1) <= a.at
  BY DEF LimiterInv, BucketComplete, Within, Span
<1>2. /\ a.score \in Nat /\ a.at \in Nat /\ now \in Nat /\ expireAt \in Nat
      /\ stamp[c] \in Nat /\ readAt[c] \in Nat
      /\ {Window, Margin, MaxSkew, MaxDelay} \subseteq Nat
  BY <1>1, LimiterAssumption DEF LimiterInv, TypeOK, Hits
<1>3. /\ a.at - MaxDelay <= a.score
      /\ readAt[c] <= now
      /\ stamp[c] <= readAt[c] + MaxSkew
      /\ a.at + Window + Margin <= expireAt
  BY <1>1 DEF LimiterInv, ScoresClose
<1>4. a.score > stamp[c] - Window
  BY <1>1, <1>2, <1>3
<1>5. now < expireAt
  BY <1>1, <1>2, <1>3
<1>6. QED
  BY <1>1, <1>4, <1>5 DEF KeptByRedis, Live

-----------------------------------------------------------------------------
LEMMA LimiterInit == Init => LimiterInv
<1> SUFFICES ASSUME Init PROVE LimiterInv
  OBVIOUS
<1>1. TypeOK /\ ScoresClose
  BY LimiterAssumption DEF Init, TypeOK, ScoresClose, Hits
<1>2. IsFiniteSet(admitted)
  BY FS_EmptySet DEF Init
<1>3. BucketComplete /\ WindowBound /\ ChargedOnce
  BY DEF Init, BucketComplete, WindowBound, ChargedOnce, Within
<1>4. QED
  BY <1>1, <1>2, <1>3 DEF LimiterInv

LEMMA LimiterStep == LimiterInv /\ [Next]_vars => LimiterInv'
<1> SUFFICES ASSUME LimiterInv, [Next]_vars PROVE LimiterInv'
  OBVIOUS
<1> USE LimiterAssumption
<1>1. ASSUME NEW c \in Callers, MemoryAllow(c) PROVE LimiterInv'
  <2>1. PICK m \in Fresh : Record(KeptInMemory, m, now)
    BY <1>1 DEF MemoryAllow
  <2>2. /\ m \in Members /\ now \in Nat /\ KeptInMemory \subseteq hits
        /\ now - MaxDelay <= now /\ now <= now + MaxSkew
        /\ limit' = limit /\ shared' = shared /\ now' = now /\ limit > 0 /\ ~shared
    BY <1>1 DEF MemoryAllow, LimiterInv, TypeOK, KeptInMemory, Fresh
  <2>3. Within(Span, now) \subseteq KeptInMemory
    BY <2>2, MemoryPrunesOld
  <2>4. /\ hits' \subseteq Hits /\ admitted' \subseteq Hits
        /\ IsFiniteSet(admitted')
        /\ \A a \in admitted' : /\ a.at <= now
                                /\ a.at - MaxDelay <= a.score
                                /\ a.score <= a.at + MaxSkew
        /\ \A a \in admitted' : a.score = a.at
        /\ BucketComplete' /\ WindowBound' /\ ChargedOnce'
    BY <2>1, <2>2, <2>3, RecordKeeps
  <2>5. TypeOK'
    BY <1>1, <2>4 DEF LimiterInv, TypeOK, MemoryAllow, Answer, Verdict
  <2>6. ScoresClose'
    BY <1>1, <2>2, <2>4 DEF LimiterInv, ScoresClose, MemoryAllow, Answer, Verdict, TypeOK
  <2>7. QED
    BY <2>4, <2>5, <2>6 DEF LimiterInv
<1>2. ASSUME NEW c \in Callers, RedisEvaluate(c) PROVE LimiterInv'
  <2>1. /\ stamp[c] \in Nat /\ readAt[c] \in Nat /\ now \in Nat
        /\ KeptByRedis(stamp[c]) \subseteq hits
        /\ Record(KeptByRedis(stamp[c]), member[c], stamp[c]) /\ limit' = limit /\ shared' = shared /\ now' = now
        /\ call[c] = "asked" /\ shared
    BY <1>2 DEF RedisEvaluate, LimiterInv, TypeOK, KeptByRedis, Live
  <2>2. now - MaxDelay <= stamp[c] /\ stamp[c] <= now + MaxSkew
    BY <2>1 DEF LimiterInv, ScoresClose
  <2>3. Within(Span, now) \subseteq KeptByRedis(stamp[c])
    BY <2>1, RedisPrunesOld
  <2>4. limit > 0 /\ member[c] \in Members
    BY <2>1 DEF LimiterInv, ScoresClose
  <2>5. /\ hits' \subseteq Hits /\ admitted' \subseteq Hits
        /\ IsFiniteSet(admitted')
        /\ \A h \in hits' : h \in hits \/ h.at = now
        /\ \A a \in admitted' : /\ a.at <= now
                                /\ a.at - MaxDelay <= a.score
                                /\ a.score <= a.at + MaxSkew
        /\ BucketComplete' /\ WindowBound' /\ ChargedOnce'
    BY <2>1, <2>2, <2>3, <2>4, RecordKeeps
  <2>6. TypeOK'
    BY <1>2, <2>5 DEF LimiterInv, TypeOK, RedisEvaluate, Forget, Answer, Verdict
  <2>7. \A h \in hits' : h.at + Window + Margin <= expireAt'
    <3>1. \A h \in hits : h.at \in Nat /\ h.at <= now
      BY DEF LimiterInv, ScoresClose, BucketComplete, TypeOK, Hits
    <3>2. QED
      BY <1>2, <2>1, <2>5, <3>1 DEF RedisEvaluate
  <2>8. \A d \in Callers : call'[d] = "asked" =>
          /\ call[d] = "asked" /\ stamp'[d] = stamp[d] /\ readAt'[d] = readAt[d]
          /\ member'[d] = member[d]
    BY <1>2 DEF RedisEvaluate, Forget, Answer, Verdict, LimiterInv, TypeOK
  <2>9. ScoresClose'
    BY <1>2, <2>1, <2>5, <2>7, <2>8 DEF LimiterInv, ScoresClose
  <2>10. QED
    BY <2>5, <2>6, <2>9 DEF LimiterInv
<1>3. ASSUME NEW c \in Callers, RedisAsk(c) PROVE LimiterInv'
  <2>1. PICK s \in now..(now + MaxSkew) : stamp' = [stamp EXCEPT ![c] = s]
    BY <1>3 DEF RedisAsk
  <2>2. s \in Nat /\ now <= s /\ s <= now + MaxSkew /\ now \in Nat
    BY DEF LimiterInv, TypeOK
  <2>3. PICK m \in Fresh : member' = [member EXCEPT ![c] = m]
    BY <1>3 DEF RedisAsk
  <2>4. m \in Members
    BY DEF Fresh
  <2>5. TypeOK'
    BY <1>3, <2>1, <2>2, <2>3, <2>4 DEF LimiterInv, TypeOK, RedisAsk, Answer
  <2>6. ScoresClose'
    BY <1>3, <2>1, <2>2, <2>3, <2>4 DEF LimiterInv, ScoresClose, TypeOK, RedisAsk, Answer
  <2>7. BucketComplete' /\ WindowBound' /\ ChargedOnce' /\ IsFiniteSet(admitted')
    BY <1>3 DEF LimiterInv, BucketComplete, WindowBound, ChargedOnce, Within, Span, RedisAsk
  <2>8. QED
    BY <2>5, <2>6, <2>7 DEF LimiterInv
<1>4. ASSUME NEW c \in Callers, Unlimited(c) \/ RedisGivesUp(c) \/ Done(c) PROVE LimiterInv'
  <2>1. UNCHANGED <<limit, shared, now, hits, expireAt, admitted>>
    BY <1>4 DEF Unlimited, RedisGivesUp, Done
  <2>2. \A d \in Callers : call'[d] = "asked" =>
          /\ call[d] = "asked" /\ stamp'[d] = stamp[d] /\ readAt'[d] = readAt[d]
          /\ member'[d] = member[d]
    BY <1>4 DEF Unlimited, RedisGivesUp, Done, Answer, Forget, LimiterInv, TypeOK
  <2>3. TypeOK'
    BY <1>4, <2>1 DEF LimiterInv, TypeOK, Unlimited, RedisGivesUp, Done, Answer, Forget
  <2>4. ScoresClose'
    BY <2>1, <2>2 DEF LimiterInv, ScoresClose
  <2>5. BucketComplete' /\ WindowBound' /\ ChargedOnce' /\ IsFiniteSet(admitted')
    BY <2>1 DEF LimiterInv, BucketComplete, WindowBound, ChargedOnce, Within, Span
  <2>6. QED
    BY <2>3, <2>4, <2>5 DEF LimiterInv
<1>5. ASSUME Tick PROVE LimiterInv'
  <2>1. UNCHANGED <<limit, shared, call, stamp, readAt, member, retries, hits, expireAt, admitted>> /\ now' = now + 1
    BY <1>5 DEF Tick
  <2>2. TypeOK'
    BY <2>1 DEF LimiterInv, TypeOK
  <2>3. ScoresClose'
    <3>1. \A a \in admitted : a.at \in Nat
      BY DEF LimiterInv, TypeOK, Hits
    <3>2. \A a \in admitted' : a.at <= now' /\ a.at - MaxDelay <= a.score /\ a.score <= a.at + MaxSkew
      BY <2>1, <3>1 DEF LimiterInv, TypeOK, ScoresClose
    <3>3. \A c \in Callers : call[c] = "asked" => readAt[c] <= now' /\ now' <= readAt[c] + MaxDelay
      BY <1>5, <2>1 DEF Tick, LimiterInv, TypeOK, ScoresClose
    <3>4. QED
      BY <2>1, <3>2, <3>3 DEF LimiterInv, ScoresClose
  <2>4. Within(Span, now)' \subseteq Within(Span, now)
    BY <2>1 DEF LimiterInv, TypeOK, ScoresClose, Within, Span, Hits
  <2>5. BucketComplete' /\ WindowBound' /\ ChargedOnce' /\ IsFiniteSet(admitted')
    BY <2>1, <2>4 DEF LimiterInv, BucketComplete, WindowBound, ChargedOnce, Within, Span
  <2>6. QED
    BY <2>2, <2>3, <2>5 DEF LimiterInv
<1>6. ASSUME UNCHANGED vars PROVE LimiterInv'
  <2>1. TypeOK' /\ IsFiniteSet(admitted')
    BY <1>6 DEF LimiterInv, TypeOK, vars
  <2>2. ScoresClose'
    BY <1>6 DEF LimiterInv, ScoresClose, vars
  <2>3. BucketComplete' /\ WindowBound' /\ ChargedOnce'
    BY <1>6 DEF LimiterInv, BucketComplete, WindowBound, ChargedOnce, Within, Span, vars
  <2>4. QED
    BY <2>1, <2>2, <2>3 DEF LimiterInv
<1>7. QED
  BY <1>1, <1>2, <1>3, <1>4, <1>5, <1>6 DEF Next

(***************************************************************************)
(* The limiter's invariant: the bucket is complete, so the bound holds.    *)
(***************************************************************************)
THEOREM LimiterInvariant == Spec => []LimiterInv
BY LimiterInit, LimiterStep, PTL DEF Spec

(***************************************************************************)
(* A call evaluated twice is charged once in any span, for every script of *)
(* evaluations (retry_on_timeout and the uuid member of the sorted set).   *)
(***************************************************************************)
THEOREM ChargedOnceHolds == Spec => []ChargedOnce
<1>1. LimiterInv => ChargedOnce
  BY DEF LimiterInv
<1>2. QED
  BY <1>1, LimiterInvariant, PTL

(***************************************************************************)
(* No more calls than the limit are admitted in any span, for every limit, *)
(* window, clock disagreement and delay of allow_within_rate_limit.        *)
(***************************************************************************)
THEOREM WindowBoundHolds == Spec => []WindowBound
<1>1. LimiterInv => WindowBound
  BY DEF LimiterInv
<1>2. QED
  BY <1>1, LimiterInvariant, PTL

-----------------------------------------------------------------------------
(***************************************************************************)
(* A full bucket means that the admissions within Reach fill the limit.    *)
(***************************************************************************)
LEMMA FullBucket ==
  ASSUME LimiterInv, NEW kept, kept \subseteq Within(Reach, now), Cardinality(kept) >= limit
  PROVE  Cardinality(Within(Reach, now)) >= limit
<1>1. IsFiniteSet(Within(Reach, now))
  BY FS_Subset DEF Within, LimiterInv
<1>2. /\ Cardinality(kept) \in Nat /\ Cardinality(Within(Reach, now)) \in Nat
      /\ Cardinality(kept) <= Cardinality(Within(Reach, now))
  BY <1>1, SubsetCount, FS_CardinalityType
<1>3. limit \in Int
  BY LimiterAssumption DEF LimiterInv, TypeOK
<1>4. QED
  BY <1>2, <1>3

LEMMA RefusalStep ==
  ASSUME LimiterInv, Next, NEW c \in Callers, call[c] # "refused", call'[c] = "refused"
  PROVE  limit > 0 /\ Cardinality(Within(Reach, now)) >= limit
<1> USE LimiterAssumption
<1>1. \A a \in hits : /\ a \in admitted /\ a.at \in Nat /\ a.at <= now /\ a.score \in Nat
                      /\ a.score <= a.at + MaxSkew
  BY DEF LimiterInv, TypeOK, BucketComplete, ScoresClose, Hits
<1>2. \/ MemoryAllow(c) /\ Full(KeptInMemory)
      \/ RedisEvaluate(c) /\ Full(KeptByRedis(stamp[c]))
  <2>1. PICK d \in Callers : Unlimited(d) \/ MemoryAllow(d) \/ RedisAsk(d) \/ RedisEvaluate(d)
                             \/ RedisGivesUp(d) \/ Done(d)
    BY DEF Next, Tick
  <2>2. d = c /\ call' # [call EXCEPT ![d] = "allowed"]
    BY <2>1 DEF LimiterInv, TypeOK, Unlimited, MemoryAllow, RedisAsk, RedisEvaluate,
                RedisGivesUp, Done, Verdict, Answer, Forget
  <2>3. QED
    BY <2>1, <2>2 DEF LimiterInv, TypeOK, Unlimited, MemoryAllow, RedisAsk, RedisEvaluate,
                      RedisGivesUp, Done, Verdict, Answer, Forget
<1>3. CASE MemoryAllow(c) /\ Full(KeptInMemory)
  <2>1. now \in Nat /\ limit > 0 /\ ~shared
    BY <1>3 DEF MemoryAllow, LimiterInv, TypeOK
  <2>2. \A a \in hits : a.score = a.at
    BY <1>1, <2>1 DEF LimiterInv, ScoresClose
  <2>3. KeptInMemory \subseteq Within(Reach, now)
    BY <1>1, <2>1, <2>2 DEF KeptInMemory, Within, Reach
  <2>4. QED
    BY <1>3, <2>1, <2>3, FullBucket DEF Full
<1>4. CASE RedisEvaluate(c) /\ Full(KeptByRedis(stamp[c]))
  <2>1. /\ shared /\ limit > 0 /\ now \in Nat /\ stamp[c] \in Nat /\ readAt[c] \in Nat
        /\ readAt[c] <= stamp[c] /\ now <= readAt[c] + MaxDelay
    BY <1>4 DEF RedisEvaluate, LimiterInv, TypeOK, ScoresClose
  <2>2. KeptByRedis(stamp[c]) \subseteq Within(Reach, now)
    BY <1>1, <2>1 DEF KeptByRedis, Live, Within, Reach
  <2>3. QED
    BY <1>4, <2>1, <2>2, FullBucket DEF Full
<1>5. QED
  BY <1>2, <1>3, <1>4

(***************************************************************************)
(* A 429 of the rate limiter is always owed to real admissions.            *)
(***************************************************************************)
THEOREM RefusalsJustified == Spec => RefusalJustified
<1>1. LimiterInv /\ [Next]_vars =>
        [\A c \in Callers :
           call[c] # "refused" /\ call'[c] = "refused"
             => limit > 0 /\ Cardinality(Within(Reach, now)) >= limit]_vars
  BY RefusalStep
<1>2. QED
  BY <1>1, LimiterInvariant, PTL DEF Spec, RefusalJustified
=============================================================================
