------------------------- MODULE RateLimiterProofs -------------------------
(***************************************************************************)
(* For every rate, burst and size of the map, and however requests overtake *)
(* each other: the map is bounded, and each bucket measures the history of  *)
(* its client.                                                             *)
(***************************************************************************)
EXTENDS RateLimiter, FiniteSetTheorems, TLAPS

LimiterInv ==
  /\ TypeOK
  /\ IsFiniteSet(Tracked)
  /\ Metered

-----------------------------------------------------------------------------
(* One bucket. *)

LEMMA Distribute ==
  ASSUME NEW a \in Int, NEW b \in Int, NEW c \in Int
  PROVE  a * (b + c) = a * b + a * c
OBVIOUS

LEMMA FullFacts ==
  Full \in Nat /\ Token \in Nat \ {0} /\ Token <= Full
<1> DEFINE n == IF Burst = 0 THEN 1 ELSE Burst
<1>1. n \in Nat \ {0} /\ Token \in Nat \ {0}
  BY LimiterAssumption DEF Token
<1> HIDE DEF n
<1>2. n * Token \in Nat /\ Token <= n * Token
  BY <1>1, Distribute
<1> QED BY <1>1, <1>2 DEF Full, n

LEMMA RefillFacts ==
  ASSUME NEW e \in Nat PROVE e * PerSecond \in Nat /\ PerSecond * e = e * PerSecond
BY LimiterAssumption

LEMMA ElementIn ==
  ASSUME NEW S, NEW s \in Seq(S), NEW j \in DOMAIN s PROVE s[j] \in S
OBVIOUS

LEMMA LogTypes ==
  ASSUME NEW s \in Seq([at : Nat, trims : Nat]), NEW j \in DOMAIN s
  PROVE  s[j].at \in Nat /\ s[j].trims \in Nat /\ j \in Nat /\ Len(s) \in Nat
<1>1. j \in 1..Len(s) /\ Len(s) \in Nat
  OBVIOUS
<1>2. s[j] \in [at : Nat, trims : Nat]
  BY ElementIn
<1> QED BY <1>1, <1>2

LEMMA BucketTypes ==
  ASSUME NEW b \in Bucket, NEW j \in DOMAIN b.log
  PROVE  /\ b.log[j].at \in Nat /\ b.log[j].trims \in Nat /\ j \in Nat
         /\ Len(b.log) \in Nat /\ b.trims \in Nat /\ Credited(b) \in Nat
<1>1. b.log \in Seq([at : Nat, trims : Nat])
  BY DEF Bucket
<1>2. b.log[j].at \in Nat /\ b.log[j].trims \in Nat /\ j \in Nat /\ Len(b.log) \in Nat
  BY <1>1, LogTypes
<1>3. b.last \in Nat /\ b.behind \in Nat /\ b.trims \in Nat
  BY DEF Bucket
<1> QED BY <1>2, <1>3 DEF Credited

LEMMA IntProduct == \A x, y \in Int : x * y \in Int
OBVIOUS

(* The bursts an admission leaves. *)
Bursts(b, j) == Full * (1 + b.trims - b.log[j].trims)

LEMMA LeftType ==
  ASSUME NEW b \in Bucket, NEW j \in DOMAIN b.log
  PROVE  /\ Left(b, j) \in Int /\ Bursts(b, j) \in Int
         /\ Left(b, j) = Bursts(b, j) + PerSecond * (Credited(b) - b.log[j].at)
                            - Token * (Len(b.log) - j + 1)
<1>1. /\ Credited(b) - b.log[j].at \in Int /\ Len(b.log) - j + 1 \in Int
      /\ 1 + b.trims - b.log[j].trims \in Int
  <2> DEFINE x == b.log[j].at  y == b.log[j].trims  u == Credited(b)  n == Len(b.log)
  <2>1. x \in Nat /\ y \in Nat /\ j \in Nat /\ n \in Nat /\ b.trims \in Nat /\ u \in Nat
    BY BucketTypes
  <2> HIDE DEF x, y, u, n
  <2>2. u - x \in Int /\ n - j + 1 \in Int /\ 1 + b.trims - y \in Int
    BY <2>1
  <2> QED BY <2>2 DEF x, y, u, n
<1>2. \A x, y \in Int : x * y \in Int
  BY IntProduct
<1>3. Full \in Int /\ Token \in Int /\ PerSecond \in Int
  BY FullFacts, LimiterAssumption
<1>4. /\ Bursts(b, j) \in Int
      /\ PerSecond * (Credited(b) - b.log[j].at) \in Int
      /\ Token * (Len(b.log) - j + 1) \in Int
  BY <1>1, <1>2, <1>3 DEF Bursts
<1>5. Left(b, j) = Bursts(b, j) + PerSecond * (Credited(b) - b.log[j].at)
                     - Token * (Len(b.log) - j + 1)
  BY DEF Left, Bursts
<1> QED BY <1>4, <1>5

(* The tokens of a bucket when a request looks at it. *)
Refilled(b, t) == Least(b.tokens + Elapsed(b, t) * PerSecond, Full)

LEMMA BehindFacts ==
  ASSUME NEW b \in Bucket, NEW t \in Nat
  PROVE  /\ Elapsed(b, t) \in Nat /\ Behind(b, t) \in Nat /\ Credited(b) \in Nat
         /\ t + Behind(b, t) = Credited(b) + Elapsed(b, t)
<1> DEFINE l == b.last  h == b.behind  v == Credited(b)
           e == Elapsed(b, t)  late == Behind(b, t)
<1>1. v = l + h /\ l \in Nat /\ h \in Nat
  BY DEF Credited, Bucket
<1>2. /\ e = IF t > l THEN t - l ELSE 0
      /\ late = h + (IF t < l THEN l - t ELSE 0)
  BY DEF Elapsed, Behind
<1> HIDE DEF e, late, l, h, v
<1>3. e \in Nat /\ late \in Nat /\ v \in Nat /\ t + late = v + e
  BY <1>1, <1>2
<1> QED BY <1>3 DEF v, e, late

LEMMA TakeFields ==
  ASSUME NEW b \in Bucket, NEW t \in Nat
  PROVE  /\ Elapsed(b, t) \in Nat /\ Refilled(b, t) \in 0..Full
         /\ Take(b, t) \in Bucket
         /\ Credited(b) \in Nat
         /\ Credited(Take(b, t)) = Credited(b) + Elapsed(b, t)
         /\ Take(b, t).trims = b.trims /\ b.trims \in Nat
         /\ IF Refilled(b, t) >= Token
            THEN /\ Take(b, t).tokens = Refilled(b, t) - Token
                 /\ Take(b, t).log =
                      Append(b.log, [at |-> Credited(b) + Elapsed(b, t), trims |-> b.trims])
            ELSE Take(b, t).tokens = Refilled(b, t) /\ Take(b, t).log = b.log
<1> DEFINE e == Elapsed(b, t)
           tokens == Refilled(b, t)
           a == Take(b, t)
           late == Behind(b, t)
           entry == [at |-> Credited(b) + e, trims |-> b.trims]
<1>1. /\ b.tokens \in 0..Full /\ b.last \in Nat /\ b.behind \in Nat
      /\ b.log \in Seq([at : Nat, trims : Nat]) /\ b.trims \in Nat
  BY DEF Bucket
<1>2. /\ e \in Nat /\ late \in Nat /\ Credited(b) \in Nat
      /\ t + late = Credited(b) + e
  BY BehindFacts
<1>3. e * PerSecond \in Nat
  BY <1>2, RefillFacts
<1>4. tokens \in 0..Full
  BY <1>1, <1>3, FullFacts DEF Least, Refilled
<1>5. a = [tokens |-> IF tokens >= Token THEN tokens - Token ELSE tokens,
           last |-> t, behind |-> late,
           log |-> IF tokens >= Token THEN Append(b.log, entry) ELSE b.log,
           trims |-> b.trims]
  BY <1>2 DEF Take, Refilled, Admission
<1> DEFINE rest == IF tokens >= Token THEN tokens - Token ELSE tokens
           log == IF tokens >= Token THEN Append(b.log, entry) ELSE b.log
<1>6. rest \in 0..Full /\ late \in Nat /\ log \in Seq([at : Nat, trims : Nat])
  <2>1. entry \in [at : Nat, trims : Nat]
    BY <1>1, <1>2
  <2> HIDE DEF e, tokens, entry, late
  <2>2. rest \in 0..Full
    BY <1>4, FullFacts
  <2>3. Append(b.log, entry) \in Seq([at : Nat, trims : Nat])
    BY <1>1, <2>1
  <2> QED BY <1>1, <1>2, <2>2, <2>3
<1>7. a \in Bucket
  <2> HIDE DEF rest, late, log, a
  <2>1. a = [tokens |-> rest, last |-> t, behind |-> late, log |-> log, trims |-> b.trims]
    BY <1>5 DEF rest, log
  <2> QED BY <1>1, <1>6, <2>1 DEF Bucket
<1>8. Credited(a) = Credited(b) + e /\ a.trims = b.trims
  <2> HIDE DEF e, late
  <2> QED BY <1>2, <1>5 DEF Credited
<1> QED BY <1>1, <1>2, <1>4, <1>5, <1>7, <1>8

(* Crediting e and taking n tokens shifts what an admission leaves. *)
LEMMA TakeLeft ==
  ASSUME NEW b \in Bucket, NEW a \in Bucket, NEW e \in Nat, NEW j \in DOMAIN b.log,
         j \in DOMAIN a.log, a.log[j] = b.log[j], Credited(a) = Credited(b) + e,
         NEW n \in {0, 1}, Len(a.log) = Len(b.log) + n
  PROVE  Left(a, j) = Left(b, j) + (Bursts(a, j) - Bursts(b, j)) + e * PerSecond - n * Token
<1> DEFINE x == Credited(b) - b.log[j].at
           y == Len(b.log) - j + 1
           f == Bursts(b, j)
           g == Bursts(a, j)
<1>0. /\ Credited(b) \in Int /\ b.log[j].at \in Int /\ Len(b.log) \in Int /\ j \in Int
      /\ e \in Int /\ n \in Int
  BY BucketTypes
<1>1. /\ x \in Int /\ y \in Int /\ f \in Int /\ g \in Int
      /\ Token \in Nat /\ PerSecond \in Nat
  <2>1. x \in Int /\ y \in Int
    <3> DEFINE u == Credited(b)  v == b.log[j].at  m == Len(b.log)
    <3>1. u \in Int /\ v \in Int /\ m \in Int /\ j \in Int
      BY <1>0
    <3> HIDE DEF u, v, m
    <3>2. u - v \in Int /\ m - j + 1 \in Int
      BY <3>1
    <3> QED BY <3>2 DEF u, v, m
  <2>2. PerSecond \in Nat
    BY LimiterAssumption
  <2>3. f \in Int /\ g \in Int
    BY LeftType
  <2> HIDE DEF x, y, f, g
  <2> QED BY <2>1, <2>2, <2>3, FullFacts
<1>2. Credited(a) - a.log[j].at = x + e /\ Len(a.log) - j + 1 = y + n
  <2> DEFINE u == Credited(b)  v == b.log[j].at  m == Len(b.log)
  <2>1. /\ u \in Int /\ v \in Int /\ m \in Int /\ j \in Int /\ e \in Int /\ n \in Int
        /\ Credited(a) = u + e /\ a.log[j].at = v /\ Len(a.log) = m + n
    BY <1>0
  <2> HIDE DEF u, v, m
  <2>2. (u + e) - v = (u - v) + e /\ (m + n) - j + 1 = (m - j + 1) + n
    BY <2>1
  <2> QED BY <2>1, <2>2 DEF u, v, m
<1>3. Left(b, j) = f + PerSecond * x - Token * y
  BY LeftType
<1>4. Left(a, j) = g + PerSecond * (x + e) - Token * (y + n)
  BY <1>2, LeftType
<1> HIDE DEF x, y, f, g
<1>5. PerSecond * (x + e) = PerSecond * x + PerSecond * e /\ PerSecond * e = e * PerSecond
  BY <1>1, Distribute
<1>6. Token * (y + n) = Token * y + n * Token
  BY <1>1, Distribute
<1>7. PerSecond * x \in Int /\ Token * y \in Int /\ e * PerSecond \in Int /\ n * Token \in Int
  BY <1>1
<1>8. Left(a, j) = Left(b, j) + (g - f) + e * PerSecond - n * Token
  BY <1>1, <1>3, <1>4, <1>5, <1>6, <1>7
<1> QED BY <1>8 DEF f, g

(* A request leaves its bucket with what the longer history leaves. *)
LEMMA TakeKeeps ==
  ASSUME NEW b \in Bucket, Meets(b), NEW t \in Nat
  PROVE  Take(b, t) \in Bucket /\ Meets(Take(b, t))
<1> DEFINE e == Elapsed(b, t)
           tokens == Refilled(b, t)
           a == Take(b, t)
           n == IF tokens >= Token THEN 1 ELSE 0
<1>1. /\ e \in Nat /\ tokens \in 0..Full /\ a \in Bucket
      /\ Credited(b) \in Nat /\ Credited(a) = Credited(b) + e
      /\ IF tokens >= Token
         THEN /\ a.tokens = tokens - Token
              /\ a.log = Append(b.log, [at |-> Credited(b) + e, trims |-> b.trims])
         ELSE a.tokens = tokens /\ a.log = b.log
      /\ a.trims = b.trims /\ b.trims \in Nat
  BY TakeFields
<1>2. /\ e * PerSecond \in Nat /\ b.tokens \in 0..Full
      /\ b.log \in Seq([at : Nat, trims : Nat])
  BY <1>1, RefillFacts DEF Bucket
<1>3. tokens = IF b.tokens + e * PerSecond <= Full THEN b.tokens + e * PerSecond ELSE Full
  BY DEF Least, Refilled
<1> HIDE DEF e, tokens, a
<1>4. /\ DOMAIN b.log = 1..Len(b.log) /\ Len(b.log) \in Nat
      /\ Len(a.log) = Len(b.log) + n /\ DOMAIN a.log = 1..(Len(b.log) + n)
      /\ \A j \in DOMAIN b.log : j \in DOMAIN a.log /\ a.log[j] = b.log[j]
      /\ n = 1 => a.log[Len(b.log) + 1] = [at |-> Credited(b) + e, trims |-> b.trims]
  <2> DEFINE s == b.log  x == [at |-> Credited(b) + e, trims |-> b.trims]
  <2>1. s \in Seq([at : Nat, trims : Nat]) /\ x \in [at : Nat, trims : Nat]
    BY <1>1, <1>2
  <2> HIDE DEF s, x
  <2>2. /\ DOMAIN s = 1..Len(s) /\ Len(s) \in Nat
        /\ Len(Append(s, x)) = Len(s) + 1 /\ DOMAIN Append(s, x) = 1..(Len(s) + 1)
        /\ \A j \in DOMAIN s : Append(s, x)[j] = s[j]
        /\ Append(s, x)[Len(s) + 1] = x
    BY <2>1
  <2>3. CASE tokens >= Token
    <3>1. a.log = Append(s, x) /\ n = 1
      BY <1>1, <2>3 DEF s, x
    <3>2. \A j \in DOMAIN s : j \in 1..(Len(s) + 1)
      BY <2>2
    <3> QED BY <2>2, <3>1, <3>2 DEF s, x
  <2>4. CASE ~(tokens >= Token)
    BY <1>1, <2>2, <2>4 DEF s
  <2> QED BY <2>3, <2>4
<1>5. \A j \in DOMAIN b.log : Left(a, j) = Left(b, j) + e * PerSecond - n * Token
  <2> SUFFICES ASSUME NEW j \in DOMAIN b.log
               PROVE  Left(a, j) = Left(b, j) + e * PerSecond - n * Token
    OBVIOUS
  <2>1. j \in DOMAIN a.log /\ a.log[j] = b.log[j] /\ n \in {0, 1}
    BY <1>4
  <2>2. Bursts(a, j) = Bursts(b, j)
    BY <1>1, <2>1 DEF Bursts
  <2>3. Left(a, j) = Left(b, j) + (Bursts(a, j) - Bursts(b, j)) + e * PerSecond - n * Token
    BY <1>1, <1>4, <2>1, TakeLeft
  <2>4. /\ Left(b, j) \in Int /\ Bursts(b, j) \in Int /\ e * PerSecond \in Int
        /\ n * Token \in Int
    <3>1. Left(b, j) \in Int /\ Bursts(b, j) \in Int
      BY LeftType
    <3>2. Token \in Int /\ PerSecond \in Int /\ e \in Int
      BY <1>1, FullFacts, LimiterAssumption
    <3>3. n \in Int
      OBVIOUS
    <3> HIDE DEF n, e
    <3>4. e * PerSecond \in Int /\ n * Token \in Int
      BY <3>2, <3>3, IntProduct
    <3> QED BY <3>1, <3>4
  <2> HIDE DEF n
  <2> QED BY <2>2, <2>3, <2>4
<1>6. n = 1 => Left(a, Len(b.log) + 1) = Full - Token
  <2> SUFFICES ASSUME n = 1 PROVE Left(a, Len(b.log) + 1) = Full - Token
    OBVIOUS
  <2>1. /\ Credited(a) - a.log[Len(b.log) + 1].at = 0 /\ Len(a.log) - (Len(b.log) + 1) + 1 = 1
        /\ 1 + a.trims - a.log[Len(b.log) + 1].trims = 1
    <3>1. /\ Len(a.log) = Len(b.log) + 1 /\ Len(b.log) \in Int /\ Credited(a) \in Int
          /\ a.log[Len(b.log) + 1].at = Credited(a)
          /\ a.log[Len(b.log) + 1].trims = a.trims /\ a.trims \in Int
      <4>1. /\ Len(a.log) = Len(b.log) + n /\ Len(b.log) \in Nat
            /\ a.log[Len(b.log) + 1].at = Credited(b) + e
            /\ a.log[Len(b.log) + 1].trims = b.trims
        BY <1>4
      <4> HIDE DEF n
      <4>2. Credited(b) + e \in Int /\ Len(b.log) \in Int
        BY <1>1, <4>1
      <4> QED BY <1>1, <4>1, <4>2
    <3> QED BY <3>1
  <2>2. PerSecond * 0 = 0 /\ Token * 1 = Token /\ Full * 1 = Full
    BY FullFacts, LimiterAssumption
  <2>3. Left(a, Len(b.log) + 1) = Full * 1 + PerSecond * 0 - Token * 1
    BY <2>1 DEF Left
  <2> QED BY <2>2, <2>3, FullFacts
<1>7. a.tokens = tokens - n * Token /\ n * Token \in Nat /\ (n = 1 => n * Token = Token)
  BY <1>1, FullFacts
<1>8. \A j \in DOMAIN b.log : Left(b, j) \in Int
  BY LeftType
<1>9. /\ \/ b.tokens = Full
         \/ \E j \in DOMAIN b.log : b.log[j].trims = b.trims /\ b.tokens = Left(b, j)
      /\ \A j \in DOMAIN b.log : b.tokens <= Left(b, j)
  BY DEF Meets
<1> DEFINE r == e * PerSecond
           k == n * Token
<1>10. /\ r \in Nat /\ k \in Nat /\ a.tokens = tokens - k /\ k <= Full
       /\ (n = 1 => k = Token) /\ (n = 0 => k = 0) /\ n \in {0, 1}
       /\ \A j \in DOMAIN b.log : Left(a, j) = Left(b, j) + r - k
       /\ tokens = IF b.tokens + r <= Full THEN b.tokens + r ELSE Full
       /\ (n = 0 => tokens < Token)
  BY <1>1, <1>2, <1>3, <1>5, <1>7, FullFacts
<1> HIDE DEF r, k, n
<1>11. /\ a.tokens <= Full
       /\ \A j \in DOMAIN b.log : a.tokens <= Left(a, j)
       /\ n = 1 => a.tokens <= Left(a, Len(b.log) + 1)
  <2>1. ASSUME NEW j \in DOMAIN b.log PROVE a.tokens <= Left(a, j)
    <3> DEFINE l == Left(b, j)  m == Left(a, j)  x == b.tokens  y == a.tokens
    <3>1. /\ l \in Int /\ m = l + r - k /\ x <= l /\ x \in Nat /\ Full \in Nat
          /\ y = tokens - k /\ tokens <= x + r /\ tokens \in Nat
      <4>1. l \in Int /\ m = l + r - k /\ x <= l
        BY <1>8, <1>9, <1>10
      <4>2. x \in 0..Full /\ Full \in Nat /\ tokens \in 0..Full /\ y = tokens - k
        BY <1>1, <1>2, <1>10, FullFacts
      <4>3. tokens = IF x + r <= Full THEN x + r ELSE Full
        BY <1>10
      <4> HIDE DEF l, m, x, y
      <4>4. tokens <= x + r /\ x \in Nat /\ tokens \in Nat
        BY <1>10, <4>2, <4>3
      <4> QED BY <4>1, <4>2, <4>4
    <3> HIDE DEF l, m, x, y
    <3>2. y <= m
      BY <1>10, <3>1
    <3> QED BY <3>2 DEF m, y
  <2>2. a.tokens <= Full /\ a.tokens <= Full - k
    <3>1. /\ a.tokens = tokens - k /\ tokens \in Int /\ 0 <= tokens /\ tokens <= Full
          /\ k \in Int /\ 0 <= k /\ Full \in Int
      BY <1>1, <1>10, FullFacts
    <3> QED BY <3>1
  <2> QED BY <2>1, <2>2, <1>6, <1>10
<1>12. \/ a.tokens = Full
       \/ n = 1 /\ a.tokens = Left(a, Len(b.log) + 1)
       \/ \E j \in DOMAIN b.log : b.log[j].trims = b.trims /\ a.tokens = Left(a, j)
  <2>1. CASE tokens = Full
    <3>1. n = 1
      BY <2>1, <1>10, FullFacts
    <3> QED BY <2>1, <3>1, <1>6, <1>10
  <2>2. CASE tokens # Full /\ b.tokens = Full
    BY <2>2, <1>2, <1>10, FullFacts
  <2>3. ASSUME tokens # Full, NEW j \in DOMAIN b.log, b.tokens = Left(b, j)
        PROVE  a.tokens = Left(a, j)
    BY <2>3, <1>1, <1>2, <1>8, <1>10, FullFacts
  <2> QED BY <1>9, <2>1, <2>2, <2>3
<1>13. \A j \in DOMAIN a.log : j \in DOMAIN b.log \/ (n = 1 /\ j = Len(b.log) + 1)
  BY <1>4, <1>10
<1>14. n = 1 => Len(b.log) + 1 \in DOMAIN a.log
  BY <1>4
<1>15. n = 1 => a.log[Len(b.log) + 1].trims = a.trims
  BY <1>1, <1>4
<1>16. Meets(a)
  BY <1>1, <1>4, <1>11, <1>12, <1>13, <1>14, <1>15 DEF Meets
<1> QED BY <1>1, <1>16 DEF a

(* What the fresh bucket of a client adds to the history of its last one. *)
LEMMA ReturnKeeps ==
  ASSUME NEW b \in Bucket, Meets(b), NEW t \in Nat
  PROVE  Returning(b, t) \in Bucket /\ Meets(Returning(b, t))
<1> DEFINE e == Elapsed(b, t)
           a == Returning(b, t)
           more == IF b.tokens + e * PerSecond >= Full THEN 0 ELSE 1
<1>1. /\ e \in Nat /\ Behind(b, t) \in Nat /\ Credited(b) \in Nat
      /\ t + Behind(b, t) = Credited(b) + e
  BY BehindFacts
<1>2. /\ b.tokens \in 0..Full /\ b.trims \in Nat /\ b.log \in Seq([at : Nat, trims : Nat])
      /\ e * PerSecond \in Nat /\ Full \in Nat
  BY <1>1, RefillFacts, FullFacts DEF Bucket
<1>3. /\ a.tokens = Full /\ a.log = b.log /\ a.trims = b.trims + more
      /\ Credited(a) = Credited(b) + e
  BY <1>1 DEF Returning, Credited
<1>4. b.trims + more \in Nat
  BY <1>2
<1>5. a \in Bucket
  <2> HIDE DEF more, e
  <2>1. Full \in 0..Full
    BY <1>2
  <2>2. a = [tokens |-> Full, last |-> t, behind |-> Behind(b, t), log |-> b.log,
             trims |-> b.trims + more]
    BY DEF Returning, more, e
  <2> HIDE DEF a
  <2> QED BY <1>1, <1>2, <1>4, <2>1, <2>2 DEF Bucket
<1>m. /\ more \in {0, 1}
      /\ more = 0 <=> b.tokens + e * PerSecond >= Full
  OBVIOUS
<1> HIDE DEF a, more, e
<1>6. ASSUME NEW j \in DOMAIN b.log PROVE Full <= Left(a, j)
  <2>1. Len(a.log) = Len(b.log) + 0 /\ j \in DOMAIN a.log /\ a.log[j] = b.log[j]
    BY <1>2, <1>3
  <2>2. Left(a, j) = Left(b, j) + (Bursts(a, j) - Bursts(b, j)) + e * PerSecond - 0 * Token
    BY <1>1, <1>3, <1>5, <2>1, TakeLeft
  <2>3. b.tokens <= Left(b, j) /\ Left(b, j) \in Int /\ Bursts(b, j) \in Int
    BY LeftType DEF Meets
  <2>4. Bursts(a, j) = Bursts(b, j) + Full * more
    <3> DEFINE u == b.log[j].trims  x == 1 + b.trims - u
    <3>1. u \in Nat /\ b.trims \in Nat /\ a.log[j].trims = u
      BY <2>1, BucketTypes
    <3> HIDE DEF u
    <3>2. x \in Int /\ more \in Int /\ 1 + a.trims - a.log[j].trims = x + more
      BY <1>m, <1>3, <3>1
    <3> HIDE DEF x
    <3>3. Full * (x + more) = Full * x + Full * more
      BY <1>2, <3>2, Distribute
    <3> QED BY <3>2, <3>3 DEF Bursts, x, u
  <2>5. 0 * Token = 0 /\ Full * 0 = 0 /\ Full * 1 = Full
    BY <1>2, FullFacts
  <2> DEFINE l == Left(b, j)  f == Bursts(b, j)  r == e * PerSecond
  <2>6. CASE b.tokens + r >= Full
    <3>1. more = 0
      BY <1>m, <2>6
    <3>2. Left(a, j) = l + ((f + 0) - f) + r - 0
      BY <2>2, <2>4, <2>5, <3>1
    <3> HIDE DEF l, f, r
    <3>3. l \in Int /\ f \in Int /\ r \in Nat /\ b.tokens \in Int /\ b.tokens <= l
      BY <1>2, <2>3 DEF l, f, r
    <3> QED BY <1>2, <2>6, <3>2, <3>3
  <2>7. CASE ~(b.tokens + r >= Full)
    <3>1. more = 1
      BY <1>m, <2>7
    <3>2. Left(a, j) = l + ((f + Full) - f) + r - 0
      BY <2>2, <2>4, <2>5, <3>1
    <3> HIDE DEF l, f, r
    <3>3. l \in Int /\ f \in Int /\ r \in Nat /\ b.tokens \in Nat /\ b.tokens <= l
      BY <1>2, <2>3 DEF l, f, r
    <3> QED BY <1>2, <3>2, <3>3
  <2> QED BY <2>6, <2>7
<1>7. Meets(a)
  BY <1>3, <1>6 DEF Meets
<1> QED BY <1>5, <1>7 DEF a
-----------------------------------------------------------------------------
(* The map. *)

LEMMA FreshMeets ==
  ASSUME NEW t \in Nat
  PROVE  Fresh(t) \in Bucket /\ Meets(Fresh(t))
<1>1. Fresh(t) \in Bucket
  BY FullFacts DEF Fresh, Bucket
<1>2. Fresh(t).tokens = Full /\ DOMAIN Fresh(t).log = {}
  BY DEF Fresh
<1> QED BY <1>1, <1>2, FullFacts DEF Meets

LEMMA EntryMeets ==
  ASSUME LimiterInv, NEW c, NEW t \in Nat
  PROVE  Entry(c, t) \in Bucket /\ Meets(Entry(c, t))
<1>1. CASE c \in Tracked
  BY <1>1 DEF Entry, LimiterInv, TypeOK, Metered
<1>2. CASE c \notin Tracked /\ c \in DOMAIN evicted
  <2>1. evicted[c] \in Bucket /\ Meets(evicted[c])
    BY <1>2 DEF LimiterInv, TypeOK, Metered
  <2> QED BY <1>2, <2>1, ReturnKeeps DEF Entry
<1>3. CASE c \notin Tracked /\ c \notin DOMAIN evicted
  BY <1>3, FreshMeets DEF Entry
<1> QED BY <1>1, <1>2, <1>3

(* Whatever eviction leaves, there is room for one more. *)
LEMMA EvictBounds ==
  ASSUME IsFiniteSet(Tracked), NEW t, NEW rest \in Evict(t)
  PROVE  /\ rest \subseteq Tracked /\ IsFiniteSet(rest)
         /\ Cardinality(rest) <= MaxTracked
<1> DEFINE young == {c \in Tracked : Elapsed(buckets[c], t) < IdleSeconds * TicksPerSecond}
           keep == (MaxTracked * 9) \div 10
<1>1. young \subseteq Tracked /\ IsFiniteSet(young) /\ Cardinality(young) \in Nat
  BY FS_Subset, FS_CardinalityType
<1>2. keep \in Nat /\ keep <= MaxTracked /\ MaxTracked \in Nat
  BY LimiterAssumption
<1>3. \/ rest = young /\ Cardinality(young) <= MaxTracked
      \/ rest \subseteq young /\ Cardinality(young \ rest) = Cardinality(young) - keep
  BY DEF Evict
<1> HIDE DEF young, keep
<1>4. CASE rest \subseteq young /\ Cardinality(young \ rest) = Cardinality(young) - keep
  <2>1. IsFiniteSet(rest) /\ Cardinality(rest) \in Nat /\ young \cap rest = rest
    BY <1>1, <1>4, FS_Subset, FS_CardinalityType
  <2>2. Cardinality(young \ rest) = Cardinality(young) - Cardinality(rest)
    BY <1>1, <2>1, FS_Difference
  <2> QED BY <1>1, <1>2, <1>4, <2>1, <2>2
<1> QED BY <1>1, <1>3, <1>4

LEMMA CheckStep ==
  ASSUME LimiterInv, NEW r \in Requests, Check(r)
  PROVE  LimiterInv'
<1> DEFINE c == waiting[r].client
           t == waiting[r].now
           b == Entry(c, t)
<1>1. c \in Clients /\ t \in Nat /\ Tracked \subseteq Clients
  BY DEF LimiterInv, TypeOK, Check
<1>2. PICK rest \in IF Cardinality(Tracked) > MaxTracked /\ c \notin Tracked
                   THEN Evict(t) ELSE {Tracked} :
        /\ buckets' = [d \in rest \cup {c} |-> IF d = c THEN Take(b, t) ELSE buckets[d]]
        /\ evicted' = [d \in (Tracked \cup DOMAIN evicted) \ (rest \cup {c}) |->
                         IF d \in Tracked THEN buckets[d] ELSE evicted[d]]
  BY DEF Check
<1>3. b \in Bucket /\ Meets(b)
  BY <1>1, EntryMeets
<1>4. /\ rest \subseteq Tracked /\ IsFiniteSet(rest)
      /\ Cardinality(rest \cup {c}) <= MaxTracked + 1
  <2>1. Cardinality(Tracked) \in Nat /\ MaxTracked \in Nat
    BY FS_CardinalityType, LimiterAssumption DEF LimiterInv
  <2>2. CASE Cardinality(Tracked) > MaxTracked /\ c \notin Tracked
    <3>1. rest \subseteq Tracked /\ IsFiniteSet(rest) /\ Cardinality(rest) <= MaxTracked
      BY <1>2, <2>2, EvictBounds DEF LimiterInv
    <3>2. Cardinality(rest) \in Nat
      BY <3>1, FS_CardinalityType
    <3> QED BY <2>1, <3>1, <3>2, FS_AddElement
  <2>3. CASE ~(Cardinality(Tracked) > MaxTracked /\ c \notin Tracked)
    <3>1. rest = Tracked /\ IsFiniteSet(Tracked) /\ Cardinality(Tracked) <= MaxTracked + 1
      BY <1>2, <2>3 DEF LimiterInv, TypeOK
    <3> HIDE DEF c
    <3>2. CASE c \in Tracked
      <4>1. rest \cup {c} = Tracked
        BY <3>1, <3>2
      <4> QED BY <3>1, <4>1
    <3>3. CASE c \notin Tracked
      <4>1. Cardinality(Tracked \cup {c}) = Cardinality(Tracked) + 1
        BY <3>1, <3>3, FS_AddElement
      <4>2. Cardinality(Tracked) <= MaxTracked
        BY <2>1, <2>3, <3>3
      <4> QED BY <2>1, <3>1, <4>1, <4>2
    <3> QED BY <3>2, <3>3
  <2> QED BY <2>2, <2>3
<1>5. Tracked' = rest \cup {c} /\ IsFiniteSet(Tracked')
  BY <1>2, <1>4, FS_AddElement DEF Tracked
<1>6. Take(b, t) \in Bucket /\ Meets(Take(b, t))
  BY <1>1, <1>3, TakeKeeps
<1>7. /\ \A d \in rest : buckets[d] \in Bucket /\ Meets(buckets[d])
      /\ \A d \in Tracked' : d # c => d \in rest
  BY <1>4, <1>5 DEF LimiterInv, TypeOK, Metered
<1> HIDE DEF b
<1>8. \A d \in Tracked' : buckets'[d] \in Bucket /\ Meets(buckets'[d])
  BY <1>2, <1>5, <1>6, <1>7
<1>9. buckets' \in [Tracked' -> Bucket]
  BY <1>2, <1>5, <1>8
<1>10. waiting' \in [Requests -> [client : Clients, now : Nat] \cup {None}] /\ clock' \in Nat
  BY DEF LimiterInv, TypeOK, Check
<1>e. /\ DOMAIN evicted' \subseteq Clients \ Tracked'
      /\ evicted' \in [DOMAIN evicted' -> Bucket]
      /\ \A d \in DOMAIN evicted' : Meets(evicted'[d])
  <2>1. DOMAIN evicted' = (Tracked \cup DOMAIN evicted) \ (rest \cup {c})
    BY <1>2
  <2>2. /\ \A d \in Tracked : buckets[d] \in Bucket /\ Meets(buckets[d])
        /\ \A d \in DOMAIN evicted : evicted[d] \in Bucket /\ Meets(evicted[d])
        /\ DOMAIN evicted \subseteq Clients
    BY DEF LimiterInv, TypeOK, Metered
  <2>3. \A d \in DOMAIN evicted' :
          evicted'[d] = IF d \in Tracked THEN buckets[d] ELSE evicted[d]
    BY <1>2, <2>1
  <2>4. \A d \in DOMAIN evicted' : evicted'[d] \in Bucket /\ Meets(evicted'[d])
    BY <2>1, <2>2, <2>3
  <2>5. evicted' = [d \in DOMAIN evicted' |-> evicted'[d]]
    BY <1>2, <2>1
  <2> HIDE DEF c, t
  <2> QED BY <1>1, <1>5, <2>1, <2>2, <2>4, <2>5
<1>11. TypeOK'
  BY <1>1, <1>4, <1>5, <1>9, <1>10, <1>e DEF TypeOK, Bucket, Full, Token
<1>12. Metered'
  BY <1>8, <1>e DEF Metered, Meets, Left, Credited, Full, Token
<1> QED BY <1>5, <1>11, <1>12 DEF LimiterInv

LEMMA NextStep ==
  ASSUME LimiterInv, [Next]_vars
  PROVE  LimiterInv'
<1>1. ASSUME UNCHANGED <<buckets, evicted>>, clock' \in Nat,
             waiting' \in [Requests -> [client : Clients, now : Nat] \cup {None}]
      PROVE  LimiterInv'
  BY <1>1 DEF LimiterInv, TypeOK, Tracked, Metered, Meets, Left, Credited, Bucket, Full, Token
<1>2. CASE Tick
  BY <1>1, <1>2 DEF Tick, LimiterInv, TypeOK
<1>3. ASSUME NEW r \in Requests, NEW c \in Clients, Arrive(r, c) PROVE LimiterInv'
  <2>1. [client |-> c, now |-> clock] \in [client : Clients, now : Nat]
    BY DEF LimiterInv, TypeOK
  <2> QED BY <1>1, <1>3, <2>1 DEF Arrive, LimiterInv, TypeOK
<1>4. CASE UNCHANGED vars
  BY <1>1, <1>4 DEF vars, LimiterInv, TypeOK
<1> QED BY <1>2, <1>3, <1>4, CheckStep DEF Next

LEMMA InitInv ==
  ASSUME Init PROVE LimiterInv
<1>1. Tracked = {}
  BY DEF Init, Tracked
<1>2. IsFiniteSet({}) /\ Cardinality({}) = 0
  BY FS_EmptySet
<1>3. DOMAIN evicted = {}
  BY DEF Init
<1> QED BY <1>1, <1>2, <1>3, LimiterAssumption DEF LimiterInv, Init, TypeOK, Metered

THEOREM LimiterCorrect == Spec => []LimiterInv
<1>1. Init => LimiterInv
  BY InitInv
<1>2. LimiterInv /\ [Next]_vars => LimiterInv'
  BY NextStep
<1> QED BY <1>1, <1>2, PTL DEF Spec

(* The types, and the bound on the map: never more than one client above      *)
(* MAX_TRACKED_IPS, however many come.                                         *)
THEOREM TypeCorrect == Spec => []TypeOK
<1>1. LimiterInv => TypeOK
  BY DEF LimiterInv
<1> QED BY <1>1, LimiterCorrect, PTL

(* Every bucket holds exactly what the history of its client leaves of a burst *)
(* and the time credited, and a client gains no more than a burst each time    *)
(* its bucket is evicted before it had refilled.                               *)
THEOREM BucketsMeter == Spec => []Metered
<1>1. LimiterInv => Metered
  BY DEF LimiterInv
<1> QED BY <1>1, LimiterCorrect, PTL
=============================================================================
