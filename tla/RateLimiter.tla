---------------------------- MODULE RateLimiter ----------------------------
(***************************************************************************)
(* The token buckets of rate_limit.rs.  A request reads the clock in the   *)
(* middleware and takes the mutex afterwards, so buckets see the times of  *)
(* overlapping requests in any order.                                      *)
(*                                                                         *)
(* Tokens are counted in parts, TicksPerSecond of them to a token, so that *)
(* a tick refills PerSecond parts.  A limiter with per_second = 0 lets     *)
(* everything pass and is left out.                                        *)
(***************************************************************************)
EXTENDS Integers, FiniteSets, Sequences

CONSTANTS
  Clients, Requests,
  PerSecond, Burst,   \* RATE_LIMIT_PER_SECOND and RATE_LIMIT_BURST
  MaxTracked,         \* MAX_TRACKED_IPS
  IdleSeconds,        \* IDLE_EVICT_SECS
  TicksPerSecond,
  MaxClock,           \* bound: the last tick
  None

ASSUME LimiterAssumption ==
  /\ PerSecond \in Nat \ {0} /\ Burst \in Nat
  /\ MaxTracked \in Nat \ {0} /\ IdleSeconds \in Nat \ {0}
  /\ TicksPerSecond \in Nat \ {0} /\ MaxClock \in Nat
  /\ None \notin [client : Clients, now : Nat]

VARIABLES
  clock,
  waiting,   \* for each request: its client and the time it read
  buckets,   \* of the tracked clients; behind, log and trims only serve the properties
  evicted    \* history: the last bucket of the clients no longer tracked

vars == <<clock, waiting, buckets, evicted>>

Token == TicksPerSecond

Full == (IF Burst = 0 THEN 1 ELSE Burst) * Token

Least(a, b) == IF a <= b THEN a ELSE b

Tracked == DOMAIN buckets

Bucket ==
  [tokens : 0..Full, last : Nat,
   behind : Nat,                             \* how far `last` was set back
   log : Seq([at : Nat, trims : Nat]),       \* the admissions
   trims : Nat]                              \* see Returning

(* The map is bounded however many clients come: MAX_TRACKED_IPS and the one
   that the next new client will notice is too many. *)
TypeOK ==
  /\ clock \in Nat
  /\ waiting \in [Requests -> [client : Clients, now : Nat] \cup {None}]
  /\ Tracked \subseteq Clients
  /\ buckets \in [Tracked -> Bucket]
  /\ DOMAIN evicted \subseteq Clients \ Tracked
  /\ evicted \in [DOMAIN evicted -> Bucket]
  /\ Cardinality(Tracked) <= MaxTracked + 1

Init ==
  /\ clock = 0
  /\ waiting = [r \in Requests |-> None]
  /\ buckets = [c \in {} |-> 0]
  /\ evicted = [c \in {} |-> 0]

Tick ==
  /\ clock < MaxClock
  /\ clock' = clock + 1
  /\ UNCHANGED <<waiting, buckets, evicted>>

(* middleware: the client and the time of a request. *)
Arrive(r, c) ==
  /\ waiting[r] = None
  /\ waiting' = [waiting EXCEPT ![r] = [client |-> c, now |-> clock]]
  /\ UNCHANGED <<clock, buckets, evicted>>

-----------------------------------------------------------------------------
(* check, under the mutex. *)

Elapsed(b, t) == IF t > b.last THEN t - b.last ELSE 0

(* A seeded fault: evict stops after the idle buckets. *)
EvictIdle(t) ==
  {{c \in Tracked : Elapsed(buckets[c], t) < IdleSeconds * TicksPerSecond}}

(* evict: what may be left of the map.  Buckets of the same age go in any
   order. *)
Evict(t) ==
  LET young == {c \in Tracked : Elapsed(buckets[c], t) < IdleSeconds * TicksPerSecond}
      excess == Cardinality(young) - (MaxTracked * 9) \div 10
  IN IF Cardinality(young) <= MaxTracked THEN {young}
     ELSE {rest \in SUBSET young :
             /\ Cardinality(young \ rest) = excess
             /\ \A c \in young \ rest, d \in rest : buckets[c].last <= buckets[d].last}

Fresh(t) == [tokens |-> Full, last |-> t, behind |-> 0, log |-> <<>>, trims |-> 0]

(* The time a bucket has been credited with. *)
Credited(b) == b.last + b.behind

Behind(b, t) == b.behind + (IF t < b.last THEN b.last - t ELSE 0)

(* A client whose bucket was evicted gets a fresh one as any other does.  That
   gives it tokens if its last bucket would not be full by now. *)
Returning(b, t) ==
  [tokens |-> Full, last |-> t, behind |-> Behind(b, t), log |-> b.log,
   trims |-> b.trims + IF b.tokens + Elapsed(b, t) * PerSecond >= Full THEN 0 ELSE 1]

Admission(b, t) == [at |-> t + Behind(b, t), trims |-> b.trims]

(* A seeded fault: a refused request does not move the time. *)
TakeLazily(b, t) ==
  LET tokens == Least(b.tokens + Elapsed(b, t) * PerSecond, Full)
  IN IF tokens >= Token
     THEN [tokens |-> tokens - Token, last |-> t, behind |-> Behind(b, t),
           log |-> Append(b.log, Admission(b, t)), trims |-> b.trims]
     ELSE [b EXCEPT !.tokens = tokens]

(* Refill, then take a token if there is one.  A time before the last one
   refills nothing and is stored all the same. *)
Take(b, t) ==
  LET tokens == Least(b.tokens + Elapsed(b, t) * PerSecond, Full)
      admitted == tokens >= Token
  IN [tokens |-> IF admitted THEN tokens - Token ELSE tokens,
      last |-> t,
      behind |-> Behind(b, t),
      log |-> IF admitted THEN Append(b.log, Admission(b, t)) ELSE b.log,
      trims |-> b.trims]

(* The bucket of the map, or the one or_insert puts there. *)
Entry(c, t) ==
  IF c \in Tracked THEN buckets[c]
  ELSE IF c \in DOMAIN evicted THEN Returning(evicted[c], t) ELSE Fresh(t)

Check(r) ==
  /\ waiting[r] # None
  /\ waiting' = [waiting EXCEPT ![r] = None]
  /\ UNCHANGED clock
  /\ LET c == waiting[r].client
         t == waiting[r].now
     IN \E rest \in IF Cardinality(Tracked) > MaxTracked /\ c \notin Tracked
                     THEN Evict(t) ELSE {Tracked} :
          /\ buckets' = [d \in rest \cup {c} |-> IF d = c THEN Take(Entry(c, t), t) ELSE buckets[d]]
          /\ evicted' = [d \in (Tracked \cup DOMAIN evicted) \ (rest \cup {c}) |->
                           IF d \in Tracked THEN buckets[d] ELSE evicted[d]]

Next ==
  \/ Tick
  \/ \E r \in Requests : Check(r) \/ \E c \in Clients : Arrive(r, c)

Spec == Init /\ [][Next]_vars
-----------------------------------------------------------------------------
(* Properties. *)

(* What the admissions from the j-th on leave of a burst, the time credited     *)
(* since, and the bursts of fresh buckets since.                               *)
Left(b, j) ==
  Full * (1 + b.trims - b.log[j].trims) + PerSecond * (Credited(b) - b.log[j].at)
    - Token * (Len(b.log) - j + 1)

Meets(b) ==
  /\ \A j \in DOMAIN b.log : b.tokens <= Left(b, j)
  /\ \/ b.tokens = Full
     \/ \E j \in DOMAIN b.log : b.log[j].trims = b.trims /\ b.tokens = Left(b, j)

(* A bucket, which remembers two numbers, holds exactly what the history of its *)
(* client leaves.  In any window a client is admitted no more than burst +     *)
(* rate x time, and one more burst for each time its bucket was evicted before *)
(* it had refilled; and it is never refused while it keeps to burst + rate x   *)
(* time.  The time is the time credited: when a request is overtaken on its    *)
(* way to the mutex the clock of the bucket is set back, and the time in       *)
(* between counts twice.                                                       *)
Metered ==
  /\ \A c \in Tracked : Meets(buckets[c])
  /\ \A c \in DOMAIN evicted : Meets(evicted[c])
=============================================================================
