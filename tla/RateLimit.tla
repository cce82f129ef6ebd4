------------------------------ MODULE RateLimit ------------------------------
(***************************************************************************)
(* The sliding window of task creations (api/deps.py): a deque of times    *)
(* per fingerprint, kept in memory.  Operators only; Registry keeps the    *)
(* deques and the clock.                                                   *)
(***************************************************************************)
EXTENDS Integers, Sequences, FiniteSets

CONSTANTS
  Window,       \* CREATE_RATE_LIMIT_WINDOW_S
  MaxRequests,  \* CREATE_RATE_LIMIT_MAX_REQUESTS
  MaxBuckets    \* _RATE_BUCKET_MAX_SIZE

ASSUME RateLimitAssumption ==
  Window \in Nat \ {0} /\ MaxRequests \in Nat \ {0} /\ MaxBuckets \in Nat

(* What popleft leaves: all from the first time that is not before m.      *)
Since(b, m) ==
  LET recent == {i \in 1..Len(b) : b[i] >= m}
  IN IF recent = {} THEN <<>>
     ELSE SubSeq(b, CHOOSE i \in recent : \A j \in recent : i <= j, Len(b))

RecentHalfOpen(b, t) == Since(b, t - Window + 1)   \* fault: off by one
Recent(b, t) == Since(b, t - Window)

Stale(b, t) == b = <<>> \/ b[Len(b)] < t - Window

(* With too many deques, those without a recent time go.                   *)
Kept(bs, t) ==
  IF Cardinality(DOMAIN bs) > MaxBuckets
    THEN [k \in {k \in DOMAIN bs : ~Stale(bs[k], t)} |-> bs[k]]
    ELSE bs

(* The deque of k, made empty if there is none, then pruned.               *)
Pruned(bs, k, t) == IF k \in DOMAIN Kept(bs, t) THEN Recent(bs[k], t) ELSE <<>>

AdmitsOneMore(bs, k, t) == Len(Pruned(bs, k, t)) <= MaxRequests   \* fault: off by one
Admits(bs, k, t) == Len(Pruned(bs, k, t)) < MaxRequests

Counted(bs, k, t) ==
  LET b == Pruned(bs, k, t)
  IN [h \in {k} \union DOMAIN Kept(bs, t) |->
        IF h # k THEN bs[h] ELSE IF Admits(bs, k, t) THEN Append(b, t) ELSE b]
=============================================================================
