----------------------------- MODULE MvpWindow -----------------------------
(***************************************************************************)
(* The rate window of mvp (mpv/stats.c): a ring of buckets, each with the  *)
(* bytes of some seconds, head the newest.  Times are whole numbers here.  *)
(***************************************************************************)
EXTENDS Integers, Sequences, FiniteSetsExt

CONSTANTS MaxBuckets, Span, WinSec, BucketSec

None == [t_end |-> 0, bytes |-> 0]
Window == [buckets |-> [i \in 0 .. MaxBuckets - 1 |-> None], head |-> 0, count |-> 0, bytes_total |-> 0]

\* The bucket so many before the newest.
Before(w, i) == (w.head + MaxBuckets - i) % MaxBuckets

\* An empty window starts again at bucket 0.
Started(w, now) ==
  IF w.count # 0 THEN w
  ELSE [w EXCEPT !.head = 0, !.count = 1, !.buckets[0] = [t_end |-> now + BucketSec, bytes |-> 0]]

\* How many buckets are given up: from the one behind the newest on, while
\* they are too old and the count, which shrinks with every one, allows it.
Expiring(w, now) ==
  Min({i \in 0 .. w.count : i >= w.count - i \/ w.buckets[Before(w, i + 1)].t_end >= now - Span})

Expired(w, now) ==
  LET old == {Before(w, i) : i \in 1 .. Expiring(w, now)}
  IN  [w EXCEPT !.buckets = [i \in DOMAIN @ |-> IF i \in old THEN None ELSE @[i]],
                !.count = @ - Cardinality(old),
                !.bytes_total = @ - MapThenSumSet(LAMBDA i : w.buckets[i].bytes, old)]

\* (Mutant of Turned: the oldest is still counted.)
Turned_Counted(w) ==
  LET next == (w.head + 1) % MaxBuckets
  IN  [w EXCEPT !.head = next, !.count = Min({@ + 1, MaxBuckets}),
                !.buckets[next] = [t_end |-> w.buckets[w.head].t_end + BucketSec, bytes |-> 0]]

\* One bucket on; the oldest is written over once the ring is full.
Turned(w) ==
  LET next == (w.head + 1) % MaxBuckets
  IN  [w EXCEPT !.head = next, !.count = Min({@ + 1, MaxBuckets}),
                !.bytes_total = @ - w.buckets[next].bytes,
                !.buckets[next] = [t_end |-> w.buckets[w.head].t_end + BucketSec, bytes |-> 0]]

\* As many as now is behind the newest.
Advanced(w, now) ==
  LET on[n \in Nat] == IF n = 0 THEN w ELSE Turned(on[n - 1])
  IN  on[Max({0, (now - w.buckets[w.head].t_end + BucketSec - 1) \div BucketSec})]

Add(w, now, bytes) ==
  LET a == Advanced(Expired(Started(w, now), now), now)
  IN  [a EXCEPT !.buckets[a.head].bytes = @ + bytes, !.bytes_total = @ + bytes]

\* mpv_window_rate: so many bytes in so many seconds.
Rate(w, now) ==
  LET effective == now - (w.buckets[Before(w, w.count - 1)].t_end - BucketSec)
  IN  IF w.count = 0 \/ effective <= 0 THEN [bytes |-> 0, seconds |-> 1]
      ELSE [bytes |-> w.bytes_total, seconds |-> Min({effective, WinSec})]
=============================================================================
