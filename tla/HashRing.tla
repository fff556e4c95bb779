------------------------------- MODULE HashRing -------------------------------
(***************************************************************************)
(* The consistent-hash ring of routing/ring.rs: the points of all backends *)
(* in the order of their hashes, and the walk from a key's hash to the     *)
(* first point of a routable backend.  SHA-256 is any function into        *)
(* Hashes, so points may collide.                                          *)
(***************************************************************************)
EXTENDS Naturals, Sequences, FiniteSets, SequencesExt

CONSTANTS
  Backends,   \* the indices of the backends in the pool
  VNodes,     \* the virtual nodes of a backend
  Hashes      \* what hash_key returns

Point == [hash : Hashes, id : Backends]

\* The order of sort_unstable on pairs.
PointBefore(p, q) == p.hash < q.hash \/ (p.hash = q.hash /\ p.id <= q.id)

\* The points of `at` in that order.  The i-th is the point that fewer than i of them
\* precede, and i or more of them precede or equal.
Sorted(at) ==
  LET upTo(p)   == Cardinality({x \in DOMAIN at : PointBefore(at[x], p)})
      before(p) == Cardinality({x \in DOMAIN at : at[x] # p /\ PointBefore(at[x], p)})
  IN  [i \in 1 .. Cardinality(DOMAIN at) |->
         CHOOSE p \in Point : before(p) < i /\ i <= upTo(p)]

\* Mutant of New: the points of the last backend are left out.
NewShort(hashOf) ==
  LET last == CHOOSE b \in Backends : \A c \in Backends : c <= b
  IN  Sorted([x \in (Backends \ {last}) \X VNodes |-> [hash |-> hashOf[x], id |-> x[1]]])

\* HashRing::new: one point per virtual node, where hashOf says it is.
New(hashOf) == Sorted([x \in Backends \X VNodes |-> [hash |-> hashOf[x], id |-> x[1]]])

\* partition_point: how many points lie before the key.
StartOf(points, key) == Cardinality({i \in DOMAIN points : points[i].hash < key})

\* The backend of the i-th point of the walk around the ring.
OnWalk(points, start, i) == points[((start + i) % Len(points)) + 1].id

\* lookup stops at step i of the walk: the first with a routable backend.
Found(points, start, routable, i) ==
  /\ OnWalk(points, start, i) \in routable
  /\ \A j \in 0 .. i - 1 : OnWalk(points, start, j) \notin routable
=============================================================================
