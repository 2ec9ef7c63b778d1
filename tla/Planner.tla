------------------------------- MODULE Planner -------------------------------
(***************************************************************************)
(* The replica planner (pkg/controller/util/planner/planner.go).  Plan      *)
(* hands TotalReplicas out in passes over the clusters in the order of      *)
(* their weights: first the minima, then, unless it may rebalance, what     *)
(* runs already, then shares of the rest, rounded up, until nothing is left *)
(* or no cluster takes more.                                                *)
(*                                                                         *)
(* An input i is a record of the preferences (total, rebalance, clusters)   *)
(* and the state of the members (available, current, capacity).             *)
(***************************************************************************)
EXTENDS Integers, Sequences, FiniteSets, SequencesExt, FiniteSetsExt

CONSTANT Hash    \* of a cluster's name and the key, which orders equal weights

\* ClusterPreferences; a cluster without a maximum has none in maxima.
Preference == [weight : Nat, minimum : Nat, maxima : SUBSET Nat]

Preferred(i) == {c \in i.available : c \in DOMAIN i.clusters \/ "*" \in DOMAIN i.clusters}
PreferenceOf(i, c) == i.clusters[IF c \in DOMAIN i.clusters THEN c ELSE "*"]

\* Less of byWeight; clusters with the same weight and hash may come in any order.
Before(i, a, b) ==
  LET x == PreferenceOf(i, a).weight
      y == PreferenceOf(i, b).weight
  IN  x > y \/ (x = y /\ Hash[a] < Hash[b])

byWeight(i) ==
  CHOOSE o \in SetToSeqs(Preferred(i)) : \A j, k \in DOMAIN o : j < k => ~Before(i, o[k], o[j])

Capacity(i, c) == IF c \in DOMAIN i.capacity THEN {i.capacity[c]} ELSE {}
Limits(i, c) == PreferenceOf(i, c).maxima \cup Capacity(i, c)

\* The minimum of a cluster, as far as the replicas and its capacity go.
AssignMinimum(i, s, c) ==
  LET least == Min({PreferenceOf(i, c).minimum, s.remaining} \cup Capacity(i, c))
  IN  [s EXCEPT !.remaining = @ - least, !.plan[c] = least]

\* mutant: what runs is not looked at
PreallocateNothing(i, s, c) == s
\* What runs in a cluster beyond that, unless the replicas may be moved.
Preallocate(i, s, c) ==
  IF i.rebalance \/ c \notin DOMAIN i.current \/ i.current[c] <= s.plan[c] THEN s
  ELSE LET target == Min({i.current[c]} \cup Limits(i, c))
           extra == Max({0, Min({target - s.plan[c], s.remaining})})
       IN  [s EXCEPT !.remaining = @ - extra, !.preallocated[c] = extra, !.plan[c] = @ + extra]

\* mutant: a share is rounded down
ShareDown(due, weight, sum) == (due * weight) \div sum
Share(due, weight, sum) == (due * weight + sum - 1) \div sum

\* One cluster in a pass that distributes due; what was preallocated to it counts as
\* a part of its share, and a cluster that would exceed a limit is left out later.
Distribute(i, due, sum, s, c) ==
  LET start == s.plan[c]
      extra == Min({Share(due, PreferenceOf(i, c).weight, sum), s.remaining})
      used == Min({extra, s.preallocated[c]})
      upto == Min({start + extra - used} \cup PreferenceOf(i, c).maxima)
      total == Min({upto} \cup Capacity(i, c))
  IN  [s EXCEPT !.preallocated[c] = @ - used,
                !.plan[c] = total,
                !.remaining = @ - (total - start),
                !.overflow[c] = IF total < upto THEN upto - total ELSE @,
                !.left = IF total < start + extra - used THEN @ ELSE Append(@, c),
                !.modified = @ \/ used > 0 \/ total > start]

\* Without weights no cluster takes part any more.
Pass(i, s) ==
  LET sum == SumFunction([n \in 1 .. Len(s.left) |-> PreferenceOf(i, s.left[n]).weight])
      begin == [s EXCEPT !.left = << >>, !.modified = FALSE, !.passes = @ + 1]
  IN  IF sum = 0 THEN begin
      ELSE FoldLeft(LAMBDA t, c : Distribute(i, s.remaining, sum, t, c), begin, s.left)

\* The passes; Most is more than there can be.
Passes(i, first) ==
  LET Most == 2 * i.total + 2
      after[n \in 0 .. Most] ==
        IF n = 0 THEN first
        ELSE LET s == after[n - 1] IN IF s.modified /\ s.remaining > 0 THEN Pass(i, s) ELSE s
  IN  after[Most]

\* mutant: the overflow is always trimmed
TrimmedAlways(i, s) == [c \in DOMAIN s.overflow |-> Min({s.overflow[c], s.remaining})]
Trimmed(i, s) ==
  IF i.rebalance THEN s.overflow ELSE [c \in DOMAIN s.overflow |-> Min({s.overflow[c], s.remaining})]

\* plan and overflow, and how many passes it took.
Plan(i) ==
  LET order == byWeight(i)
      zero == [c \in i.available |-> 0]
      empty == [plan |-> zero, preallocated |-> zero, overflow |-> zero, remaining |-> i.total,
                left |-> order, modified |-> TRUE, passes |-> 0]
      minima == FoldLeft(LAMBDA s, c : AssignMinimum(i, s, c), empty, order)
      kept == FoldLeft(LAMBDA s, c : Preallocate(i, s, c), minima, order)
      s == Passes(i, kept)
  IN  [plan |-> s.plan, overflow |-> Trimmed(i, s), passes |-> s.passes]
-----------------------------------------------------------------------------
(* What a plan promises                                                    *)

Full(i, p, c) == \E limit \in Limits(i, c) : p.plan[c] >= limit

\* Not beyond the capacity, and beyond a maximum only where the minimum is: no validation
\* keeps a user from that.
Within(i, c, v) ==
  /\ \A limit \in Capacity(i, c) : v <= limit
  /\ \A limit \in PreferenceOf(i, c).maxima : v <= Max({limit, PreferenceOf(i, c).minimum})

\* Not more than what was asked for, nothing beyond a limit, and everything, unless
\* each cluster that has a weight is full.
Complete(i, p) ==
  /\ SumFunction(p.plan) <= i.total
  /\ \A c \in Preferred(i) : p.plan[c] >= 0 /\ Within(i, c, p.plan[c])
  /\ \/ SumFunction(p.plan) = i.total
     \/ \A c \in Preferred(i) : PreferenceOf(i, c).weight > 0 => Full(i, p, c)

\* What runs is kept, within the limits, when the minima leave enough for it.
Kept(i, p) ==
  LET runs(c) == IF c \in DOMAIN i.current THEN Min({i.current[c]} \cup Limits(i, c)) ELSE 0
      least(c) == Max({PreferenceOf(i, c).minimum, runs(c)})
  IN  SumFunction([c \in Preferred(i) |-> least(c)]) <= i.total =>
        \A c \in Preferred(i) : p.plan[c] >= runs(c)

\* Each pass but the last takes from what remains or what is preallocated.  The
\* logarithmic bound of planner.go:163 does not hold: one cluster that keeps n replicas
\* and gets one more takes n + 1 passes.
Quick(i, p) == p.passes <= i.total + 1
=============================================================================
