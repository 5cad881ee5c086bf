--------------------------- MODULE SeqlenBalancing ---------------------------
(* How rows of different lengths are shared out (utils/seqlen_balancing.py): *)
(* between data parallel ranks, as many to each, and between the micro        *)
(* batches of a rank.  Rows are positions 1..n of a sequence of lengths.      *)
EXTENDS Integers, Sequences, FiniteSets, SequencesExt

(* calculate_workload *)
Workload(l) == 24576 * l + l * l
Total(work, rows) ==
  LET sum[i \in 0..Len(rows)] == IF i = 0 THEN 0 ELSE sum[i - 1] + work[rows[i]]
  IN  sum[Len(rows)]

(* sorted, which leaves equals as they are: the place of an element is the    *)
(* number of those up to it.  (SubSeq changes nothing: it has TLC work the    *)
(* sequence out once.)                                                        *)
SortedBy(s, Before(_, _)) ==
  LET place == [j \in 1..Len(s) |-> Cardinality(
        {i \in 1..Len(s) : Before(s[i], s[j]) \/ (i <= j /\ ~Before(s[j], s[i]))})]
  IN  SubSeq([n \in 1..Len(s) |-> s[CHOOSE j \in 1..Len(s) : place[j] = n]], 1, Len(s))

Evens(s) == [i \in 1..((Len(s) + 1) \div 2) |-> s[2 * i - 1]]
Odds(s) == [i \in 1..(Len(s) \div 2) |-> s[2 * i]]

(* The largest differencing method of Karmarkar and Karp.  A state is a      *)
(* sequence of parts, the largest first; a part is its rows and their sum.    *)
Part(work, rows) == [sum |-> Total(work, rows), rows |-> rows]
Joined(p, q) == [sum |-> p.sum + q.sum, rows |-> p.rows \o q.rows]

Larger(p, q) ==
  \/ p.sum > q.sum
  \/ /\ p.sum = q.sum
     /\ \/ Len(p.rows) > Len(q.rows)
        \/ (Len(p.rows) = Len(q.rows) /\ p.rows # <<>> /\ p.rows[1] > q.rows[1])

Ordered(parts) == SortedBy(parts, Larger)

Spread(s) == s[1].sum - s[Len(s)].sum

(* What the heap pops before any other: the widest spread, then the largest *)
(* part.                                                                      *)
FirstPopped(states) ==
  CHOOSE s \in states : \A t \in states \ {s} :
    \/ Spread(s) > Spread(t)
    \/ Spread(s) = Spread(t) /\ Larger(s[1], t[1])

Merged(s, t) == Ordered([i \in DOMAIN s |-> Joined(s[i], t[Len(s) + 1 - i])])

Lighter(work, r, q) == work[r] < work[q] \/ (work[r] = work[q] /\ r < q)
ByWork(work, rows) == SortedBy(rows, LAMBDA r, q : Lighter(work, r, q))
Ascending(work) == ByWork(work, [i \in DOMAIN work |-> i])

FirstStates(work, k, equal) ==
  LET row == Ascending(work) IN
  IF equal
  THEN {Ordered([i \in 1..k |-> Part(work, <<row[o * k + i]>>)]) : o \in 0..(Len(work) \div k - 1)}
  ELSE {[i \in 1..k |-> Part(work, IF i = 1 THEN <<r>> ELSE <<>>)] : r \in DOMAIN work}

MergeTwo(states) ==
  LET s == FirstPopped(states)
      t == FirstPopped(states \ {s})
  IN  (states \ {s, t}) \cup {Merged(s, t)}

Differenced(work, k, equal) ==
  LET first == FirstStates(work, k, equal)
      after[i \in 0..(Cardinality(first) - 1)] ==
        IF i = 0 THEN first ELSE MergeTwo(after[i - 1])
  IN  CHOOSE s \in after[Cardinality(first) - 1] : TRUE

(* get_seqlen_balanced_partitions: the rows of a part in their order. *)
InOrder(rows) == SortedBy(rows, LAMBDA r, q : r < q)
Partitions(work, k, equal) ==
  LET parts == Differenced(work, k, equal)
  IN  [i \in 1..k |-> InOrder(parts[i].rows)]

(* The assertions on the way: no empty part, parts of a size if need be. *)
Fair(parts, rows, equal) ==
  \A i \in DOMAIN parts :
    /\ parts[i] # <<>>
    /\ equal => Len(parts[i]) * Len(parts) = rows

(* rearrange_micro_batches: small micro batches come first and last. *)
Heavier(work, p, q) ==
  Total(work, p) > Total(work, q) \/ (Total(work, p) = Total(work, q) /\ p[1] > q[1])
ByTotal(work, parts) == SortedBy(parts, LAMBDA p, q : Heavier(work, p, q))
MicroBatches(work, k) ==
  LET parts == ByTotal(work, Partitions(work, k, FALSE))
  IN  Reverse(Evens(parts)) \o Odds(parts)

(* restore_dynamic_batch: row indices[i] of the result is row i of the data. *)
ReverseIndex(indices) ==
  [r \in DOMAIN indices |-> CHOOSE i \in DOMAIN indices : indices[i] = r]

\* Mutant of Restored: indexed by the indices and not by their inverse
RestoredForward(data, indices) == [r \in DOMAIN data |-> data[indices[r]]]

Restored(data, indices) == [r \in DOMAIN data |-> data[ReverseIndex(indices)[r]]]
=============================================================================
