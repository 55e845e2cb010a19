----------------------------- MODULE Statistics -----------------------------
(***************************************************************************)
(* What evobench-eval computes from the spans of a log: the statistics of  *)
(* weighted values (stats/mod.rs, weighted.rs, average.rs), the tables     *)
(* with a row for each probe and call path (all_fields_table.rs), their    *)
(* joins over several runs (join.rs), their changes (table.rs, change.rs)  *)
(* and the trees behind the flame graphs (tree.rs,                         *)
(* all_outputs_all_fields_table.rs).                                       *)
(*                                                                         *)
(* Numbers are exact: the fixed point and floating point numbers of the    *)
(* code are the fractions they stand for.  Keys are numbers, in the order  *)
(* of the strings.                                                         *)
(***************************************************************************)
EXTENDS Integers, FiniteSets, SequencesExt

CONSTANT TileCount     \* TILE_COUNT

ASSUME TileCountAssumption == TileCount \in Nat /\ TileCount >= 2

NoValue == -1           \* Option::None
NoInputs == [n |-> 0]   \* StatsError::NoInputs
Panic == [n |-> -1]     \* the end of the process: overflows are checked in every build

SumOver(S, F(_)) == MapThenSumSet(F, S)

-----------------------------------------------------------------------------
(* Weighted values *)

ByValueThenWeight(a, b) ==
    a.value < b.value \/ (a.value = b.value /\ a.weight <= b.weight)

\* The index of a value without those before it.
IndexedNumbers_SameWeight(vals) ==
    LET sorted == SortSeq(vals, ByValueThenWeight)
    IN [start |-> [i \in DOMAIN sorted |-> i - 1],
        value |-> [i \in DOMAIN sorted |-> sorted[i].value],
        virtual_len |-> Len(vals)]

\* from_unsorted_weighted_value_vec: each value starts where the weights of
\* the smaller ones end.
IndexedNumbers(vals) ==
    LET sorted == SortSeq(vals, ByValueThenWeight)
        Before(i) == SumOver(1 .. i - 1, LAMBDA j : sorted[j].weight)
    IN [start |-> [i \in DOMAIN sorted |-> Before(i)],
        value |-> [i \in DOMAIN sorted |-> sorted[i].value],
        virtual_len |-> Before(Len(sorted) + 1)]

\* get: the entry at the index, or the next lower one.
Lookup(numbers, index) ==
    numbers.value[Max({i \in DOMAIN numbers.start : numbers.start[i] <= index})]

\* (a + b) / 2, rounded up
AverageOfTwo(a, b) == (a + b + 1) \div 2

Median(numbers) ==
    LET mid == numbers.virtual_len \div 2
    IN IF numbers.virtual_len % 2 = 0
       THEN AverageOfTwo(Lookup(numbers, mid - 1), Lookup(numbers, mid))
       ELSE Lookup(numbers, mid)

\* i / (TileCount - 1) of the way from the first to the last, rounded
TileIndex(numbers, i) ==
    LET distances == TileCount - 1
    IN (2 * i * (numbers.virtual_len - 1) + distances) \div (2 * distances)

\* sqrt(sum of squared differences / n), rounded: sum / n is the average,
\* hence everything is multiplied by n.
RoundedDeviation(vals, n, sum) ==
    LET Square(x) == x * x
        error == SumOver(DOMAIN vals,
                         LAMBDA i : vals[i].weight * Square(n * vals[i].value - sum))
        NotTooLarge(d) == d = 0 \/ Square(2 * d - 1) * n * n * n <= 4 * error
    IN Max({d \in 0 .. sum + 1 : NotTooLarge(d)})

\* Stats::from_values
FromValues(vals) ==
    IF vals = <<>> THEN NoInputs
    ELSE LET n == SumOver(DOMAIN vals, LAMBDA i : vals[i].weight)
             sum == SumOver(DOMAIN vals, LAMBDA i : vals[i].weight * vals[i].value)
             numbers == IndexedNumbers(vals)
         IN [n |-> n, sum |-> sum,
             average |-> (2 * sum + n) \div (2 * n),
             median |-> Median(numbers),
             sd |-> RoundedDeviation(vals, n, sum),
             tiles |-> [i \in 0 .. TileCount - 1 |-> Lookup(numbers, TileIndex(numbers, i))]]

\* StatsField::from_str for the fraction num / den, from 0 to 1
TileField(num, den) == (2 * TileCount * num + den) \div (2 * den)

\* StatsField: one of the numbers, or a tile
Field(name) == [name |-> name, tile |-> 0]
Tile(i) == [name |-> "Tile", tile |-> i]

\* Stats::get
Get(stats, field) ==
    CASE field.name = "N" -> stats.n
      [] field.name = "Sum" -> stats.sum
      [] field.name = "Average" -> stats.average
      [] field.name = "Median" -> stats.median
      [] field.name = "SD" -> stats.sd
      [] field.name = "Tile" -> stats.tiles[field.tile]

\* The statistics over one field are counts or have the type of the values.
FieldTypeIsCount(field) == field.name = "N"

-----------------------------------------------------------------------------
(* Tables *)

\* scopestats: spans that are not scopes, or never ended, have no value;
\* neither have context switches that the system does not give.  A span
\* that ends before it starts is an overflow of the unsigned difference.
ScopeStats(spans) ==
    LET valued == SelectSeq(spans, LAMBDA s : s.start # NoValue /\ s.end # NoValue)
    IN IF \E i \in DOMAIN valued : valued[i].end < valued[i].start
       THEN Panic
       ELSE FromValues([i \in DOMAIN valued |->
                           [value |-> valued[i].end - valued[i].start,
                            weight |-> valued[i].n]])

\* pn_stats: a row without values tells only how many spans there are.
Row(key, spans) ==
    IF ScopeStats(spans) = NoInputs
    THEN [key |-> key, kind |-> "count", val |-> Len(spans)]
    ELSE [key |-> key, kind |-> "stats", val |-> ScopeStats(spans)]

\* table_for_field: the rows of the probe names, then those of the paths;
\* each of the two is a sorted map from keys to spans.
TableForField(showProbeNames, byProbe, byPath) ==
    LET RowsOf(map) == LET keys == SetToSortSeq(DOMAIN map, <)
                       IN [i \in DOMAIN keys |-> Row(keys[i], map[keys[i]])]
    IN (IF showProbeNames THEN RowsOf(byProbe) ELSE <<>>) \o RowsOf(byPath)

\* keyval_inner_join_2: a merge of two sorted sequences of [key, vals].
RECURSIVE Join2(_, _)
Join2(a, b) ==
    IF a = <<>> \/ b = <<>> THEN <<>>
    ELSE IF Head(a).key < Head(b).key THEN Join2(Tail(a), b)
    ELSE IF Head(a).key > Head(b).key THEN Join2(a, Tail(b))
    ELSE <<[key |-> Head(a).key, vals |-> Head(a).vals \o Head(b).vals]>> \o Join2(Tail(a), Tail(b))

\* keyval_inner_join: halves are joined first.
RECURSIVE InnerJoin(_)
InnerJoin(sequences) ==
    IF Len(sequences) = 1
    THEN [i \in DOMAIN sequences[1] |->
            [key |-> sequences[1][i].key, vals |-> <<sequences[1][i]>>]]
    ELSE LET half == Len(sequences) \div 2
         IN Join2(InnerJoin(SubSeq(sequences, 1, half)),
                  InnerJoin(SubSeq(sequences, half + 1, Len(sequences))))

\* summary_stats_for_field: over the runs, the statistics of one field of
\* their statistics; a count counts when the field is N.
SummaryValues(rows, field) ==
    LET usable == SelectSeq(rows, LAMBDA r : r.kind = "stats" \/ field.name = "N")
    IN [i \in DOMAIN usable |->
           [value |-> IF usable[i].kind = "stats" THEN Get(usable[i].val, field)
                                                  ELSE usable[i].val,
            weight |-> 1]]

SummaryStatsForField(tables, field) ==
    LET merged == InnerJoin(tables)
        kept == SelectSeq(merged, LAMBDA r : SummaryValues(r.vals, field) # <<>>)
    IN [i \in DOMAIN kept |->
           [key |-> kept[i].key, kind |-> "stats", val |-> FromValues(SummaryValues(kept[i].vals, field))]]

\* table_key_vals: bare counts have no place in a flame graph.
TableKeyVals(rows, field) ==
    LET valued == SelectSeq(rows, LAMBDA r : r.kind = "stats")
    IN [i \in DOMAIN valued |-> [key |-> valued[i].key, val |-> Get(valued[i].val, field)]]

\* Change: from and to differ by more than a tenth; the division is one of
\* floats, hence x / 0 is infinite and 0 / 0 neither larger nor smaller.
Highlight(from, to, largerIsBetter) ==
    CASE 10 * to > 11 * from -> IF largerIsBetter THEN "green" ELSE "red"
      [] 10 * to < 9 * from -> IF largerIsBetter THEN "red" ELSE "green"
      [] OTHER -> "neutral"

\* Table::change: a row that is a count on one side only is a panic.
Changes(from, to, field, largerIsBetter) ==
    LET both == InnerJoin(<<from, to>>)
        comparable == SelectSeq(both, LAMBDA r : \A i \in 1 .. 2 : r.vals[i].kind = "stats")
    IN [panic |-> \E i \in DOMAIN both : both[i].vals[1].kind # both[i].vals[2].kind,
        rows |-> [i \in DOMAIN comparable |->
                    LET old == Get(comparable[i].vals[1].val, field)
                        new == Get(comparable[i].vals[2].val, field)
                    IN [key |-> comparable[i].key, from |-> old, to |-> new,
                        highlight |-> Highlight(old, new, largerIsBetter)]]]

-----------------------------------------------------------------------------
(* Which rows: key_details_for and from_log_data_tree *)

KeyDetails(case, showThreadNumber, showReversed) ==
    [probe_names |-> case = "Excel",
     without_thread |-> case = "Excel" \/ ~showThreadNumber,
     with_thread |-> showThreadNumber,
     reversed_too |-> case = "Excel" /\ showReversed,
     skip_process |-> case = "Flame",
     prefixed |-> case = "Excel"]

\* The ways a span's path is written, each with a prefix for its rows.
PathOptions(details) ==
    LET Option(thread, reversed, prefix) ==
            [thread |-> thread, reversed |-> reversed, skip_process |-> details.skip_process,
             prefix |-> IF details.prefixed THEN prefix ELSE ""]
    IN (IF details.without_thread THEN {Option(FALSE, FALSE, "A:")} ELSE {})
       \cup (IF details.reversed_too THEN {Option(FALSE, TRUE, "AR:")} ELSE {})
       \cup (IF details.with_thread THEN {Option(TRUE, FALSE, "N:")} ELSE {})
       \cup (IF details.with_thread /\ details.reversed_too THEN {Option(TRUE, TRUE, "NR:")} ELSE {})

-----------------------------------------------------------------------------
(* Trees: a function from paths (sequences) to values; a node is there when *)
(* its path begins the path of a value.                                     *)

\* Tree::from_key_val: of equal paths the last one counts.
FromKeyVal(pairs) ==
    LET paths == {pairs[i].path : i \in DOMAIN pairs}
        LastOf(p) == Max({i \in DOMAIN pairs : pairs[i].path = p})
        nodes == UNION {{SubSeq(p, 1, n) : n \in 0 .. Len(p)} : p \in paths} \cup {<<>>}
    IN [p \in nodes |-> IF p \in paths THEN pairs[LastOf(p)].val ELSE NoValue]

Children(tree, path) == {p \in DOMAIN tree : Len(p) = Len(path) + 1 /\ IsPrefix(path, p)}

\* node_children_sum: a child without a value stands for its children.
RECURSIVE NodeChildrenSum(_, _)
NodeChildrenSum(tree, path) ==
    SumOver(Children(tree, path),
            LAMBDA c : IF tree[c] # NoValue THEN tree[c] ELSE NodeChildrenSum(tree, c))

\* fix_tree: what remains of a value without the children; never negative.
FixTree(tree) ==
    [p \in DOMAIN tree |->
        LET rest == tree[p] - NodeChildrenSum(tree, p)
        IN IF tree[p] = NoValue THEN NoValue ELSE IF rest < 0 THEN 0 ELSE rest]

\* into_joined_key_val: the paths that have a value, with it.
JoinedKeyVals(tree) == {[path |-> p, val |-> tree[p]] : p \in {q \in DOMAIN tree : tree[q] # NoValue}}

\* write_to_files: a flame graph is drawn when some path has two names.
FlameGraphLines(rows) ==
    LET lines == JoinedKeyVals(FixTree(FromKeyVal(rows)))
    IN IF \E l \in lines : Len(l.path) > 1 THEN lines ELSE {}
=============================================================================
