------------------------------ MODULE Grouping ------------------------------
(***************************************************************************)
(* From the rows of a relation to its partitions.  A relation that is      *)
(* split sends each row to the shard its key hashes to (split and          *)
(* hash_value of shard.rs); then each shard, or the whole relation, is     *)
(* grouped by Plan::partitions of plan.rs: on the raw integer of a single  *)
(* integer key, on the rendering of the key otherwise, or not at all.      *)
(***************************************************************************)
EXTENDS ArrowData, SequencesExt

CONSTANTS
  Keyed,       \* relations: [tys, rows], the key columns' types and the key of each row
  ShardCounts  \* how many shards a relation may be split into

ASSUME WidthAssumption ==
  2^(Bits64 - 1) \in Nat \ {0} /\ 2^Bits64 = 2 * 2^(Bits64 - 1)

ASSUME KeyedAssumption ==
  /\ ShardCounts \subseteq Nat \ {0}
  /\ \A g \in Keyed :
       /\ g.tys \in Seq(ToSet(g.tys)) /\ g.rows \in Seq(ToSet(g.rows))
       /\ \A key \in ToSet(g.rows) : key \in Seq(ToSet(key)) /\ Len(key) = Len(g.tys)

VARIABLES
  given,   \* the relation, and the hash of every key in it
  shards,  \* the rows of each shard, in order of arrival
  parts,   \* what has been produced, a sequence of rows for each partition
  sh,      \* the shard being grouped
  r,       \* the row of it that is next
  seen,    \* the keys of its groups, in first-seen order
  ids,     \* the group of each row
  bounds,  \* the start of each group, then the total
  cursor,  \* where the next row of each group goes
  rows,    \* the rows of the shard, group by group
  pc

vars == <<given, shards, parts, sh, r, seen, ids, bounds, cursor, rows, pc>>

AllRows == DOMAIN given.rows

\* hash_value tells everything apart that differs in a bit; DefaultHasher is any function of it.
HashKeys(g) == {g.rows[i] : i \in DOMAIN g.rows}

\* What is split is a set of Arrow batches, which are what they declare.
MaySplit(g) ==
  /\ g.tys # <<>>
  /\ \A i \in DOMAIN g.rows, c \in DOMAIN g.tys :
       g.tys[c].k \in IntegerFamily => Uniform(g.rows[i][c], g.tys[c])

Init ==
  /\ \E g \in Keyed, n \in ShardCounts :
       /\ n > 1 => MaySplit(g)
       /\ \E h \in [HashKeys(g) -> 1..n] :
            given = [tys |-> g.tys, rows |-> g.rows, hash |-> h]
       /\ shards = IF n = 1 THEN <<[i \in 1..Len(g.rows) |-> i]>> ELSE [s \in 1..n |-> <<>>]
       /\ pc = IF n = 1 THEN "open" ELSE "split"
  /\ parts = <<>> /\ sh = 1 /\ r = 1
  /\ seen = <<>> /\ ids = <<>> /\ bounds = <<0>> /\ cursor = <<>> /\ rows = <<>>

----------------------------------------------------------------------------
\* The split.

\* Mutant: a row is sent to the shard of the row before it.
RouteLate ==
  /\ pc = "split" /\ r \in AllRows
  /\ LET s == given.hash[given.rows[IF r > 1 THEN r - 1 ELSE r]]
     IN shards' = [shards EXCEPT ![s] = Append(@, r)]
  /\ r' = r + 1
  /\ UNCHANGED <<given, parts, sh, seen, ids, bounds, cursor, rows, pc>>

Route ==
  /\ pc = "split" /\ r \in AllRows
  /\ shards' = [shards EXCEPT ![given.hash[given.rows[r]]] = Append(@, r)]
  /\ r' = r + 1
  /\ UNCHANGED <<given, parts, sh, seen, ids, bounds, cursor, rows, pc>>

Routed ==
  /\ pc = "split" /\ r \notin AllRows
  /\ pc' = "open" /\ r' = 1
  /\ UNCHANGED <<given, shards, parts, sh, seen, ids, bounds, cursor, rows>>

----------------------------------------------------------------------------
\* Grouping the rows of a shard.

Shard == shards[sh]
Key(i) == given.rows[Shard[i]]

\* The raw integer of a key, or <<>> for NULL.
Raw(v) ==
  CASE v = Null -> <<>>
    [] v.k \in {"Int", "UInt"} -> <<Wrap(v.n, Bits64)>>
    [] v.k = "Date" -> <<v.d>>
    [] v.k \in {"Timestamp", "Time"} -> <<v.t>>

\* The cells of a list read as NULL, so no key is a list.
KeyPart(v) == IF v = Null THEN <<Word("nul"), Word("null")>> ELSE RenderScalar(v)

\* Mutant: the parts of a key are written end to end.
KeyTextJoined(key) == FlattenSeq([j \in DOMAIN key |-> KeyPart(key[j])])

\* write_key_part for every column, with a separator between them.
KeyText(key) ==
  FlattenSeq([j \in DOMAIN key |-> (IF j > 1 THEN <<Word("sep")>> ELSE <<>>) \o KeyPart(key[j])])

Open ==
  /\ pc = "open" /\ sh <= Len(shards)
  /\ pc' = CASE Len(given.tys) = 0 -> "single"
             [] Len(given.tys) = 1 -> IF given.tys[1].k \in IntegerFamily THEN "ints" ELSE "keys"
             [] OTHER -> "keys"
  /\ UNCHANGED <<given, shards, parts, sh, r, seen, ids, bounds, cursor, rows>>

\* The row joins the group of its key, or founds one.
Assign(key) ==
  LET found == {g \in DOMAIN seen : seen[g] = key}
  IN /\ seen' = IF found = {} THEN Append(seen, key) ELSE seen
     /\ ids' = Append(ids, IF found = {} THEN Len(seen) + 1 ELSE Min(found))
     /\ r' = r + 1
     /\ UNCHANGED <<given, shards, parts, sh, bounds, cursor, rows, pc>>

GroupByInt ==
  /\ pc = "ints" /\ r <= Len(Shard)
  /\ Uniform(Key(r)[1], given.tys[1])
  /\ Assign(Raw(Key(r)[1]))

\* Mutant: the groups of the rows before are kept.
FallBackMidway ==
  /\ pc = "ints" /\ r <= Len(Shard)
  /\ ~Uniform(Key(r)[1], given.tys[1])
  /\ pc' = "keys"
  /\ UNCHANGED <<given, shards, parts, sh, r, seen, ids, bounds, cursor, rows>>

\* A key that is not what its column declares: start again with the renderings.
FallBack ==
  /\ pc = "ints" /\ r <= Len(Shard)
  /\ ~Uniform(Key(r)[1], given.tys[1])
  /\ pc' = "keys" /\ r' = 1 /\ seen' = <<>> /\ ids' = <<>>
  /\ UNCHANGED <<given, shards, parts, sh, bounds, cursor, rows>>

GroupByKey ==
  /\ pc = "keys" /\ r <= Len(Shard)
  /\ Assign(KeyText(Key(r)))

\* Without partition_by there is one partition, of every row.
Single ==
  /\ pc = "single"
  /\ parts' = Append(parts, Shard)
  /\ sh' = sh + 1 /\ pc' = "open"
  /\ UNCHANGED <<given, shards, r, seen, ids, bounds, cursor, rows>>

----------------------------------------------------------------------------
\* Partitions::from_ids.

\* Count the groups and sum the counts: the rows of group g fill bounds[g] + 1..bounds[g + 1].
Size ==
  /\ pc \in {"ints", "keys"} /\ r > Len(Shard)
  /\ bounds' = [g \in 1..(Len(seen) + 1) |-> Cardinality({i \in DOMAIN ids : ids[i] < g})]
  /\ cursor' = [g \in DOMAIN seen |-> bounds'[g]]
  /\ rows' = [i \in DOMAIN Shard |-> 0]
  /\ r' = 1 /\ pc' = "place"
  /\ UNCHANGED <<given, shards, parts, sh, seen, ids>>

\* Mutant: the cursor of the group is not moved.
PlaceStill ==
  /\ pc = "place" /\ r <= Len(Shard)
  /\ rows' = [rows EXCEPT ![cursor[ids[r]] + 1] = Shard[r]]
  /\ r' = r + 1
  /\ UNCHANGED <<given, shards, parts, sh, seen, ids, bounds, cursor, pc>>

Place ==
  /\ pc = "place" /\ r <= Len(Shard)
  /\ rows' = [rows EXCEPT ![cursor[ids[r]] + 1] = Shard[r]]
  /\ cursor' = [cursor EXCEPT ![ids[r]] = @ + 1]
  /\ r' = r + 1
  /\ UNCHANGED <<given, shards, parts, sh, seen, ids, bounds, pc>>

Produce ==
  /\ pc = "place" /\ r > Len(Shard)
  /\ parts' = parts \o [g \in DOMAIN seen |-> SubSeq(rows, bounds[g] + 1, bounds[g + 1])]
  /\ sh' = sh + 1 /\ pc' = "open"
  /\ r' = 1 /\ seen' = <<>> /\ ids' = <<>> /\ bounds' = <<0>> /\ cursor' = <<>> /\ rows' = <<>>
  /\ UNCHANGED <<given, shards>>

Next ==
  \/ Route \/ Routed
  \/ Open \/ GroupByInt \/ FallBack \/ GroupByKey \/ Single
  \/ Size \/ Place \/ Produce

Spec == Init /\ [][Next]_vars

----------------------------------------------------------------------------
\* Properties.

Complete == pc = "open" /\ sh > Len(shards)

\* The partitions as sets of rows.
Classes == {ToSet(parts[p]) : p \in DOMAIN parts}

\* Keys that SQL does not tell apart: NULL with NULL, and what compares equal.
SameValue(v, w) == v = w \/ Compare(v, w) = "Equal"
SameKey(i, j) == \A c \in DOMAIN given.tys : SameValue(given.rows[i][c], given.rows[j][c])

(***************************************************************************)
(* The keys that grouping is exact on: what their columns declare, or      *)
(* another integer in an integer column; strings without the characters    *)
(* write_key_part adds; neither a negative zero nor NaNs of both signs;    *)
(* and decimals and intervals that compare equal only when they are alike. *)
(***************************************************************************)
Width == [Int |-> I64, UInt |-> U64, HugeInt |-> I128]

PlainText == Nat \ {Word("nul"), Word("sep")}

Declared(v, ty) ==
  \/ v = Null
  \/ ty.k \in {"Int64", "UInt64"} /\ v.k \in DOMAIN Width
       /\ v = [k |-> v.k, n |-> v.n] /\ v.n \in Width[v.k]
  \/ ty.k = "Date" /\ v.k = "Date" /\ v = DateV(v.d) /\ v.d \in I32
  \/ ty.k = "Timestamp" /\ v.k = "Timestamp" /\ v = TimestampV(v.t, ty.unit) /\ v.t \in I64
  \/ ty.k = "Time" /\ v.k = "Time" /\ v = TimeV(v.t, ty.unit) /\ v.t \in I64
  \/ ty.k = "Boolean" /\ v \in {True, False}
  \/ ty.k = "Varchar" /\ v.k = "Str" /\ v = StrV(v.s) /\ v.s \in Seq(PlainText)
  \/ ty.k = "Double" /\ v.k = "Double"
       /\ (v = NaN \/ (v = [k |-> "Double", cls |-> "num", h |-> v.h] /\ v.h \in Int))
  \/ ty.k = "Decimal" /\ v.k = "Decimal" /\ v = DecimalV(v.u, ty.sc) /\ v.u \in I128 /\ ty.sc \in Int
  \/ ty.k = "Interval" /\ v.k = "Interval" /\ v = IntervalV(v.mo, v.d, v.ns)
       /\ v.mo \in I32 /\ v.d \in I32 /\ v.ns \in I64

Plain(g) ==
  \A i, j \in DOMAIN g.rows, c \in DOMAIN g.tys :
    LET v == g.rows[i][c]
        w == g.rows[j][c]
    IN /\ Declared(v, g.tys[c])
       /\ g.tys[c].k \in {"Decimal", "Interval"} /\ SameValue(v, w) => v = w

(***************************************************************************)
(* Type invariant: every row has its place, and a cursor stays in its      *)
(* group.                                                                  *)
(***************************************************************************)
TypeOK ==
  /\ pc \in {"split", "open", "single", "ints", "keys", "place"}
  /\ \A s \in DOMAIN shards : ToSet(shards[s]) \subseteq AllRows
  /\ pc \in {"ints", "keys"} => Len(ids) = r - 1 /\ ToSet(ids) = DOMAIN seen
  /\ pc = "place" =>
       /\ Len(rows) = Len(Shard)
       /\ \A g \in DOMAIN seen : cursor[g] \in bounds[g]..bounds[g + 1]

(***************************************************************************)
(* No row is lost, doubled or overwritten by the counting placement: each  *)
(* is in one partition.  Within a partition the rows ascend, as the stable *)
(* sort that follows requires, and partitions are in first-seen order.     *)
(***************************************************************************)
EachRowOnce ==
  /\ \A p \in DOMAIN parts : \A i, j \in DOMAIN parts[p] : i < j => parts[p][i] < parts[p][j]
  /\ \A p, q \in DOMAIN parts : p # q => ToSet(parts[p]) \cap ToSet(parts[q]) = {}
  /\ Complete => UNION Classes = AllRows
  /\ (Complete /\ Len(shards) = 1) =>
       \A p, q \in DOMAIN parts : p < q => parts[p][1] < parts[q][1]

(***************************************************************************)
(* Rows whose keys SQL does not tell apart are in one partition: on every  *)
(* path, and whatever shards their keys hash to.                           *)
(***************************************************************************)
KeysTogether ==
  Complete => \A i, j \in AllRows : SameKey(i, j) => \E C \in Classes : {i, j} \subseteq C

(***************************************************************************)
(* Rows in one partition have the same key.                                *)
(***************************************************************************)
KeysApart ==
  Complete => \A C \in Classes : \A i, j \in C : SameKey(i, j)

(***************************************************************************)
(* The partitions are the classes of the rows under "the same key", each   *)
(* of them once and in the order of the input, on every path.              *)
(***************************************************************************)
PartitionsExact == EachRowOnce /\ KeysTogether /\ KeysApart

(***************************************************************************)
(* Splitting a relation into shards "never" makes "a wrong grouping": the  *)
(* partitions are those of the relation grouped whole.                     *)
(***************************************************************************)
ShardingInvisible ==
  (Complete /\ given.tys # <<>>) =>
    Classes = {{j \in AllRows : KeyText(given.rows[j]) = KeyText(given.rows[i])} : i \in AllRows}
=============================================================================
