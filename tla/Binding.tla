------------------------------ MODULE Binding ------------------------------
(***************************************************************************)
(* Binding a call: from its arguments (plan_config and build_plan of       *)
(* match_recognize.rs) to a plan (Plan::build of plan.rs), and from the    *)
(* plan to the columns the sinks store (projection).  Every phase binds    *)
(* again from the same arguments, in whatever process it runs: first at    *)
(* bind and in the sinks, then at finalize.                                *)
(*                                                                         *)
(* A name is <<word, case>>, so that a quoted label can differ from an     *)
(* unquoted one by case alone.  An expression is what binding looks at:    *)
(* reads, the columns it names, each with the kinds of node it stands      *)
(* under; quals, its qualifiers; ty, its type when its columns exist.      *)
(* infer, collect_columns and eval each go under nodes of their own choice *)
(* (infer not under a CAST, COUNT or IS NULL).  What Plan::build reads of  *)
(* a call, its arguments and the schema of its input, is cfg.              *)
(***************************************************************************)
EXTENDS Integers, Sequences, FiniteSets, SequencesExt

CONSTANT Calls  \* the calls: their arguments and their input columns

\* A call after its JSON is read.  The pattern names what it matches, its labels are words.
Name == STRING \X {"up", "low"}
Nodes == {"Nav", "RunningFinal", "Neg", "Not", "Cast", "IsNull", "Binary", "Between", "In", "Call", "Agg", "Count"}
Expr == [reads : SUBSET [col : Name, under : SUBSET Nodes], quals : SUBSET Name, ty : STRING]

ASSUME CallsAssumption ==
  \A c \in Calls :
    /\ c.pattern \in Seq(Name) /\ c.subset \in Seq([name : Name, members : Seq(Name)])
    /\ c.define \in Seq([name : Name, expr : Expr])
    /\ c.measures \in Seq([name : Name, expr : Expr, type : STRING])
    /\ c.order_by \in Seq(ToSet(c.order_by)) /\ c.partition_by \in Seq(Name) /\ c.include \in Seq(Name)
    /\ c.input \in Seq([name : Name, ty : STRING])

VARIABLES
  call,   \* the arguments
  plan,   \* the plan as far as it is built
  bound,  \* the plan of the bind, once there is one
  pc

vars == <<call, plan, bound, pc>>

Upper(n) == <<n[1], "up">>
Lower(n) == <<n[1], "low">>
SameName(m, n) == m[1] = n[1]

NoTy == "no type"
NoExpr == [reads |-> {}, quals |-> {}, ty |-> NoTy]
Automatic(word) == <<word, "low">>

Empty == [labels |-> <<>>, members |-> <<>>, define |-> <<>>, measures |-> <<>>, order |-> <<>>,
          after |-> [mode |-> "unset"], include |-> <<>>, columns |-> <<>>]

Init ==
  /\ call \in Calls
  /\ plan = Empty /\ bound = Empty
  /\ pc = "arguments"

----------------------------------------------------------------------------
\* Names.

\* resolve_var, as the set of its results: the exact spelling, else the upper-cased one.
\* Mutant: names compare without their case.
ResolveAnyCase(written, names) ==
  LET at == SelectInSeq(names, LAMBDA n : SameName(n, written)) IN IF at = 0 THEN {} ELSE {names[at]}

Resolve(written, names) ==
  IF written \in ToSet(names) THEN {written} ELSE {Upper(written)} \cap ToSet(names)

\* ArrowBindSchema::col_ty
ColTyOf(cfg, c) ==
  LET at == SelectInSeq(cfg.input, LAMBDA f : SameName(f.name, c))
  IN IF at = 0 THEN NoTy ELSE cfg.input[at].ty

\* subset_names, then ArrowBindSchema::is_variable
IsVariable(cfg, n) ==
  \E v \in ToSet(cfg.pattern) \cup {Upper(s.name) : s \in ToSet(cfg.subset)} : SameName(v, n)

\* The columns of x that a walk comes to when it goes under nodes only.
Found(x, nodes) == {m.col : m \in {m \in x.reads : m.under \subseteq nodes}}

\* infer with infer_agg
InferNodes == {"Nav", "RunningFinal", "Neg", "Not", "Binary", "Between", "In", "Call", "Agg"}

InferTy(cfg, x) ==
  IF /\ \A c \in Found(x, InferNodes) : ColTyOf(cfg, c) # NoTy
     /\ \A q \in x.quals : IsVariable(cfg, q)
  THEN x.ty ELSE NoTy

\* canonicalize_vars, where every qualifier resolves.
Resolvable(x, names) == \A q \in x.quals : Resolve(q, names) # {}
Canonical(x, names) == [x EXCEPT !.quals = UNION {Resolve(q, names) : q \in @}]

\* LabelSet::id_of; 0 is no label
IdOf(labels, n) == SelectInSeq(labels, LAMBDA m : m = n)

----------------------------------------------------------------------------
\* One action for each part of Plan::build, with the condition it is refused without.

\* plan_config
ArgumentsTaken(cfg) == cfg.rows \in {"one", "all"} /\ cfg.empty \in {"show", "omit"}

ReadArguments ==
  /\ pc = "arguments" /\ ArgumentsTaken(call)
  /\ plan' = Empty /\ pc' = "subset"
  /\ UNCHANGED <<call, bound>>

\* parse_subsets: a later entry replaces an earlier one of the same canonical name.
SubsetsTaken(cfg) ==
  \A i \in DOMAIN cfg.subset :
    LET s == cfg.subset[i]
    IN /\ s.name \notin ToSet(cfg.pattern)
       /\ s.members # <<>>
       /\ \A m \in ToSet(s.members) : Resolve(m, cfg.pattern) # {}

Subsets(cfg) ==
  [n \in {Upper(s.name) : s \in ToSet(cfg.subset)} |->
     LET entry == cfg.subset[SelectLastInSeq(cfg.subset, LAMBDA s : Upper(s.name) = n)]
     IN UNION {Resolve(m, cfg.pattern) : m \in ToSet(entry.members)}]

\* LabelSet::new.  Mutant: the members of the i-th subset go to the i-th label after the variables.
MembersByPosition(labels, subsets) ==
  LET sorted == SetToSeq(DOMAIN subsets)
  IN [i \in DOMAIN labels |->
        IF i <= Len(call.pattern) THEN {}
        ELSE {IdOf(labels, m) : m \in subsets[sorted[i - Len(call.pattern)]]}]

MembersOf(labels, subsets) ==
  [i \in DOMAIN labels |->
     IF labels[i] \in DOMAIN subsets /\ i = IdOf(labels, labels[i])
     THEN {IdOf(labels, m) : m \in subsets[labels[i]]} ELSE {}]

\* The subsets join the labels in the order of a HashMap's keys, which is any.
Labellings(cfg) == {cfg.pattern \o order : order \in SetToSeqs(DOMAIN Subsets(cfg))}

NameLabels ==
  /\ pc = "subset" /\ SubsetsTaken(call)
  /\ \E labels \in Labellings(call) :
       plan' = [plan EXCEPT !.labels = labels, !.members = MembersOf(labels, Subsets(call))]
  /\ pc' = "define"
  /\ UNCHANGED <<call, bound>>

\* parse_define with check_predicate.
DefineTaken(cfg, labels) ==
  \A i \in DOMAIN cfg.define :
    LET d == cfg.define[i]
    IN /\ Resolve(d.name, cfg.pattern) # {}
       /\ Resolvable(d.expr, labels)
       /\ InferTy(cfg, Canonical(d.expr, labels)) \in {"BOOLEAN", "NULL"}

\* The predicate of each label: of the last key that names it.
Predicates(cfg, labels) ==
  [id \in DOMAIN labels |->
     LET at == SelectLastInSeq(cfg.define, LAMBDA d : \E n \in Resolve(d.name, cfg.pattern) : id = IdOf(labels, n))
     IN IF at = 0 THEN NoExpr ELSE Canonical(cfg.define[at].expr, labels)]

Define ==
  /\ pc = "define" /\ DefineTaken(call, plan.labels)
  /\ plan' = [plan EXCEPT !.define = Predicates(call, plan.labels)]
  /\ pc' = "measures"
  /\ UNCHANGED <<call, bound>>

\* parse_measures with resolve_measure_ty: a type that is written is taken.
MeasureTy(cfg, m, labels) == IF m.type # NoTy THEN m.type ELSE InferTy(cfg, Canonical(m.expr, labels))

MeasuresTaken(cfg, labels) ==
  \A i \in DOMAIN cfg.measures :
    LET m == cfg.measures[i]
    IN Resolvable(m.expr, labels) /\ MeasureTy(cfg, m, labels) \notin {NoTy, "NULL"}

Measured(cfg, labels) ==
  [i \in DOMAIN cfg.measures |->
     LET m == cfg.measures[i]
     IN [name |-> m.name, expr |-> Canonical(m.expr, labels), ty |-> MeasureTy(cfg, m, labels)]]

Measures ==
  /\ pc = "measures" /\ MeasuresTaken(call, plan.labels)
  /\ plan' = [plan EXCEPT !.measures = Measured(call, plan.labels)]
  /\ pc' = "order"
  /\ UNCHANGED <<call, bound>>

\* parse_order_key: spec is words, of which the clauses and DESC, ASC are strings in a name's place.
Word(w) == <<w, "word">>

OrderKey(spec) ==
  LET first == SelectInSeq(spec, LAMBDA w : w = Word("NULLS FIRST"))
      clause == IF first # 0 THEN first ELSE SelectInSeq(spec, LAMBDA w : w = Word("NULLS LAST"))
      part == IF clause = 0 THEN spec ELSE SubSeq(spec, 1, clause - 1)
      directed == Len(part) > 1 /\ Last(part) \in {Word("DESC"), Word("ASC")}
  IN [col |-> IF directed THEN Front(part) ELSE part,
      desc |-> directed /\ Last(part) = Word("DESC"),
      nulls_first |-> first # 0]

KeyExists(cfg, k) == Len(k.col) = 1 /\ ColTyOf(cfg, k.col[1]) # NoTy

OrderTaken(cfg) == cfg.order_by # <<>> /\ \A i \in DOMAIN cfg.order_by : KeyExists(cfg, OrderKey(cfg.order_by[i]))

OrderKeys(cfg) ==
  [i \in DOMAIN cfg.order_by |->
     LET k == OrderKey(cfg.order_by[i]) IN [k EXCEPT !.col = @[1]]]

OrderBy ==
  /\ pc = "order" /\ OrderTaken(call)
  /\ plan' = [plan EXCEPT !.order = OrderKeys(call)]
  /\ pc' = "partition"
  /\ UNCHANGED <<call, bound>>

PartitionTaken(cfg) == \A c \in ToSet(cfg.partition_by) : ColTyOf(cfg, c) # NoTy

PartitionBy ==
  /\ pc = "partition" /\ PartitionTaken(call)
  /\ pc' = "after"
  /\ UNCHANGED <<call, plan, bound>>

\* parse_after: the mode is lower-cased before the label in it is resolved.
AfterLabel(written, labels) ==
  LET name == Lower(written)
      found == Resolve(name, labels)
  IN IdOf(labels, IF found = {} THEN Upper(name) ELSE CHOOSE n \in found : TRUE)

AfterTaken(cfg, labels) ==
  \/ cfg.after.mode \in {"past last row", "to next row"}
  \/ cfg.after.mode \in {"to first", "to last"} /\ AfterLabel(cfg.after.var, labels) # 0

SkipTo(cfg, labels) ==
  IF cfg.after.mode \in {"to first", "to last"}
  THEN [mode |-> cfg.after.mode, label |-> AfterLabel(cfg.after.var, labels)]
  ELSE [mode |-> cfg.after.mode]

After ==
  /\ pc = "after" /\ AfterTaken(call, plan.labels)
  /\ plan' = [plan EXCEPT !.after = SkipTo(call, plan.labels)]
  /\ pc' = "include"
  /\ UNCHANGED <<call, bound>>

\* The step budget is checked just before the passthrough columns.
IncludeTaken(cfg) == cfg.budget # "not positive" /\ \A c \in ToSet(cfg.include) : ColTyOf(cfg, c) # NoTy

Included(cfg, order) ==
  LET Already(acc, c) ==
        \/ \E p \in ToSet(cfg.partition_by) \cup ToSet(acc) : SameName(p, c)
        \/ cfg.rows = "all" /\ \E k \in ToSet(order) : SameName(k.col, c)
  IN FoldLeft(LAMBDA acc, c : IF Already(acc, c) THEN acc ELSE Append(acc, c), <<>>, cfg.include)

Include ==
  /\ pc = "include" /\ IncludeTaken(call)
  /\ plan' = [plan EXCEPT !.include = Included(call, plan.order)]
  /\ pc' = "columns"
  /\ UNCHANGED <<call, bound>>

Carried(cfg, names) == [i \in DOMAIN names |-> [name |-> names[i], ty |-> ColTyOf(cfg, names[i])]]

AutoColumn(measures, word, ty) ==
  IF \E m \in ToSet(measures) : SameName(m.name, Automatic(word)) THEN <<>>
  ELSE <<[name |-> Automatic(word), ty |-> ty]>>

Columns(cfg, include, order, measures) ==
  Carried(cfg, cfg.partition_by) \o Carried(cfg, include)
    \o (IF cfg.rows = "all"
        THEN Carried(cfg, [i \in DOMAIN order |-> order[i].col])
               \o AutoColumn(measures, "match_number", "BIGINT") \o AutoColumn(measures, "classifier", "VARCHAR")
        ELSE <<>>)
    \o [i \in DOMAIN measures |-> [name |-> measures[i].name, ty |-> measures[i].ty]]

LayOut ==
  /\ pc = "columns"
  /\ plan' = [plan EXCEPT !.columns = Columns(call, plan.include, plan.order, plan.measures)]
  /\ pc' = "built"
  /\ UNCHANGED <<call, bound>>

Refuse ==
  /\ \/ pc = "arguments" /\ ~ArgumentsTaken(call)
     \/ pc = "subset" /\ ~SubsetsTaken(call)
     \/ pc = "define" /\ ~DefineTaken(call, plan.labels)
     \/ pc = "measures" /\ ~MeasuresTaken(call, plan.labels)
     \/ pc = "order" /\ ~OrderTaken(call)
     \/ pc = "partition" /\ ~PartitionTaken(call)
     \/ pc = "after" /\ ~AfterTaken(call, plan.labels)
     \/ pc = "include" /\ ~IncludeTaken(call)
  /\ pc' = "refused"
  /\ UNCHANGED <<call, plan, bound>>

\* Finalize binds again.
Rebind ==
  /\ pc = "built" /\ bound = Empty
  /\ bound' = plan /\ plan' = Empty /\ pc' = "arguments"
  /\ UNCHANGED call

Next ==
  \/ ReadArguments \/ NameLabels \/ Define \/ Measures \/ OrderBy \/ PartitionBy \/ After \/ Include
  \/ LayOut \/ Refuse \/ Rebind

Spec == Init /\ [][Next]_vars

----------------------------------------------------------------------------
\* What the phases derive from a plan.

\* collect_columns
CollectNodes == {"Nav", "RunningFinal", "Neg", "Not", "Cast", "IsNull", "Binary", "Between", "In", "Call", "Agg", "Count"}

\* What the plan evaluates: the predicates it has, then the measures.
Evaluated(p) == (ToSet(p.define) \ {NoExpr}) \cup {m.expr : m \in ToSet(p.measures)}

\* referenced_columns.  Mutant: it looks only where infer looks.
ReferencedInferred(cfg, p) ==
  ToSet(cfg.partition_by) \cup ToSet(p.include) \cup {k.col : k \in ToSet(p.order)}
    \cup UNION {Found(x, InferNodes) : x \in Evaluated(p)}

Referenced(cfg, p) ==
  ToSet(cfg.partition_by) \cup ToSet(p.include) \cup {k.col : k \in ToSet(p.order)}
    \cup UNION {Found(x, CollectNodes) : x \in Evaluated(p)}

Projection(cfg, p) == {i \in DOMAIN cfg.input : \E c \in Referenced(cfg, p) : SameName(cfg.input[i].name, c)}

\* projected_schema: the columns keep their order, so that of input column i is the count of those up to it.
Place(cfg, p, i) == Cardinality({j \in Projection(cfg, p) : j <= i})

\* The first of some columns to have a name, if one has it.
FirstNamed(cfg, columns, c) ==
  LET named == {i \in columns : SameName(cfg.input[i].name, c)} IN {i \in named : \A j \in named : i <= j}

\* BatchRowStore::col_index in the schema of p's projection, then the column at that index of a
\* batch that q's projection made: one input column, or none.
ColIndex(cfg, p, c) == {Place(cfg, p, i) : i \in FirstNamed(cfg, Projection(cfg, p), c)}
Fetched(cfg, p, q, c) == {i \in Projection(cfg, q) : Place(cfg, q, i) \in ColIndex(cfg, p, c)}

\* eval with eval_nav and eval_agg, which go everywhere
EvalNodes == {"Nav", "RunningFinal", "Neg", "Not", "Cast", "IsNull", "Binary", "Between", "In", "Call", "Agg", "Count"}

\* The names that are looked up in the store: to split and to group (split, partitions),
\* to sort (sort_tape), to write a row (col_at), to evaluate (col_value).
LookedUp(cfg, p) ==
  ToSet(cfg.partition_by) \cup {k.col : k \in ToSet(p.order)} \cup ToSet(p.include)
    \cup UNION {Found(x, EvalNodes) : x \in Evaluated(p)}

\* LabelSet::covers
Covers(p, label, id) == label = id \/ id \in p.members[label]

----------------------------------------------------------------------------
Bound == pc = "built" /\ bound # Empty
PatternIds == DOMAIN call.pattern

\* Every label a built plan carries, and every column it lays out, is one of its own.
TypeOK ==
  /\ pc \in {"arguments", "subset", "define", "measures", "order", "partition", "after", "include",
             "columns", "built", "refused"}
  /\ pc = "built" =>
       /\ \A id \in DOMAIN plan.members : plan.members[id] \subseteq PatternIds
       /\ DOMAIN plan.define = DOMAIN plan.labels
       /\ \A i \in DOMAIN plan.columns : plan.columns[i].ty # NoTy
       /\ "label" \in DOMAIN plan.after => plan.after.label \in DOMAIN plan.labels

\* A name means the quoted label of exactly that spelling where the pattern declares one, and the
\* unquoted label otherwise (resolve_var), in SUBSET, DEFINE keys and qualifiers alike; so a
\* predicate stands at the label its key spells, and only at variables of the pattern, and no
\* reference reaches evaluation with a spelling that no label has.
Spelled(written, id) ==
  /\ id \in DOMAIN plan.labels
  /\ plan.labels[id] = written \/ (plan.labels[id] = Upper(written) /\ written \notin ToSet(plan.labels))

LabelsMeanWhatIsWritten ==
  pc = "built" =>
    /\ \A d \in ToSet(call.define) : \E id \in PatternIds : Spelled(d.name, id) /\ plan.define[id] # NoExpr
    /\ \A id \in DOMAIN plan.define :
         plan.define[id] # NoExpr =>
           /\ id \in PatternIds
           /\ \E d \in ToSet(call.define) : Spelled(d.name, id)
           /\ plan.define[id].quals \subseteq ToSet(plan.labels)
    /\ \A i \in DOMAIN call.measures : \A q \in call.measures[i].expr.quals :
         \E id \in DOMAIN plan.labels : Spelled(q, id) /\ plan.labels[id] \in plan.measures[i].expr.quals

\* A query that binds also finalizes, with the layout the client was told and the same meaning of
\* every label, looked up by its name: the sinks, the bind and finalize each build the plan, and
\* nothing of it that leaves the process depends on the order in which a map lists the subsets.
CoversByName(p, n, k) == Covers(p, IdOf(p.labels, n), k)

PlansAgree ==
  /\ bound # Empty => pc # "refused"
  /\ Bound =>
       /\ plan.columns = bound.columns /\ Projection(call, plan) = Projection(call, bound)
       /\ ToSet(plan.labels) = ToSet(bound.labels)
       /\ \A n \in ToSet(plan.labels), k \in PatternIds : CoversByName(plan, n, k) <=> CoversByName(bound, n, k)

\* A name that finalize looks up among the columns its own plan says were stored gives, in a batch
\* the sink laid out by a plan of its own, the column the bind typed by that name: the first of the
\* input to have it, never its neighbour and never nothing, wherever in an expression the name
\* stands and whatever columns before it were dropped.  A name the input lacks gives nothing.
FinalizeReadsWhatWasBound ==
  Bound =>
    \A c \in LookedUp(call, plan) : Fetched(call, plan, bound, c) = FirstNamed(call, DOMAIN call.input, c)

----------------------------------------------------------------------------
\* What the documentation says and the code does not do.

\* A plain variable covers only itself.
PlainCoversItself == Bound => \A v, w \in PatternIds : Covers(plan, v, w) => v = w

\* Ids are reproducible for a given query.
IdsReproducible == Bound => plan.labels = bound.labels

\* AFTER MATCH SKIP goes to the label that is written.
AfterNamesWritten ==
  pc = "built" /\ "label" \in DOMAIN plan.after => Spelled(call.after.var, plan.after.label)

\* What follows the column in an accepted order key takes effect.
OrderSpecWhole ==
  pc = "built" =>
    \A i \in DOMAIN plan.order :
      /\ Word("DESC") \in ToSet(call.order_by[i]) => plan.order[i].desc
      /\ Word("NULLS FIRST") \in ToSet(call.order_by[i]) => plan.order[i].nulls_first

\* No column that is carried through appears twice in the result.
DistinctColumns ==
  pc = "built" =>
    \A i, j \in DOMAIN plan.columns :
      i < j /\ j <= Len(plan.columns) - Len(plan.measures) => ~SameName(plan.columns[i].name, plan.columns[j].name)

\* Every column a measure or a predicate names exists, wherever in it the name stands.
ColumnsExist ==
  pc = "built" =>
    \A x \in Evaluated(plan) : \A m \in x.reads : ColTyOf(call, m.col) # NoTy
=============================================================================
