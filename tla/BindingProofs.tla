---------------------------- MODULE BindingProofs ----------------------------
(***************************************************************************)
(* Whatever the call, and whatever order a map lists its subsets in: what  *)
(* a plan's labels mean, that the plan of finalize is that of the bind but *)
(* for the numbering of subsets, and that it reads back what was bound.    *)
(*                                                                         *)
(* A call has several plans, one for each of its Labellings.  Everything   *)
(* in them but the labels is a function of the call: names resolve by the  *)
(* set of the labels, which is the same in each, and the labels of the     *)
(* pattern stand first, so they have the same ids.                         *)
(***************************************************************************)
EXTENDS Binding, SequenceLemmas

-----------------------------------------------------------------------------
(* Ids.                                                                     *)

(* id_of is the first place of a name, or none. *)
LEMMA IdFacts ==
  ASSUME NEW s \in Seq(Name), NEW n
  PROVE  /\ n \in ToSet(s) => /\ IdOf(s, n) \in 1 .. Len(s) /\ s[IdOf(s, n)] = n
                              /\ \A i \in 1 .. Len(s) : s[i] = n => IdOf(s, n) <= i
         /\ n \notin ToSet(s) => IdOf(s, n) = 0
<1> DEFINE I == {i \in 1 .. Len(s) : s[i] = n}
<1>0. Len(s) \in Nat /\ DOMAIN s = 1 .. Len(s)
  OBVIOUS
<1>1. IdOf(s, n) = IF I # {} THEN Min(I) ELSE 0
  BY DEF IdOf, SelectInSeq
<1>2. n \in ToSet(s) <=> I # {}
  BY <1>0 DEF ToSet
<1>3. I \in SUBSET Nat
  BY <1>0
<1>4. I # {} => Min(I) \in I /\ \A y \in I : Min(I) <= y
  BY <1>3, MinOfSet
<1> QED
  BY <1>1, <1>2, <1>4

(* It is the one place where a name stands first. *)
LEMMA IdUnique ==
  ASSUME NEW s \in Seq(Name), NEW n, NEW id \in 1 .. Len(s), s[id] = n,
         \A i \in 1 .. Len(s) : s[i] = n => id <= i
  PROVE  IdOf(s, n) = id
<1>0. Len(s) \in Nat /\ DOMAIN s = 1 .. Len(s) /\ n \in ToSet(s)
  BY DEF ToSet
<1>1. /\ IdOf(s, n) \in 1 .. Len(s) /\ s[IdOf(s, n)] = n
      /\ \A i \in 1 .. Len(s) : s[i] = n => IdOf(s, n) <= i
  BY <1>0, IdFacts
<1> QED
  BY <1>0, <1>1

(* Upper-casing twice is upper-casing. *)
LEMMA UpperTwice ==
  ASSUME NEW n \in Name
  PROVE  Upper(n) \in Name /\ Upper(Upper(n)) = Upper(n) /\ Lower(n) \in Name
BY DEF Name, Upper, Lower

-----------------------------------------------------------------------------
(* The labels of a call.                                                    *)

SubsetNames(cfg) == {Upper(s.name) : s \in ToSet(cfg.subset)}
Names(cfg) == ToSet(cfg.pattern) \cup SubsetNames(cfg)

(* What the assumption says of one call. *)
LEMMA CallFacts ==
  ASSUME NEW c \in Calls
  PROVE  /\ c.pattern \in Seq(Name) /\ c.subset \in Seq([name : Name, members : Seq(Name)])
         /\ c.define \in Seq([name : Name, expr : Expr])
         /\ c.measures \in Seq([name : Name, expr : Expr, type : STRING])
         /\ c.order_by \in Seq(ToSet(c.order_by)) /\ c.partition_by \in Seq(Name)
         /\ c.include \in Seq(Name) /\ c.input \in Seq([name : Name, ty : STRING])
BY CallsAssumption

LEMMA SubsetNamesFinite ==
  ASSUME NEW c \in Calls
  PROVE  /\ IsFiniteSet(SubsetNames(c)) /\ SubsetNames(c) \subseteq Name
         /\ DOMAIN Subsets(c) = SubsetNames(c)
         /\ \A n \in SubsetNames(c) : Upper(n) = n
<1> DEFINE n == Len(c.subset)
           name == [i \in 1 .. n |-> Upper(c.subset[i].name)]
<1>1. /\ n \in Nat /\ DOMAIN c.subset = 1 .. n
      /\ \A i \in 1 .. n : c.subset[i].name \in Name
  <2> DEFINE Entries == [name : Name, members : Seq(Name)]
  <2>1. c.subset \in Seq(Entries)
    BY CallFacts
  <2>2. \A x \in Entries : x.name \in Name
    OBVIOUS
  <2> HIDE DEF Entries
  <2> QED
    BY <2>1, <2>2
<1>2. ToSet(c.subset) = {c.subset[i] : i \in 1 .. n}
  BY <1>1 DEF ToSet
<1>3. SubsetNames(c) = {name[i] : i \in 1 .. n}
  BY <1>2 DEF SubsetNames
<1>4. \A i \in 1 .. n : name[i] \in Name /\ Upper(name[i]) = name[i]
  BY <1>1, UpperTwice
<1>5. name \in Surjection(1 .. n, SubsetNames(c))
  BY <1>3 DEF Surjection
<1>6. IsFiniteSet(1 .. n)
  BY <1>1, FS_Interval
<1>7. IsFiniteSet(SubsetNames(c))
  BY <1>5, <1>6, FS_Surjection
<1>8. DOMAIN Subsets(c) = SubsetNames(c)
  BY DEF Subsets, SubsetNames
<1> QED
  BY <1>3, <1>4, <1>7, <1>8

(* The variables of the pattern have the ids of their first places; the subsets *)
(* follow, each somewhere.                                                      *)
LabelsOf(cfg, labels) ==
  /\ labels \in Seq(Name) /\ Len(labels) = Len(cfg.pattern) + Cardinality(SubsetNames(cfg))
  /\ \A i \in 1 .. Len(cfg.pattern) : labels[i] = cfg.pattern[i]
  /\ ToSet(labels) = Names(cfg)

IsConcat(st, s, t, S) ==
  /\ st \in Seq(S) /\ Len(st) = Len(s) + Len(t)
  /\ \A i \in 1 .. Len(s) : st[i] = s[i]
  /\ \A i \in 1 .. Len(t) : st[Len(s) + i] = t[i] /\ Len(s) + i \in 1 .. Len(st)
  /\ \A k \in 1 .. Len(st) : k > Len(s) => k - Len(s) \in 1 .. Len(t) /\ st[k] = t[k - Len(s)]

LEMMA ConcatPlaces ==
  ASSUME NEW S, NEW s \in Seq(S), NEW t \in Seq(S)
  PROVE  IsConcat(s \o t, s, t, S)
<1> DEFINE m == Len(s)
           n == Len(t)
<1>1. m \in Nat /\ n \in Nat
  OBVIOUS
<1>2. s \o t \in Seq(S) /\ Len(s \o t) = m + n
  OBVIOUS
<1>3. \A k \in 1 .. (m + n) : (s \o t)[k] = IF k <= m THEN s[k] ELSE t[k - m]
  OBVIOUS
<1> HIDE DEF m, n
<1>4. \A i \in 1 .. m : i \in 1 .. (m + n) /\ i <= m
  BY <1>1
<1>5. \A i \in 1 .. n : m + i \in 1 .. (m + n) /\ ~(m + i <= m) /\ (m + i) - m = i
  BY <1>1
<1>6. \A k \in 1 .. (m + n) : k > m => k - m \in 1 .. n /\ ~(k <= m)
  BY <1>1
<1>7. /\ \A i \in 1 .. m : (s \o t)[i] = s[i]
      /\ \A i \in 1 .. n : (s \o t)[m + i] = t[i] /\ m + i \in 1 .. (m + n)
      /\ \A k \in 1 .. (m + n) : k > m => k - m \in 1 .. n /\ (s \o t)[k] = t[k - m]
  BY <1>3, <1>4, <1>5, <1>6
<1> QED
  BY <1>2, <1>7 DEF m, n, IsConcat

LEMMA LabellingFacts ==
  ASSUME NEW c \in Calls, NEW labels \in Labellings(c)
  PROVE  LabelsOf(c, labels)
<1> DEFINE S == SubsetNames(c)
           D == 1 .. Cardinality(S)
<1>1. c.pattern \in Seq(Name) /\ IsFiniteSet(S) /\ S \subseteq Name /\ Cardinality(S) \in Nat
  BY CallFacts, SubsetNamesFinite, FS_CardinalityType
<1>2. PICK order \in SetToSeqs(S) : labels = c.pattern \o order
  BY SubsetNamesFinite DEF Labellings
<1>3. order \in [D -> S] /\ \A i, j \in D : i # j => order[i] # order[j]
  BY DEF SetToSeqs
<1>4. order \in Injection(D, S)
  BY <1>3 DEF Injection, IsInjective
<1>5. IsFiniteSet(D) /\ Cardinality(D) = Cardinality(S)
  BY <1>1, FS_Interval
<1>6. order \in Surjection(D, S)
  BY <1>1, <1>4, <1>5, FS_Injection
<1>7. \A x \in S : \E i \in D : order[i] = x
  BY <1>6 DEF Surjection
<1>8. order \in Seq(Name) /\ Len(order) = Cardinality(S)
  BY <1>1, <1>3
<1>9. /\ labels \in Seq(Name) /\ Len(labels) = Len(c.pattern) + Cardinality(S)
      /\ \A i \in 1 .. Len(c.pattern) : labels[i] = c.pattern[i]
      /\ \A i \in D : labels[Len(c.pattern) + i] = order[i] /\ Len(c.pattern) + i \in 1 .. Len(labels)
      /\ \A k \in 1 .. Len(labels) : k > Len(c.pattern) => k - Len(c.pattern) \in D /\ labels[k] = order[k - Len(c.pattern)]
  <2> DEFINE p == c.pattern
  <2>1. IsConcat(p \o order, p, order, Name)
    BY <1>1, <1>8, ConcatPlaces
  <2>2. IsConcat(labels, p, order, Name) /\ Len(order) = Cardinality(S)
    BY <1>2, <1>8, <2>1
  <2> QED
    BY <2>2, Zenon DEF IsConcat
<1>10. ToSet(labels) = ToSet(c.pattern) \cup S
  <2>0. DOMAIN labels = 1 .. Len(labels) /\ DOMAIN c.pattern = 1 .. Len(c.pattern) /\ Len(c.pattern) \in Nat /\ Len(labels) \in Nat
    BY <1>1, <1>9
  <2>1. ASSUME NEW k \in 1 .. Len(labels)
        PROVE  labels[k] \in ToSet(c.pattern) \cup S
    BY <2>0, <2>1, <1>3, <1>9 DEF ToSet
  <2>2. ASSUME NEW i \in 1 .. Len(c.pattern)
        PROVE  c.pattern[i] \in ToSet(labels)
    <3>1. i \in 1 .. Len(labels) /\ labels[i] = c.pattern[i]
      BY <2>0, <1>1, <1>9
    <3> QED
      BY <3>1, <2>0 DEF ToSet
  <2>3. ASSUME NEW x \in S
        PROVE  x \in ToSet(labels)
    BY <1>7, <1>9, <2>0 DEF ToSet
  <2> QED
    BY <2>0, <2>1, <2>2, <2>3 DEF ToSet
<1> QED
  BY <1>9, <1>10 DEF LabelsOf, Names

(* A variable of the pattern has the same id in every labelling. *)
LEMMA PatternIdFixed ==
  ASSUME NEW c \in Calls, NEW labels, LabelsOf(c, labels), NEW n \in ToSet(c.pattern)
  PROVE  /\ IdOf(labels, n) = IdOf(c.pattern, n) /\ IdOf(labels, n) \in DOMAIN c.pattern
         /\ labels[IdOf(labels, n)] = n /\ n \in Name
<1> DEFINE id == IdOf(c.pattern, n)
<1>1. c.pattern \in Seq(Name) /\ labels \in Seq(Name) /\ Len(c.pattern) \in Nat /\ Len(labels) \in Nat
      /\ DOMAIN c.pattern = 1 .. Len(c.pattern)
  BY CallFacts DEF LabelsOf
<1>2. n \in Name
  BY <1>1 DEF ToSet
<1>3. /\ id \in 1 .. Len(c.pattern) /\ c.pattern[id] = n
      /\ \A i \in 1 .. Len(c.pattern) : c.pattern[i] = n => id <= i
  BY <1>1, <1>2, IdFacts
<1>4. Len(c.pattern) <= Len(labels)
  BY <1>1, SubsetNamesFinite, FS_CardinalityType DEF LabelsOf
<1>5. id \in 1 .. Len(labels) /\ labels[id] = n
  BY <1>1, <1>3, <1>4 DEF LabelsOf
<1>6. \A i \in 1 .. Len(labels) : labels[i] = n => id <= i
  BY <1>1, <1>3 DEF LabelsOf
<1>7. IdOf(labels, n) = id
  BY <1>1, <1>2, <1>5, <1>6, IdUnique
<1> QED
  BY <1>1, <1>2, <1>3, <1>5, <1>7

-----------------------------------------------------------------------------
(* What depends on the labels of a call depends on their set.               *)

LEMMA ResolveFinds ==
  ASSUME NEW s, NEW w \in Name, NEW n \in Resolve(w, s)
  PROVE  n \in ToSet(s) /\ (n = w \/ (n = Upper(w) /\ w \notin ToSet(s)))
BY DEF Resolve

LEMMA ResolveAlike ==
  ASSUME NEW l, NEW m, ToSet(l) = ToSet(m)
  PROVE  /\ \A w : Resolve(w, l) = Resolve(w, m)
         /\ \A x : Canonical(x, l) = Canonical(x, m)
         /\ \A x : Resolvable(x, l) <=> Resolvable(x, m)
<1>1. \A w : Resolve(w, l) = Resolve(w, m)
  BY DEF Resolve
<1>2. ASSUME NEW x
      PROVE  Canonical(x, l) = Canonical(x, m)
  <2>1. {Resolve(q, l) : q \in x.quals} = {Resolve(q, m) : q \in x.quals}
    BY <1>1
  <2> QED
    BY <2>1, Zenon DEF Canonical
<1>3. \A x : Resolvable(x, l) <=> Resolvable(x, m)
  BY <1>1 DEF Resolvable
<1> QED
  BY <1>1, <1>2, <1>3

(* The DEFINE keys that name a label, and its predicate: that of the last.  *)
Naming(cfg, labels, id) ==
  {i \in 1 .. Len(cfg.define) : \E n \in Resolve(cfg.define[i].name, cfg.pattern) : id = IdOf(labels, n)}

LEMMA PredicateIs ==
  ASSUME NEW c \in Calls, NEW labels, NEW id \in DOMAIN labels
  PROVE  /\ Naming(c, labels, id) = {} => Predicates(c, labels)[id] = NoExpr
         /\ Naming(c, labels, id) # {} =>
              \E i \in Naming(c, labels, id) : Predicates(c, labels)[id] = Canonical(c.define[i].expr, labels)
         /\ Predicates(c, labels)[id] =
              IF Naming(c, labels, id) = {} THEN NoExpr
              ELSE Canonical(c.define[Max(Naming(c, labels, id))].expr, labels)
<1> DEFINE I == Naming(c, labels, id)
           at == IF I # {} THEN Max(I) ELSE 0
<1>1. Predicates(c, labels)[id] = IF at = 0 THEN NoExpr ELSE Canonical(c.define[at].expr, labels)
  BY DEF Predicates, SelectLastInSeq, Naming
<1>2. Len(c.define) \in Nat
  BY CallFacts
<1>3. I \in SUBSET (0 .. Len(c.define)) /\ I \subseteq 1 .. Len(c.define)
  BY <1>2 DEF Naming
<1>4. I # {} => Max(I) \in I
  <2>1. I # {} => \E x \in I : \A y \in I : y <= x
    BY <1>2, <1>3, GreatestNat
  <2>2. \A x, y \in I : y <= x => x >= y
    BY <1>2, <1>3
  <2> QED
    BY <2>1, <2>2 DEF Max
<1>5. I # {} => at # 0
  BY <1>2, <1>3, <1>4
<1> HIDE DEF I
<1> QED
  BY <1>1, <1>4, <1>5 DEF I

(* Keys name the same labels in every labelling, variables of the pattern.  *)
LEMMA NamingAlike ==
  ASSUME NEW c \in Calls, NEW l, NEW m, LabelsOf(c, l), LabelsOf(c, m), NEW id
  PROVE  /\ Naming(c, l, id) = Naming(c, m, id)
         /\ Naming(c, l, id) # {} => id \in DOMAIN c.pattern
<1>1. ASSUME NEW i \in 1 .. Len(c.define), NEW n \in Resolve(c.define[i].name, c.pattern)
      PROVE  IdOf(l, n) = IdOf(m, n) /\ IdOf(l, n) \in DOMAIN c.pattern
  <2>1. n \in ToSet(c.pattern)
    BY DEF Resolve
  <2> QED
    BY <2>1, PatternIdFixed
<1> QED
  BY <1>1 DEF Naming

LEMMA PredicatesAlike ==
  ASSUME NEW c \in Calls, NEW l, NEW m, LabelsOf(c, l), LabelsOf(c, m)
  PROVE  Predicates(c, l) = Predicates(c, m)
<1>1. DOMAIN l = DOMAIN m /\ ToSet(l) = ToSet(m)
  BY DEF LabelsOf
<1>2. ASSUME NEW id \in DOMAIN l
      PROVE  Predicates(c, l)[id] = Predicates(c, m)[id]
  <2> DEFINE at == Max(Naming(c, l, id))
  <2>1. Naming(c, l, id) = Naming(c, m, id) /\ Canonical(c.define[at].expr, l) = Canonical(c.define[at].expr, m)
    BY <1>1, NamingAlike, ResolveAlike
  <2> QED
    BY <1>1, <2>1, PredicateIs
<1>3. /\ Predicates(c, l) = [id \in DOMAIN l |-> Predicates(c, l)[id]]
      /\ Predicates(c, m) = [id \in DOMAIN m |-> Predicates(c, m)[id]]
  BY DEF Predicates
<1> HIDE DEF Predicates
<1> QED
  BY <1>1, <1>2, <1>3

LEMMA GuardsAlike ==
  ASSUME NEW c \in Calls, NEW l, NEW m, LabelsOf(c, l), LabelsOf(c, m)
  PROVE  /\ DefineTaken(c, l) <=> DefineTaken(c, m)
         /\ MeasuresTaken(c, l) <=> MeasuresTaken(c, m)
         /\ Measured(c, l) = Measured(c, m)
<1>1. ToSet(l) = ToSet(m)
  BY DEF LabelsOf
<1>2. /\ \A x : Canonical(x, l) = Canonical(x, m)
      /\ \A x : Resolvable(x, l) <=> Resolvable(x, m)
  BY <1>1, ResolveAlike
<1>3. \A x : MeasureTy(c, x, l) = MeasureTy(c, x, m)
  BY <1>2 DEF MeasureTy
<1>4. DefineTaken(c, l) <=> DefineTaken(c, m)
  BY <1>2 DEF DefineTaken
<1>5. MeasuresTaken(c, l) <=> MeasuresTaken(c, m)
  BY <1>2, <1>3 DEF MeasuresTaken
<1>6. Measured(c, l) = Measured(c, m)
  BY <1>2, <1>3 DEF Measured
<1> QED
  BY <1>4, <1>5, <1>6

(* AFTER MATCH SKIP names a label in every labelling or in none.            *)
LEMMA AfterAlike ==
  ASSUME NEW c \in Calls, NEW l, NEW m, LabelsOf(c, l), LabelsOf(c, m)
  PROVE  AfterTaken(c, l) <=> AfterTaken(c, m)
<1>1. l \in Seq(Name) /\ m \in Seq(Name) /\ ToSet(l) = ToSet(m)
  BY DEF LabelsOf
<1>2. PICK name : name = Lower(c.after.var)
  OBVIOUS
<1>3. PICK found : found = Resolve(name, l)
  OBVIOUS
<1>4. found = Resolve(name, m)
  BY <1>1, <1>3, ResolveAlike
<1>5. PICK label : label = IF found = {} THEN Upper(name) ELSE CHOOSE n \in found : TRUE
  OBVIOUS
<1>6. AfterLabel(c.after.var, l) = IdOf(l, label) /\ AfterLabel(c.after.var, m) = IdOf(m, label)
  BY <1>2, <1>3, <1>4, <1>5 DEF AfterLabel
<1>7. /\ IdOf(l, label) # 0 <=> label \in ToSet(l)
      /\ IdOf(m, label) # 0 <=> label \in ToSet(m)
  BY <1>1, IdFacts
<1>8. AfterLabel(c.after.var, l) # 0 <=> AfterLabel(c.after.var, m) # 0
  BY <1>1, <1>6, <1>7
<1> QED
  BY <1>8, Zenon DEF AfterTaken

-----------------------------------------------------------------------------
(* The inductive invariant: what a plan has in it once the part of          *)
(* Plan::build that makes it is passed, and what that part let through.     *)

LabelsOK(cfg, p) ==
  /\ SubsetsTaken(cfg) /\ p.labels \in Labellings(cfg)
  /\ p.members = MembersOf(p.labels, Subsets(cfg))
DefineOK(cfg, p) == DefineTaken(cfg, p.labels) /\ p.define = Predicates(cfg, p.labels)
MeasuresOK(cfg, p) == MeasuresTaken(cfg, p.labels) /\ p.measures = Measured(cfg, p.labels)
OrderOK(cfg, p) == OrderTaken(cfg) /\ p.order = OrderKeys(cfg)
AfterOK(cfg, p) == AfterTaken(cfg, p.labels)
IncludeOK(cfg, p) == IncludeTaken(cfg) /\ p.include = Included(cfg, p.order)
ColumnsOK(cfg, p) == p.columns = Columns(cfg, p.include, p.order, p.measures)

(* The stages from one on. *)
Columns_ == {"columns", "built"}
Include_ == {"include"} \cup Columns_
After_ == {"after"} \cup Include_
Partition_ == {"partition"} \cup After_
Order_ == {"order"} \cup Partition_
Measures_ == {"measures"} \cup Order_
Define_ == {"define"} \cup Measures_
Subset_ == {"subset"} \cup Define_

Progress(cfg, p, stage) ==
  /\ stage \in Subset_ => ArgumentsTaken(cfg)
  /\ stage \in Define_ => LabelsOK(cfg, p)
  /\ stage \in Measures_ => DefineOK(cfg, p)
  /\ stage \in Order_ => MeasuresOK(cfg, p)
  /\ stage \in Partition_ => OrderOK(cfg, p)
  /\ stage \in After_ => PartitionTaken(cfg)
  /\ stage \in Include_ => AfterOK(cfg, p)
  /\ stage \in Columns_ => IncludeOK(cfg, p)
  /\ stage = "built" => ColumnsOK(cfg, p)

Fields == {"labels", "members", "define", "measures", "order", "after", "include", "columns"}
IsPlan(p) == DOMAIN p = Fields /\ p = [f \in Fields |-> p[f]]

(* A call that was bound once is never refused.                             *)
BoundOK == bound # Empty => /\ pc # "refused"
                            /\ IsPlan(bound) /\ Progress(call, bound, "built")

IInv ==
  /\ call \in Calls /\ IsPlan(plan)
  /\ pc \in {"arguments", "refused"} \cup Subset_
  /\ Progress(call, plan, pc)
  /\ BoundOK

(* Filling one field in leaves the others.                                  *)
LEMMA FieldSet ==
  ASSUME NEW p, IsPlan(p), NEW f \in Fields, NEW x, NEW q, q = [p EXCEPT ![f] = x]
  PROVE  IsPlan(q) /\ q[f] = x /\ \A g \in Fields : g # f => q[g] = p[g]
BY DEF IsPlan

LEMMA EmptyPlan == IsPlan(Empty)
BY DEF IsPlan, Empty, Fields

LEMMA InitHolds == Init => IInv
<1> SUFFICES ASSUME Init
             PROVE  IInv
  OBVIOUS
<1>1. call \in Calls /\ plan = Empty /\ bound = Empty /\ pc = "arguments"
  BY DEF Init
<1>2. Progress(call, plan, pc)
  BY <1>1 DEF Progress, Subset_, Define_, Measures_, Order_, Partition_, After_, Include_, Columns_
<1> QED
  BY <1>1, <1>2, EmptyPlan DEF IInv, BoundOK

LEMMA ReadArgumentsInv ==
  ASSUME IInv, ReadArguments
  PROVE  IInv'
<1>1. call' = call /\ bound' = bound /\ plan' = Empty /\ pc' = "subset" /\ ArgumentsTaken(call)
  BY DEF ReadArguments
<1>2. Progress(call, Empty, "subset")
  BY <1>1 DEF Progress, Define_, Measures_, Order_, Partition_, After_, Include_, Columns_
<1> QED
  BY <1>1, <1>2, EmptyPlan DEF IInv, BoundOK, Subset_

LEMMA NameLabelsInv ==
  ASSUME IInv, NameLabels
  PROVE  IInv'
<1>1. PICK labels \in Labellings(call) :
        plan' = [plan EXCEPT !.labels = labels, !.members = MembersOf(labels, Subsets(call))]
  BY Zenon DEF NameLabels
<1>2. call' = call /\ bound' = bound /\ pc = "subset" /\ pc' = "define" /\ SubsetsTaken(call) /\ IsPlan(plan)
      /\ Progress(call, plan, "subset")
  BY DEF NameLabels, IInv
<1>3. IsPlan(plan') /\ plan'.labels = labels /\ plan'.members = MembersOf(labels, Subsets(call))
  BY <1>1, <1>2 DEF IsPlan, Fields
<1>4. Progress(call, plan', "define")
  BY <1>2, <1>3 DEF Progress, LabelsOK, Subset_, Define_, Measures_, Order_, Partition_, After_, Include_, Columns_
<1> QED
  BY <1>2, <1>3, <1>4 DEF IInv, BoundOK, Subset_, Define_

LEMMA DefineInv ==
  ASSUME IInv, Define
  PROVE  IInv'
<1>1. call' = call /\ bound' = bound /\ pc = "define" /\ pc' = "measures" /\ DefineTaken(call, plan.labels)
      /\ plan' = [plan EXCEPT !.define = Predicates(call, plan.labels)]
      /\ IsPlan(plan) /\ Progress(call, plan, "define")
  BY DEF Define, IInv
<1>2. /\ IsPlan(plan') /\ plan'.define = Predicates(call, plan.labels)
      /\ plan'.labels = plan.labels /\ plan'.members = plan.members
  BY <1>1, FieldSet DEF Fields
<1>3. Progress(call, plan', "measures")
  BY <1>1, <1>2
  DEF Progress, LabelsOK, DefineOK, Subset_, Define_, Measures_, Order_, Partition_, After_, Include_, Columns_
<1> QED
  BY <1>1, <1>2, <1>3 DEF IInv, BoundOK, Subset_, Define_, Measures_

LEMMA MeasuresInv ==
  ASSUME IInv, Measures
  PROVE  IInv'
<1>1. call' = call /\ bound' = bound /\ pc = "measures" /\ pc' = "order" /\ MeasuresTaken(call, plan.labels)
      /\ plan' = [plan EXCEPT !.measures = Measured(call, plan.labels)]
      /\ IsPlan(plan) /\ Progress(call, plan, "measures")
  BY DEF Measures, IInv
<1>2. /\ IsPlan(plan') /\ plan'.measures = Measured(call, plan.labels)
      /\ plan'.labels = plan.labels /\ plan'.members = plan.members /\ plan'.define = plan.define
  BY <1>1, FieldSet DEF Fields
<1>3. Progress(call, plan', "order")
  BY <1>1, <1>2
  DEF Progress, LabelsOK, DefineOK, MeasuresOK,
      Subset_, Define_, Measures_, Order_, Partition_, After_, Include_, Columns_
<1> QED
  BY <1>1, <1>2, <1>3 DEF IInv, BoundOK, Subset_, Define_, Measures_, Order_

LEMMA OrderByInv ==
  ASSUME IInv, OrderBy
  PROVE  IInv'
<1>1. call' = call /\ bound' = bound /\ pc = "order" /\ pc' = "partition" /\ OrderTaken(call)
      /\ plan' = [plan EXCEPT !.order = OrderKeys(call)]
      /\ IsPlan(plan) /\ Progress(call, plan, "order")
  BY DEF OrderBy, IInv
<1>2. /\ IsPlan(plan') /\ plan'.order = OrderKeys(call)
      /\ plan'.labels = plan.labels /\ plan'.members = plan.members /\ plan'.define = plan.define
      /\ plan'.measures = plan.measures
  BY <1>1, FieldSet DEF Fields
<1>3. Progress(call, plan', "partition")
  BY <1>1, <1>2
  DEF Progress, LabelsOK, DefineOK, MeasuresOK, OrderOK,
      Subset_, Define_, Measures_, Order_, Partition_, After_, Include_, Columns_
<1> QED
  BY <1>1, <1>2, <1>3 DEF IInv, BoundOK, Subset_, Define_, Measures_, Order_, Partition_

LEMMA PartitionByInv ==
  ASSUME IInv, PartitionBy
  PROVE  IInv'
<1>1. call' = call /\ bound' = bound /\ plan' = plan /\ pc = "partition" /\ pc' = "after" /\ PartitionTaken(call)
      /\ IsPlan(plan) /\ Progress(call, plan, "partition")
  BY DEF PartitionBy, IInv
<1>2. Progress(call, plan, "after")
  BY <1>1 DEF Progress, Subset_, Define_, Measures_, Order_, Partition_, After_, Include_, Columns_
<1> QED
  BY <1>1, <1>2 DEF IInv, BoundOK, Subset_, Define_, Measures_, Order_, Partition_, After_

LEMMA AfterInv ==
  ASSUME IInv, After
  PROVE  IInv'
<1>1. call' = call /\ bound' = bound /\ pc = "after" /\ pc' = "include" /\ AfterTaken(call, plan.labels)
      /\ plan' = [plan EXCEPT !.after = SkipTo(call, plan.labels)]
      /\ IsPlan(plan) /\ Progress(call, plan, "after")
  BY DEF After, IInv
<1>2. /\ IsPlan(plan')
      /\ plan'.labels = plan.labels /\ plan'.members = plan.members /\ plan'.define = plan.define
      /\ plan'.measures = plan.measures /\ plan'.order = plan.order
  BY <1>1, FieldSet DEF Fields
<1>3. Progress(call, plan', "include")
  BY <1>1, <1>2
  DEF Progress, LabelsOK, DefineOK, MeasuresOK, OrderOK, AfterOK,
      Subset_, Define_, Measures_, Order_, Partition_, After_, Include_, Columns_
<1> QED
  BY <1>1, <1>2, <1>3 DEF IInv, BoundOK, Subset_, Define_, Measures_, Order_, Partition_, After_, Include_

LEMMA IncludeInv ==
  ASSUME IInv, Include
  PROVE  IInv'
<1>1. call' = call /\ bound' = bound /\ pc = "include" /\ pc' = "columns" /\ IncludeTaken(call)
      /\ plan' = [plan EXCEPT !.include = Included(call, plan.order)]
      /\ IsPlan(plan) /\ Progress(call, plan, "include")
  BY DEF Include, IInv
<1>2. /\ IsPlan(plan') /\ plan'.include = Included(call, plan.order)
      /\ plan'.labels = plan.labels /\ plan'.members = plan.members /\ plan'.define = plan.define
      /\ plan'.measures = plan.measures /\ plan'.order = plan.order
  BY <1>1, FieldSet DEF Fields
<1>3. Progress(call, plan', "columns")
  BY <1>1, <1>2
  DEF Progress, LabelsOK, DefineOK, MeasuresOK, OrderOK, AfterOK, IncludeOK,
      Subset_, Define_, Measures_, Order_, Partition_, After_, Include_, Columns_
<1> QED
  BY <1>1, <1>2, <1>3
  DEF IInv, BoundOK, Subset_, Define_, Measures_, Order_, Partition_, After_, Include_, Columns_

LEMMA LayOutInv ==
  ASSUME IInv, LayOut
  PROVE  IInv'
<1>1. call' = call /\ bound' = bound /\ pc = "columns" /\ pc' = "built"
      /\ plan' = [plan EXCEPT !.columns = Columns(call, plan.include, plan.order, plan.measures)]
      /\ IsPlan(plan) /\ Progress(call, plan, "columns")
  BY DEF LayOut, IInv
<1>2. /\ IsPlan(plan') /\ plan'.columns = Columns(call, plan.include, plan.order, plan.measures)
      /\ plan'.labels = plan.labels /\ plan'.members = plan.members /\ plan'.define = plan.define
      /\ plan'.measures = plan.measures /\ plan'.order = plan.order /\ plan'.include = plan.include
  BY <1>1, FieldSet DEF Fields
<1>3. Progress(call, plan', "built")
  BY <1>1, <1>2
  DEF Progress, LabelsOK, DefineOK, MeasuresOK, OrderOK, AfterOK, IncludeOK, ColumnsOK,
      Subset_, Define_, Measures_, Order_, Partition_, After_, Include_, Columns_
<1> QED
  BY <1>1, <1>2, <1>3
  DEF IInv, BoundOK, Subset_, Define_, Measures_, Order_, Partition_, After_, Include_, Columns_

LEMMA RebindInv ==
  ASSUME IInv, Rebind
  PROVE  IInv'
<1>1. call' = call /\ bound' = plan /\ plan' = Empty /\ pc = "built" /\ pc' = "arguments"
      /\ IsPlan(plan) /\ Progress(call, plan, "built")
  BY DEF Rebind, IInv
<1>2. Progress(call, Empty, "arguments")
  BY DEF Progress, Subset_, Define_, Measures_, Order_, Partition_, After_, Include_, Columns_
<1> QED
  BY <1>1, <1>2, EmptyPlan DEF IInv, BoundOK

(* What was let through at the bind is let through at finalize.             *)
LEMMA RefuseInv ==
  ASSUME IInv, Refuse
  PROVE  IInv'
<1>1. call' = call /\ bound' = bound /\ plan' = plan /\ pc' = "refused" /\ IsPlan(plan) /\ call \in Calls
      /\ Progress(call, plan, pc)
  BY DEF Refuse, IInv
<1>2. bound = Empty
  <2> SUFFICES ASSUME bound # Empty
               PROVE  FALSE
    OBVIOUS
  <2>1. /\ ArgumentsTaken(call) /\ SubsetsTaken(call) /\ OrderTaken(call) /\ PartitionTaken(call)
        /\ IncludeTaken(call)
        /\ bound.labels \in Labellings(call)
        /\ DefineTaken(call, bound.labels) /\ MeasuresTaken(call, bound.labels) /\ AfterTaken(call, bound.labels)
    BY DEF IInv, BoundOK, Progress, LabelsOK, DefineOK, MeasuresOK, OrderOK, AfterOK, IncludeOK,
           Subset_, Define_, Measures_, Order_, Partition_, After_, Include_, Columns_
  <2>2. \/ pc = "define" /\ ~DefineTaken(call, plan.labels)
        \/ pc = "measures" /\ ~MeasuresTaken(call, plan.labels)
        \/ pc = "after" /\ ~AfterTaken(call, plan.labels)
    BY <2>1 DEF Refuse
  <2>3. plan.labels \in Labellings(call)
    BY <1>1, <2>2 DEF Progress, LabelsOK, Define_, Measures_, Order_, Partition_, After_
  <2> QED
    BY <1>1, <2>1, <2>2, <2>3, LabellingFacts, GuardsAlike, AfterAlike
<1>3. Progress(call, plan, "refused")
  BY DEF Progress, Subset_, Define_, Measures_, Order_, Partition_, After_, Include_, Columns_
<1> QED
  BY <1>1, <1>2, <1>3 DEF IInv, BoundOK

(***************************************************************************)
(* The invariant holds of every call, whatever order its subsets come in.  *)
(***************************************************************************)
THEOREM Bindings == Spec => []IInv
<1>1. IInv /\ [Next]_vars => IInv'
  <2> SUFFICES ASSUME IInv, [Next]_vars
               PROVE  IInv'
    OBVIOUS
  <2>1. CASE UNCHANGED vars
    BY <2>1 DEF vars, IInv, BoundOK
  <2>2. CASE Next
    BY <2>2, ReadArgumentsInv, NameLabelsInv, DefineInv, MeasuresInv, OrderByInv, PartitionByInv, AfterInv,
       IncludeInv, LayOutInv, RefuseInv, RebindInv DEF Next
  <2> QED
    BY <2>1, <2>2
<1> QED
  BY InitHolds, <1>1, PTL DEF Spec

-----------------------------------------------------------------------------
(* What the invariant gives.                                                *)

(* Two plans of one call are the same but for their labels, and those are   *)
(* the same set.                                                            *)
LEMMA PlansMatch ==
  ASSUME NEW c \in Calls, NEW p, NEW q, Progress(c, p, "built"), Progress(c, q, "built")
  PROVE  /\ p.define = q.define /\ p.measures = q.measures /\ p.order = q.order
         /\ p.include = q.include /\ p.columns = q.columns
         /\ LabelsOf(c, p.labels) /\ LabelsOf(c, q.labels)
         /\ LabelsOK(c, p) /\ LabelsOK(c, q)
<1>1. /\ LabelsOK(c, p) /\ DefineOK(c, p) /\ MeasuresOK(c, p) /\ OrderOK(c, p) /\ IncludeOK(c, p) /\ ColumnsOK(c, p)
      /\ LabelsOK(c, q) /\ DefineOK(c, q) /\ MeasuresOK(c, q) /\ OrderOK(c, q) /\ IncludeOK(c, q) /\ ColumnsOK(c, q)
  BY DEF Progress, Subset_, Define_, Measures_, Order_, Partition_, After_, Include_, Columns_
<1>2. LabelsOf(c, p.labels) /\ LabelsOf(c, q.labels)
  BY <1>1, LabellingFacts DEF LabelsOK
<1>3. p.define = q.define
  BY <1>1, <1>2, PredicatesAlike DEF DefineOK
<1>4. p.measures = q.measures
  BY <1>1, <1>2, GuardsAlike DEF MeasuresOK
<1>5. p.order = q.order /\ p.include = q.include
  BY <1>1 DEF OrderOK, IncludeOK
<1>6. p.columns = q.columns
  BY <1>1, <1>4, <1>5 DEF ColumnsOK
<1> QED
  BY <1>1, <1>2, <1>3, <1>4, <1>5, <1>6

LEMMA ReferencedAlike ==
  ASSUME NEW c \in Calls, NEW p, NEW q, Progress(c, p, "built"), Progress(c, q, "built")
  PROVE  Projection(c, p) = Projection(c, q)
<1>1. p.define = q.define /\ p.measures = q.measures /\ p.order = q.order /\ p.include = q.include
  BY PlansMatch
<1>2. Referenced(c, p) = Referenced(c, q)
  BY <1>1, Zenon DEF Referenced, Evaluated
<1> QED
  BY <1>2, Zenon DEF Projection

(* A label of the pattern and what a subset covers, by name: no labelling.  *)
LEMMA NameCovers ==
  ASSUME NEW c \in Calls, NEW p, LabelsOK(c, p), NEW n \in ToSet(p.labels), NEW k \in DOMAIN c.pattern
  PROVE  CoversByName(p, n, k) <=>
           \/ n \in ToSet(c.pattern) /\ IdOf(c.pattern, n) = k
           \/ n \in SubsetNames(c) /\ \E m \in Subsets(c)[n] : IdOf(c.pattern, m) = k
<1> DEFINE id == IdOf(p.labels, n)
<1>1. /\ LabelsOf(c, p.labels) /\ p.labels \in Seq(Name) /\ Len(p.labels) \in Nat /\ DOMAIN p.labels = 1 .. Len(p.labels)
      /\ p.members = MembersOf(p.labels, Subsets(c))
  BY LabellingFacts DEF LabelsOK, LabelsOf
<1>2. id \in DOMAIN p.labels /\ p.labels[id] = n
  BY <1>1, IdFacts
<1>3. c.pattern \in Seq(Name) /\ DOMAIN c.pattern = 1 .. Len(c.pattern)
  BY CallFacts
<1>4. id = k <=> n \in ToSet(c.pattern) /\ IdOf(c.pattern, n) = k
  <2>1. ASSUME id = k
        PROVE  n \in ToSet(c.pattern)
    <3>1. c.pattern[k] = n
      BY <1>1, <1>2, <1>3, <2>1 DEF LabelsOf
    <3> QED
      BY <3>1 DEF ToSet
  <2>2. n \in ToSet(c.pattern) => id = IdOf(c.pattern, n)
    BY <1>1, PatternIdFixed
  <2> QED
    BY <2>1, <2>2
<1>5. p.members[id] = IF n \in SubsetNames(c) THEN {IdOf(p.labels, m) : m \in Subsets(c)[n]} ELSE {}
  <2>1. DOMAIN Subsets(c) = SubsetNames(c)
    BY SubsetNamesFinite DEF Subsets, SubsetNames
  <2>2. PICK x : x = id
    OBVIOUS
  <2>3. x = IdOf(p.labels, n)
    BY <2>2
  <2>4. x \in DOMAIN p.labels /\ p.labels[x] = n
    BY <1>2, <2>2
  <2> HIDE DEF id
  <2>5. MembersOf(p.labels, Subsets(c))[x] =
          IF p.labels[x] \in DOMAIN Subsets(c) /\ x = IdOf(p.labels, p.labels[x])
          THEN {IdOf(p.labels, m) : m \in Subsets(c)[p.labels[x]]} ELSE {}
    BY <2>4, Zenon DEF MembersOf
  <2>6. MembersOf(p.labels, Subsets(c))[x] =
          IF n \in DOMAIN Subsets(c) /\ x = IdOf(p.labels, n)
          THEN {IdOf(p.labels, m) : m \in Subsets(c)[n]} ELSE {}
    BY <2>4, <2>5, Zenon
  <2>7. p.members[x] = IF n \in SubsetNames(c) THEN {IdOf(p.labels, m) : m \in Subsets(c)[n]} ELSE {}
    BY <1>1, <2>1, <2>3, <2>6
  <2> QED
    BY <2>2, <2>7
<1>6. ASSUME n \in SubsetNames(c), NEW m \in Subsets(c)[n]
      PROVE  IdOf(p.labels, m) = IdOf(c.pattern, m)
  <2>1. m \in ToSet(c.pattern)
    <3>1. PICK ms : Subsets(c)[n] = UNION {Resolve(w, c.pattern) : w \in ms}
      BY <1>6 DEF Subsets, SubsetNames
    <3>2. PICK w \in ms : m \in Resolve(w, c.pattern)
      BY <3>1, <1>6
    <3> QED
      BY <3>2 DEF Resolve
  <2> QED
    BY <1>1, <2>1, PatternIdFixed
<1>7. k \in p.members[id] <=> n \in SubsetNames(c) /\ \E m \in Subsets(c)[n] : IdOf(c.pattern, m) = k
  BY <1>5, <1>6
<1> HIDE DEF id
<1> QED
  BY <1>4, <1>7 DEF CoversByName, Covers, id

(***************************************************************************)
(* A call that was bound finalizes, with the columns the client was told,  *)
(* the layout the sinks stored and labels that cover the same rows         *)
(* (Plan::build is run anew by every phase, and HashMap lists the subsets  *)
(* in an order of its own each time).                                      *)
(***************************************************************************)
THEOREM PhasesAgree == Spec => []PlansAgree
<1>1. IInv => PlansAgree
  <2> SUFFICES ASSUME IInv
               PROVE  PlansAgree
    OBVIOUS
  <2>1. bound # Empty => pc # "refused"
    BY DEF IInv, BoundOK
  <2>2. ASSUME Bound
        PROVE  /\ plan.columns = bound.columns /\ Projection(call, plan) = Projection(call, bound)
               /\ ToSet(plan.labels) = ToSet(bound.labels)
               /\ \A n \in ToSet(plan.labels), k \in PatternIds : CoversByName(plan, n, k) <=> CoversByName(bound, n, k)
    <3>1. call \in Calls /\ Progress(call, plan, "built") /\ Progress(call, bound, "built")
      BY <2>2 DEF Bound, IInv, BoundOK
    <3>2. Projection(call, plan) = Projection(call, bound)
      BY <3>1, ReferencedAlike
    <3>3. plan.columns = bound.columns /\ LabelsOK(call, plan) /\ LabelsOK(call, bound)
          /\ ToSet(plan.labels) = ToSet(bound.labels)
      BY <3>1, PlansMatch DEF LabelsOf
    <3>4. ASSUME NEW n \in ToSet(plan.labels), NEW k \in PatternIds
          PROVE  CoversByName(plan, n, k) <=> CoversByName(bound, n, k)
      <4> DEFINE Inside == \/ n \in ToSet(call.pattern) /\ IdOf(call.pattern, n) = k
                           \/ n \in SubsetNames(call) /\ \E m \in Subsets(call)[n] : IdOf(call.pattern, m) = k
      <4>1. CoversByName(plan, n, k) <=> Inside
        BY <3>1, <3>3, NameCovers DEF PatternIds
      <4>2. CoversByName(bound, n, k) <=> Inside
        BY <3>1, <3>3, NameCovers DEF PatternIds
      <4> QED
        BY <4>1, <4>2
    <3> QED
      BY <3>2, <3>3, <3>4
  <2> QED
    BY <2>1, <2>2 DEF PlansAgree
<1> QED
  BY <1>1, Bindings, PTL

(* A column is found again by counting: no two of the stored ones have the  *)
(* same number of stored ones up to them.                                   *)
LEMMA CountFixes ==
  ASSUME NEW n \in Nat, NEW P \in SUBSET (1 .. n), NEW i \in P, NEW j \in P, i < j
  PROVE  Cardinality({x \in P : x <= i}) # Cardinality({x \in P : x <= j})
<1>1. \A x \in P : x \in Int
  OBVIOUS
<1>2. PICK I : I = {x \in P : x <= i}
  OBVIOUS
<1>3. PICK J : J = {x \in P : x <= j}
  OBVIOUS
<1>4. I \in SUBSET J /\ J \in SUBSET (1 .. n)
  <2>1. \A x \in P : x <= i => x <= j
    BY <1>1
  <2>2. I \subseteq J
    BY <1>2, <1>3, <2>1, Zenon
  <2>3. J \subseteq 1 .. n
    BY <1>3, Zenon
  <2> QED
    BY <2>2, <2>3, Zenon
<1>5. j \in J /\ j \notin I
  BY <1>1, <1>2, <1>3
<1>6. IsFiniteSet(1 .. n)
  BY FS_Interval
<1>7. IsFiniteSet(J)
  BY <1>4, <1>6, FS_Subset
<1>8. Cardinality(I) # Cardinality(J)
  BY <1>4, <1>5, <1>7, FS_Subset
<1> QED
  BY <1>2, <1>3, <1>8

LEMMA PlaceFixesColumn ==
  ASSUME NEW c \in Calls, NEW p, NEW i \in Projection(c, p), NEW j \in Projection(c, p),
         Place(c, p, i) = Place(c, p, j)
  PROVE  i = j
<1>1. Projection(c, p) \in SUBSET (1 .. Len(c.input)) /\ Len(c.input) \in Nat
  <2> DEFINE Inputs == [name : Name, ty : STRING]
  <2>1. c.input \in Seq(Inputs)
    BY CallFacts
  <2> HIDE DEF Inputs
  <2>2. DOMAIN c.input = 1 .. Len(c.input) /\ Len(c.input) \in Nat
    BY <2>1
  <2> QED
    BY <2>2, Zenon DEF Projection
<1>2. ~(i < j) /\ ~(j < i)
  BY <1>1, CountFixes DEF Place
<1>3. i \in Int /\ j \in Int
  BY <1>1
<1> QED
  BY <1>2, <1>3

(* What is looked up is stored: evaluation goes under no node that          *)
(* collect_columns leaves out.                                              *)
LEMMA LookedUpIsReferenced ==
  ASSUME NEW c, NEW p
  PROVE  LookedUp(c, p) \subseteq Referenced(c, p)
<1>1. EvalNodes = CollectNodes
  BY DEF EvalNodes, CollectNodes
<1>2. \A x : Found(x, EvalNodes) = Found(x, CollectNodes)
  BY <1>1
<1> QED
  BY <1>2, Zenon DEF LookedUp, Referenced

(* So the first column of that name is the same one, before and after the   *)
(* others are dropped.                                                      *)
LEMMA FirstIsStored ==
  ASSUME NEW c, NEW p, NEW n \in Referenced(c, p)
  PROVE  FirstNamed(c, Projection(c, p), n) = FirstNamed(c, DOMAIN c.input, n)
<1>1. {i \in Projection(c, p) : SameName(c.input[i].name, n)} = {i \in DOMAIN c.input : SameName(c.input[i].name, n)}
  BY Zenon DEF Projection
<1> QED
  BY <1>1, Zenon DEF FirstNamed

(***************************************************************************)
(* A column that finalize looks up by name (col_index), at the index its   *)
(* own plan gives it, in a batch that a sink projected by another plan, is *)
(* the first column of the input to have that name: whatever the call, the *)
(* columns dropped and the names given twice.                              *)
(***************************************************************************)
THEOREM ReadBackByName == Spec => []FinalizeReadsWhatWasBound
<1>1. IInv => FinalizeReadsWhatWasBound
  <2> SUFFICES ASSUME IInv, Bound, NEW n \in LookedUp(call, plan)
               PROVE  Fetched(call, plan, bound, n) = FirstNamed(call, DOMAIN call.input, n)
    BY DEF FinalizeReadsWhatWasBound
  <2> DEFINE P == Projection(call, plan)
             first == FirstNamed(call, P, n)
  <2>1. call \in Calls /\ Progress(call, plan, "built") /\ Progress(call, bound, "built")
    BY DEF Bound, IInv, BoundOK
  <2>2. P = Projection(call, bound)
    BY <2>1, ReferencedAlike
  <2>3. \A i : Place(call, bound, i) = Place(call, plan, i)
    BY <2>2 DEF Place
  <2>4. first \subseteq P
    BY DEF FirstNamed
  <2>5. Fetched(call, plan, bound, n) = {i \in P : \E j \in first : Place(call, plan, i) = Place(call, plan, j)}
    BY <2>2, <2>3, Zenon DEF Fetched, ColIndex
  <2>6. \A i, j \in P : Place(call, plan, i) = Place(call, plan, j) => i = j
    BY <2>1, PlaceFixesColumn
  <2>7. first = FirstNamed(call, DOMAIN call.input, n)
    BY LookedUpIsReferenced, FirstIsStored
  <2> HIDE DEF P, first
  <2> QED
    BY <2>4, <2>5, <2>6, <2>7
<1> QED
  BY <1>1, Bindings, PTL

(* A name that resolves among the labels has one of its spelling.           *)
LEMMA ResolvedIsSpelled ==
  ASSUME NEW c \in Calls, LabelsOf(c, plan.labels), NEW w \in Name, NEW n \in Resolve(w, plan.labels)
  PROVE  Spelled(w, IdOf(plan.labels, n)) /\ plan.labels[IdOf(plan.labels, n)] = n
<1>1. plan.labels \in Seq(Name) /\ DOMAIN plan.labels = 1 .. Len(plan.labels)
  BY DEF LabelsOf
<1>2. n \in ToSet(plan.labels) /\ (n = w \/ (n = Upper(w) /\ w \notin ToSet(plan.labels)))
  BY ResolveFinds
<1>3. IdOf(plan.labels, n) \in DOMAIN plan.labels /\ plan.labels[IdOf(plan.labels, n)] = n
  BY <1>1, <1>2, IdFacts
<1> QED
  BY <1>2, <1>3 DEF Spelled

(* So does a name that resolves in the pattern: no subset comes between, as *)
(* the name of a subset is upper case and would be the variable itself.     *)
LEMMA VariableIsSpelled ==
  ASSUME NEW c \in Calls, LabelsOf(c, plan.labels), NEW w \in Name, NEW n \in Resolve(w, c.pattern)
  PROVE  Spelled(w, IdOf(plan.labels, n)) /\ IdOf(plan.labels, n) \in DOMAIN c.pattern
<1>1. n \in ToSet(c.pattern) /\ (n = w \/ (n = Upper(w) /\ w \notin ToSet(c.pattern)))
  BY ResolveFinds
<1>2. IdOf(plan.labels, n) \in DOMAIN c.pattern /\ plan.labels[IdOf(plan.labels, n)] = n
  BY <1>1, PatternIdFixed
<1>3. n # w => w \notin ToSet(plan.labels)
  <2> SUFFICES ASSUME n # w, w \in SubsetNames(c)
               PROVE  FALSE
    BY <1>1 DEF LabelsOf, Names
  <2> QED
    BY <1>1, SubsetNamesFinite
<1>4. IdOf(plan.labels, n) \in DOMAIN plan.labels
  <2>1. ToSet(plan.labels) = Names(c) /\ plan.labels \in Seq(Name)
    BY DEF LabelsOf
  <2>2. n \in ToSet(plan.labels)
    BY <1>1, <2>1 DEF Names
  <2> QED
    BY <2>1, <2>2, IdFacts
<1> QED
  BY <1>1, <1>2, <1>3, <1>4 DEF Spelled

(* What an expression keeps, and what becomes of its qualifiers.            *)
LEMMA CanonicalFields ==
  ASSUME NEW x \in Expr, NEW l
  PROVE  /\ Canonical(x, l).quals = UNION {Resolve(q, l) : q \in x.quals}
         /\ Canonical(x, l).ty = x.ty /\ x.quals \subseteq Name
BY Zenon DEF Canonical, Expr

LEMMA CallExprs ==
  ASSUME NEW c \in Calls
  PROVE  /\ Len(c.define) \in Nat /\ DOMAIN c.define = 1 .. Len(c.define)
         /\ \A i \in 1 .. Len(c.define) : c.define[i].name \in Name /\ c.define[i].expr \in Expr
         /\ DOMAIN c.measures = 1 .. Len(c.measures)
         /\ \A i \in 1 .. Len(c.measures) : c.measures[i].expr \in Expr
<1> DEFINE Keys == [name : Name, expr : Expr]
           Items == [name : Name, expr : Expr, type : STRING]
<1>1. c.define \in Seq(Keys) /\ c.measures \in Seq(Items)
  BY CallFacts
<1>2. (\A d \in Keys : d.name \in Name /\ d.expr \in Expr) /\ (\A m \in Items : m.expr \in Expr)
  OBVIOUS
<1> HIDE DEF Keys, Items
<1> QED
  BY <1>1, <1>2

(* A predicate is one: check_predicate let none through without a type.     *)
LEMMA PredicateHasType ==
  ASSUME NEW c \in Calls, NEW labels, DefineTaken(c, labels), NEW i \in 1 .. Len(c.define)
  PROVE  Canonical(c.define[i].expr, labels) # NoExpr
<1> DEFINE x == Canonical(c.define[i].expr, labels)
<1>1. InferTy(c, x) \in {"BOOLEAN", "NULL"}
  BY CallExprs DEF DefineTaken
<1>2. x.ty # NoTy
  <2>1. InferTy(c, x) = x.ty \/ InferTy(c, x) = NoTy
    BY Zenon DEF InferTy
  <2> HIDE DEF x
  <2>2. InferTy(c, x) # NoTy
    BY <1>1 DEF NoTy
  <2> QED
    BY <2>1, <2>2, Zenon
<1>3. NoExpr.ty = NoTy
  BY DEF NoExpr
<1> QED
  BY <1>2, <1>3

(***************************************************************************)
(* A name in SUBSET, DEFINE or MEASURES stands for the label of exactly    *)
(* that spelling, else for the one in upper case (resolve_var): each       *)
(* DEFINE key has its predicate there, at a variable of the pattern, no    *)
(* other label has one, and no reference is left that names no label.      *)
(***************************************************************************)
THEOREM LabelsAsWritten == Spec => []LabelsMeanWhatIsWritten
<1>1. IInv => LabelsMeanWhatIsWritten
  <2> SUFFICES ASSUME IInv, pc = "built"
               PROVE  LabelsMeanWhatIsWritten
    BY DEF LabelsMeanWhatIsWritten
  <2> DEFINE labels == plan.labels
             n == Len(call.define)
  <2>1. call \in Calls /\ Progress(call, plan, "built")
    BY DEF IInv
  <2>2. /\ LabelsOK(call, plan) /\ DefineTaken(call, labels) /\ plan.define = Predicates(call, labels)
        /\ MeasuresTaken(call, labels) /\ plan.measures = Measured(call, labels)
    BY <2>1 DEF Progress, DefineOK, MeasuresOK, Subset_, Define_, Measures_, Order_, Partition_,
                After_, Include_, Columns_
  <2>3. LabelsOf(call, labels) /\ labels \in Seq(Name)
    BY <2>1, <2>2, LabellingFacts DEF LabelsOK, LabelsOf
  <2>4. DOMAIN plan.define = DOMAIN labels
    BY <2>2 DEF Predicates
  <2>5. ASSUME NEW d \in ToSet(call.define)
        PROVE  \E id \in PatternIds : Spelled(d.name, id) /\ plan.define[id] # NoExpr
    <3>1. PICK i \in 1 .. n : d = call.define[i]
      BY <2>1, CallExprs DEF ToSet
    <3>2. d.name \in Name
      BY <2>1, <3>1, CallExprs
    <3>3. PICK v \in Resolve(d.name, call.pattern) : TRUE
      BY <2>1, <2>2, <3>1, CallExprs DEF DefineTaken
    <3>4. PICK id : id = IdOf(labels, v)
      OBVIOUS
    <3>5. Spelled(d.name, id) /\ id \in PatternIds
      BY <2>1, <2>3, <3>2, <3>3, <3>4, VariableIsSpelled DEF PatternIds
    <3>6. i \in Naming(call, labels, id)
      BY <3>1, <3>3, <3>4 DEF Naming
    <3>7. id \in DOMAIN labels
      BY <3>5 DEF Spelled
    <3>8. PICK j \in Naming(call, labels, id) : plan.define[id] = Canonical(call.define[j].expr, labels)
      BY <2>1, <2>2, <3>6, <3>7, PredicateIs
    <3>9. plan.define[id] # NoExpr
      BY <2>1, <2>2, <3>8, PredicateHasType DEF Naming
    <3> QED
      BY <3>5, <3>9
  <2>6. ASSUME NEW id \in DOMAIN plan.define, plan.define[id] # NoExpr
        PROVE  /\ id \in PatternIds
               /\ \E d \in ToSet(call.define) : Spelled(d.name, id)
               /\ plan.define[id].quals \subseteq ToSet(plan.labels)
    <3>1. PICK j \in Naming(call, labels, id) : plan.define[id] = Canonical(call.define[j].expr, labels)
      BY <2>1, <2>2, <2>4, <2>6, PredicateIs
    <3>2. j \in 1 .. n
      BY DEF Naming
    <3>3. PICK v \in Resolve(call.define[j].name, call.pattern) : id = IdOf(labels, v)
      BY DEF Naming
    <3>4. call.define[j].name \in Name /\ call.define[j].expr \in Expr /\ call.define[j] \in ToSet(call.define)
      BY <2>1, <3>2, CallExprs DEF ToSet
    <3>5. Spelled(call.define[j].name, id) /\ id \in PatternIds
      BY <2>1, <2>3, <3>3, <3>4, VariableIsSpelled DEF PatternIds
    <3>6. plan.define[id].quals = UNION {Resolve(q, labels) : q \in call.define[j].expr.quals}
      BY <3>1, <3>4, CanonicalFields
    <3>7. \A q : Resolve(q, labels) \subseteq ToSet(labels)
      BY DEF Resolve
    <3> QED
      BY <3>4, <3>5, <3>6, <3>7
  <2>7. ASSUME NEW i \in DOMAIN call.measures, NEW q \in call.measures[i].expr.quals
        PROVE  \E id \in DOMAIN plan.labels : Spelled(q, id) /\ plan.labels[id] \in plan.measures[i].expr.quals
    <3>1. call.measures[i].expr \in Expr
      BY <2>1, CallExprs
    <3>2. q \in Name
      BY <3>1, CanonicalFields
    <3>3. PICK v \in Resolve(q, labels) : TRUE
      BY <2>2 DEF MeasuresTaken, Resolvable
    <3>4. PICK id : id = IdOf(labels, v)
      OBVIOUS
    <3>5. Spelled(q, id) /\ labels[id] = v
      BY <2>1, <2>3, <3>2, <3>3, <3>4, ResolvedIsSpelled
    <3>6. id \in DOMAIN labels
      BY <3>5 DEF Spelled
    <3>7. plan.measures[i].expr = Canonical(call.measures[i].expr, labels)
      BY <2>2 DEF Measured
    <3>8. v \in plan.measures[i].expr.quals
      BY <3>1, <3>3, <3>7, CanonicalFields
    <3> QED
      BY <3>5, <3>6, <3>8
  <2> QED
    BY <2>5, <2>6, <2>7 DEF LabelsMeanWhatIsWritten
<1> QED
  BY <1>1, Bindings, PTL
=============================================================================
