---------------------------- MODULE NpmCrawlProofs ----------------------------
(***************************************************************************)
(* Proofs about the merge of fragments and the npm crawl that collects     *)
(* them.  The first part speaks of GraphMerge alone: merging is the least  *)
(* upper bound of what the fragments say, for every set of fragments,      *)
(* names, fields and values.  The second part speaks of the crawl, for any *)
(* dependencies and any limits: what it selects does not depend on the     *)
(* order of the answers, and nothing that it collected is lost.            *)
(***************************************************************************)
EXTENDS NpmCrawl, FiniteSetTheorems, WellFoundedInduction, TLAPS

(* Agree is the absence of a clash, and symmetric.                         *)
LEMMA AgreeIsNoClash ==
  \A a, b \in Entity : /\ Agree(a, b) = ~Clash(a, b)
                       /\ Clash(a, b) = Clash(b, a)
<1> SUFFICES ASSUME NEW a \in Entity, NEW b \in Entity
             PROVE  Agree(a, b) = ~Clash(a, b) /\ Clash(a, b) = Clash(b, a)
  OBVIOUS
<1> Absent \notin Values
  BY MergeAssumption
<1>1. \A x \in Fields : a.fields[x] \in Values \cup {Absent}
                        /\ b.fields[x] \in Values \cup {Absent}
  BY DEF Entity
<1>2. (\A x \in Fields : Absent \in {a.fields[x], b.fields[x]} \/ a.fields[x] = b.fields[x])
        = ~(\E v, w \in Values : v # w /\ \E x \in Fields : a.fields[x] = v /\ b.fields[x] = w)
  BY <1>1
<1>3. Agree(a, b) = ~Clash(a, b)
  BY <1>2, Zenon DEF Agree, Clash
<1>4. Clash(a, b) = Clash(b, a)
  BY DEF Clash
<1> QED  BY <1>3, <1>4

(* What two entities say together is an entity.                            *)
LEMMA MergedType == \A a, b \in Entity : Merged(a, b) \in Entity
<1> SUFFICES ASSUME NEW a \in Entity, NEW b \in Entity
             PROVE  Merged(a, b) \in Entity
  OBVIOUS
<1>1. Larger(a.at, b.at) \in Nat /\ Larger(a.made, b.made) \in Nat
  BY DEF Entity, Larger
<1>2. (a.synthetic /\ (a.kind = "Evidence" \/ b.synthetic)) \in BOOLEAN
  BY DEF Entity
<1>3. [x \in Fields |-> IF a.fields[x] # Absent THEN a.fields[x] ELSE b.fields[x]]
        \in [Fields -> Values \cup {Absent}]
  BY DEF Entity
<1> QED  BY <1>1, <1>2, <1>3 DEF Entity, Merged

(* One observation is its own join.                                        *)
LEMMA JoinOfOne == \A o \in Entity : IsJoin(o, {o})
<1> SUFFICES ASSUME NEW o \in Entity PROVE IsJoin(o, {o})
  OBVIOUS
<1>1. o.at \in Nat /\ o.made \in Nat /\ o.synthetic \in BOOLEAN
  BY DEF Entity
<1>2. o.evidence = UNION {s.evidence : s \in {o}}
  OBVIOUS
<1>3. o.synthetic = (\A s \in {o} : s.synthetic)
  BY <1>1
<1> QED  BY <1>1, <1>2, <1>3 DEF IsJoin

(* A join extended by an observation that agrees with it is a join.        *)
LEMMA JoinOfMore ==
  ASSUME NEW S \in SUBSET Entity, S # {}, NEW e \in Entity, IsJoin(e, S),
         NEW o \in Entity, Agree(e, o)
  PROVE  IsJoin(Merged(e, o), S \cup {o})
<1> DEFINE m == Merged(e, o)
           T == S \cup {o}
<1>0. /\ m.kind = e.kind /\ m.evidence = e.evidence \cup o.evidence
      /\ m.at = Larger(e.at, o.at) /\ m.made = Larger(e.made, o.made)
      /\ m.synthetic = (e.synthetic /\ (e.kind = "Evidence" \/ o.synthetic))
      /\ \A x \in Fields : m.fields[x] = IF e.fields[x] # Absent THEN e.fields[x]
                                                                ELSE o.fields[x]
  BY DEF Merged
<1>1. \A s \in T : s.kind = m.kind /\ s.at <= m.at /\ s.made <= m.made
  BY <1>0 DEF IsJoin, Agree, Entity, Larger
<1>2. \A x \in Fields : m.fields[x] # Absent => \E s \in T : s.fields[x] = m.fields[x]
  BY <1>0 DEF IsJoin
<1>3. \A x \in Fields, s \in T : s.fields[x] # Absent => m.fields[x] = s.fields[x]
  BY <1>0 DEF IsJoin, Agree
<1>4. m.evidence = UNION {s.evidence : s \in T}
  BY <1>0 DEF IsJoin
<1>5. m.synthetic = (\A s \in T : s.synthetic)
  <2>1. e.synthetic = (\A s \in S : s.synthetic)
    BY DEF IsJoin
  <2>2. e.kind = "Evidence" => e.synthetic = o.synthetic
    BY DEF Agree
  <2>3. (\A s \in T : s.synthetic) = ((\A s \in S : s.synthetic) /\ o.synthetic)
    OBVIOUS
  <2>4. e.synthetic \in BOOLEAN /\ o.synthetic \in BOOLEAN
    BY DEF Entity
  <2> QED  BY <1>0, <2>1, <2>2, <2>3, <2>4, Zenon
<1>6. (\E s \in T : s.at = m.at) /\ (\E s \in T : s.made = m.made)
  BY <1>0 DEF IsJoin, Larger
<1> HIDE DEF m, T
<1>7. IsJoin(m, T)
  BY <1>1, <1>2, <1>3, <1>4, <1>5, <1>6 DEF IsJoin
<1> QED  BY <1>7 DEF m, T

(* An observation agrees with the join of a consistent set exactly if it   *)
(* clashes with none of its members.                                       *)
LEMMA AgreeWithJoin ==
  ASSUME NEW S \in SUBSET Entity, S # {}, NEW e \in Entity, IsJoin(e, S),
         \A a, b \in S : ~Clash(a, b), NEW o \in Entity
  PROVE  Agree(e, o) = (\A s \in S : ~Clash(s, o))
<1>1. \A s \in S : Agree(s, o) = ~Clash(s, o)
  BY AgreeIsNoClash
<1>2. \A s \in S : s.kind = e.kind
  BY DEF IsJoin
<1>3. \A x \in Fields : (e.fields[x] = Absent \/ o.fields[x] = Absent \/ e.fields[x] = o.fields[x])
        = \A s \in S : (s.fields[x] = Absent \/ o.fields[x] = Absent \/ s.fields[x] = o.fields[x])
  BY DEF IsJoin
<1>4. ASSUME e.kind = "Evidence"
      PROVE  \A s \in S : s.synthetic = e.synthetic
  <2>1. \A a, b \in S : a.synthetic = b.synthetic
    BY <1>2, <1>4 DEF Clash
  <2>2. e.synthetic = (\A s \in S : s.synthetic)
    BY DEF IsJoin
  <2>3. e.synthetic \in BOOLEAN /\ \A s \in S : s.synthetic \in BOOLEAN
    BY DEF Entity
  <2> QED  BY <2>1, <2>2, <2>3, Zenon
<1>5. Agree(e, o) = \A s \in S : Agree(s, o)
  <2>1. ASSUME Agree(e, o), NEW s \in S PROVE Agree(s, o)
    BY <1>2, <1>3, <1>4, <2>1 DEF Agree
  <2>2. ASSUME \A s \in S : Agree(s, o) PROVE Agree(e, o)
    <3>1. e.kind = o.kind
      BY <1>2, <2>2 DEF Agree
    <3>2. \A x \in Fields : Absent \in {e.fields[x], o.fields[x]} \/ e.fields[x] = o.fields[x]
      BY <1>3, <2>2 DEF Agree
    <3>3. e.kind = "Evidence" => e.synthetic = o.synthetic
      BY <1>2, <1>4, <2>2 DEF Agree
    <3> QED  BY <3>1, <3>2, <3>3 DEF Agree
  <2>3. Agree(e, o) \in BOOLEAN
    BY DEF Agree
  <2> QED  BY <2>1, <2>2, <2>3
<1> QED  BY <1>1, <1>5

-----------------------------------------------------------------------------
(* What is said of a name when one more fragment is merged.                *)
LEMMA SaidType ==
  \A batch \in SUBSET Fragments, n \in Names : Said(n, batch) \in SUBSET Entity
BY MergeAssumption DEF Said, Graphs

LEMMA SaidMore ==
  ASSUME NEW batch, NEW f \in Fragments, NEW n \in Names
  PROVE  Said(n, batch \cup {f}) =
           Said(n, batch) \cup (IF Content[f][n] # Absent THEN {Content[f][n]} ELSE {})
BY DEF Said

Consistent(S) == \A a, b \in S : ~Clash(a, b)

(* The inductive invariant: the graph is the join of what was merged, and  *)
(* only a refused merge has seen a clash.                                  *)
MergeInv ==
  /\ MergeTypeOK
  /\ MergedIsJoin
  /\ (outcome = "conflict") = (\E n \in Names : ~Consistent(Said(n, merged)))
  /\ outcome = "invalid" => ~Valid(graph)

LEMMA InitInv == MergeInit => MergeInv
<1> SUFFICES ASSUME MergeInit PROVE MergeInv
  OBVIOUS
<1>1. \A n \in Names : Said(n, merged) = {}
  BY DEF MergeInit, Said
<1>2. MergeTypeOK
  BY DEF MergeInit, MergeTypeOK, Graphs
<1>3. MergedIsJoin
  BY <1>1 DEF MergeInit, MergedIsJoin
<1>4. \A n \in Names : Consistent(Said(n, merged))
  BY <1>1 DEF Consistent
<1> QED  BY <1>2, <1>3, <1>4 DEF MergeInv, MergeInit

(* One fragment more, for one name.                                        *)
LEMMA OneMore ==
  ASSUME MergeInv, outcome # "conflict", NEW f \in Fragments, NEW n \in Names,
         NEW o, o = Content[f][n], o # Absent
  PROVE  LET S == Said(n, merged)
         IN  /\ S = {} => /\ graph[n] = Absent /\ IsJoin(o, S \cup {o})
                          /\ Consistent(S \cup {o})
             /\ S # {} => /\ graph[n] # Absent
                          /\ Agree(graph[n], o) = Consistent(S \cup {o})
                          /\ Agree(graph[n], o) =>
                               IsJoin(Merged(graph[n], o), S \cup {o})
<1> DEFINE S == Said(n, merged)
<1>1. o \in Entity
  BY MergeAssumption DEF Graphs
<1>2. S \in SUBSET Entity
  BY SaidType DEF MergeInv, MergeTypeOK
<1>3. Consistent(S)
  BY DEF MergeInv
<1>4. ~Clash(o, o)
  BY DEF Clash
<1>5. IF S = {} THEN graph[n] = Absent ELSE graph[n] # Absent /\ IsJoin(graph[n], S)
  BY DEF MergeInv, MergedIsJoin
<1>6. graph[n] \in Entity \cup {Absent}
  BY DEF MergeInv, MergeTypeOK, Graphs
<1> HIDE DEF S
<1>7. CASE S = {}
  <2>1. IsJoin(o, S \cup {o})
    <3>1. S \cup {o} = {o}
      BY <1>7
    <3> QED  BY <1>1, <3>1, JoinOfOne
  <2>2. Consistent(S \cup {o})
    BY <1>4, <1>7 DEF Consistent
  <2> QED  BY <1>5, <1>7, <2>1, <2>2 DEF S
<1>8. CASE S # {}
  <2>1. graph[n] \in Entity /\ graph[n] # Absent /\ IsJoin(graph[n], S)
    BY <1>5, <1>6, <1>8
  <2>2. Agree(graph[n], o) = (\A s \in S : ~Clash(s, o))
    BY <1>1, <1>2, <1>3, <1>8, <2>1, AgreeWithJoin DEF Consistent
  <2>3. \A s \in S : Clash(s, o) = Clash(o, s)
    BY <1>1, <1>2, AgreeIsNoClash
  <2>4. Consistent(S \cup {o}) = (\A s \in S : ~Clash(s, o))
    BY <1>3, <1>4, <2>3 DEF Consistent
  <2>5. Agree(graph[n], o) => IsJoin(Merged(graph[n], o), S \cup {o})
    BY <1>1, <1>2, <1>8, <2>1, JoinOfMore
  <2> QED  BY <1>8, <2>1, <2>2, <2>4, <2>5 DEF S
<1> QED  BY <1>7, <1>8

LEMMA MergeFragmentInv ==
  ASSUME MergeInv, NEW f \in Fragments, MergeFragment(f)
  PROVE  MergeInv'
<1> DEFINE C(n) == Content[f][n]
<1>1. outcome = "merging" /\ merged' = merged \cup {f}
  BY DEF MergeFragment
<1>2. \A n \in Names : Said(n, merged') =
        Said(n, merged) \cup (IF C(n) # Absent THEN {C(n)} ELSE {})
  BY <1>1, SaidMore
<1>3. \A n \in Names : C(n) \in Entity \cup {Absent}
  BY MergeAssumption DEF Graphs
<1>4. \A n \in Names : graph[n] \in Entity \cup {Absent}
  BY DEF MergeInv, MergeTypeOK, Graphs
<1>5. \A n \in Names : Said(n, merged)' = Said(n, merged')
  BY DEF Said
<1>6. \A n \in Names : Consistent(Said(n, merged))
  BY <1>1 DEF MergeInv
<1>7. \A n \in Names : C(n) # Absent /\ graph[n] # Absent => Said(n, merged) # {}
  BY <1>1 DEF MergeInv, MergedIsJoin
<1>8. CASE Contradict(graph, Content[f])
  <2>1. outcome' = "conflict" /\ graph' = graph
    BY <1>8 DEF MergeFragment
  <2>2. PICK n \in Names : Both(graph, Content[f], n) /\ ~Agree(graph[n], C(n))
    BY <1>8 DEF Contradict
  <2>3. ~Consistent(Said(n, merged) \cup {C(n)})
    BY <1>1, <1>7, <2>2, OneMore DEF Both
  <2>4. ~Consistent(Said(n, merged)')
    BY <1>2, <1>5, <2>2, <2>3 DEF Both
  <2>5. MergeTypeOK'
    BY <1>1, <2>1 DEF MergeInv, MergeTypeOK, MergeFragment
  <2>6. MergedIsJoin'
    BY <2>1 DEF MergedIsJoin
  <2>7. (\E k \in Names : ~Consistent(Said(k, merged)))'
    <3>1. Said(n, merged)' = Said(n, merged')
      BY <1>5
    <3> QED  BY <2>4, <3>1 DEF Consistent, Clash
  <2> QED  BY <2>1, <2>5, <2>6, <2>7 DEF MergeInv
<1>9. CASE ~Contradict(graph, Content[f])
  <2>1. outcome' = "merging" /\ graph' = Joined(graph, Content[f])
    BY <1>1, <1>9 DEF MergeFragment
  <2>2. \A n \in Names : Both(graph, Content[f], n) => Agree(graph[n], C(n))
    BY <1>9 DEF Contradict
  <2>3. \A n \in Names : graph'[n] = IF Both(graph, Content[f], n)
                                     THEN Merged(graph[n], C(n))
                                     ELSE IF graph[n] = Absent THEN C(n) ELSE graph[n]
    BY <2>1 DEF Joined
  <2>4. ASSUME NEW n \in Names
        PROVE  /\ Consistent(Said(n, merged'))
               /\ IF Said(n, merged') = {} THEN graph'[n] = Absent
                  ELSE graph'[n] # Absent /\ IsJoin(graph'[n], Said(n, merged'))
               /\ graph'[n] \in Entity \cup {Absent}
    <3>1. CASE C(n) = Absent
      <4>1. Said(n, merged') = Said(n, merged) /\ graph'[n] = graph[n]
        BY <1>2, <2>3, <3>1 DEF Both
      <4>2. IF Said(n, merged) = {} THEN graph[n] = Absent
            ELSE graph[n] # Absent /\ IsJoin(graph[n], Said(n, merged))
        BY <1>1 DEF MergeInv, MergedIsJoin
      <4> QED  BY <1>4, <1>6, <4>1, <4>2
    <3>2. CASE C(n) # Absent /\ Said(n, merged) = {}
      <4>1. /\ graph[n] = Absent /\ Consistent(Said(n, merged) \cup {C(n)})
            /\ IsJoin(C(n), Said(n, merged) \cup {C(n)})
        BY <1>1, <3>2, OneMore
      <4>2. Said(n, merged') = Said(n, merged) \cup {C(n)} /\ graph'[n] = C(n)
        BY <1>2, <2>3, <3>2, <4>1 DEF Both
      <4> QED  BY <1>3, <3>2, <4>1, <4>2
    <3>3. CASE C(n) # Absent /\ Said(n, merged) # {}
      <4>1. /\ graph[n] # Absent
            /\ Agree(graph[n], C(n)) = Consistent(Said(n, merged) \cup {C(n)})
            /\ Agree(graph[n], C(n)) =>
                 IsJoin(Merged(graph[n], C(n)), Said(n, merged) \cup {C(n)})
        BY <1>1, <3>3, OneMore
      <4>2. Agree(graph[n], C(n)) /\ graph'[n] = Merged(graph[n], C(n))
        BY <2>2, <2>3, <3>3, <4>1 DEF Both
      <4>3. Said(n, merged') = Said(n, merged) \cup {C(n)}
        BY <1>2, <3>3
      <4>4. Merged(graph[n], C(n)) \in Entity
        BY <1>3, <1>4, <3>3, <4>1, MergedType
      <4> QED  BY <4>1, <4>2, <4>3, <4>4, MergeAssumption
    <3> QED  BY <3>1, <3>2, <3>3
  <2>5. graph' = [n \in Names |-> graph'[n]]
    BY <2>1 DEF Joined
  <2>6. graph' \in Graphs
    BY <2>4, <2>5 DEF Graphs
  <2>7. MergeTypeOK'
    BY <1>1, <2>1, <2>6 DEF MergeInv, MergeTypeOK, MergeFragment
  <2>8. MergedIsJoin'
    BY <1>5, <2>4 DEF MergedIsJoin
  <2>9. (\A n \in Names : Consistent(Said(n, merged)))'
    BY <1>5, <2>4 DEF Consistent, Clash
  <2> QED  BY <2>1, <2>7, <2>8, <2>9 DEF MergeInv
<1> QED  BY <1>8, <1>9

(* Without another fragment the join and the clashes stay what they are.   *)
LEMMA NoFragment ==
  ASSUME MergeInv, merged' = merged, graph' = graph,
         (outcome' = "conflict") = (outcome = "conflict")
  PROVE  /\ MergedIsJoin'
         /\ (outcome' = "conflict") = (\E n \in Names : ~Consistent(Said(n, merged)))'
<1>1. \A n \in Names : Said(n, merged)' = Said(n, merged)
  BY DEF Said
<1>2. outcome # "conflict" =>
        \A n \in Names : IF Said(n, merged) = {} THEN graph[n] = Absent
                         ELSE graph[n] # Absent /\ IsJoin(graph[n], Said(n, merged))
  BY DEF MergeInv, MergedIsJoin
<1>3. MergedIsJoin'
  BY <1>1, <1>2 DEF MergedIsJoin
<1>4. (outcome = "conflict") = (\E n \in Names : ~Consistent(Said(n, merged)))
  BY DEF MergeInv
<1>5. (\E n \in Names : ~Consistent(Said(n, merged)))' =
        (\E n \in Names : ~Consistent(Said(n, merged)))
  BY <1>1 DEF Consistent, Clash
<1> QED  BY <1>3, <1>4, <1>5

LEMMA StepInv == MergeInv /\ [MergeNext]_mergeVars => MergeInv'
<1> SUFFICES ASSUME MergeInv, [MergeNext]_mergeVars PROVE MergeInv'
  OBVIOUS
<1>1. ASSUME NEW batch \in SUBSET Fragments, Begin(batch) PROVE MergeInv'
  <2>1. MergeTypeOK'
    BY <1>1 DEF Begin, MergeInv, MergeTypeOK
  <2>2. merged' = merged /\ graph' = graph /\ outcome = "none" /\ outcome' = "merging"
    BY <1>1 DEF Begin
  <2> QED  BY <2>1, <2>2, NoFragment DEF MergeInv
<1>2. ASSUME NEW f \in Fragments, MergeFragment(f) PROVE MergeInv'
  BY <1>2, MergeFragmentInv
<1>3. CASE Finish
  <2>1. MergeTypeOK'
    BY <1>3 DEF Finish, MergeInv, MergeTypeOK
  <2>2. /\ merged' = merged /\ graph' = graph
        /\ outcome = "merging" /\ outcome' \in {"batch", "invalid"}
        /\ outcome' = "invalid" => ~Valid(graph)
    BY <1>3 DEF Finish
  <2>3. outcome' = "invalid" => ~Valid(graph')
    BY <2>2
  <2> QED  BY <2>1, <2>2, <2>3, NoFragment DEF MergeInv
<1>4. CASE UNCHANGED mergeVars
  <2>1. MergeTypeOK'
    BY <1>4 DEF mergeVars, MergeInv, MergeTypeOK
  <2>2. merged' = merged /\ graph' = graph /\ outcome' = outcome
    BY <1>4 DEF mergeVars
  <2>3. outcome' = "invalid" => ~Valid(graph')
    BY <2>2 DEF MergeInv
  <2> QED  BY <2>1, <2>2, <2>3, NoFragment DEF MergeInv
<1> QED  BY <1>1, <1>2, <1>3, <1>4 DEF MergeNext, MergeStep

-----------------------------------------------------------------------------
(* In every batch, in whatever order, the types are kept.                  *)
THEOREM MergeTypes == MergeSpec => []MergeTypeOK
<1>1. MergeInv => MergeTypeOK
  BY DEF MergeInv
<1> QED  BY InitInv, StepInv, <1>1, PTL DEF MergeSpec

(* mergeGraphFragments returns the join of the fragments, so that their    *)
(* order never matters and no fact of theirs is lost.                      *)
THEOREM MergeIsJoin == MergeSpec => []MergedIsJoin
<1>1. MergeInv => MergedIsJoin
  BY DEF MergeInv
<1> QED  BY InitInv, StepInv, <1>1, PTL DEF MergeSpec

(* It refuses a batch exactly when two of the fragments contradict each    *)
(* other.                                                                  *)
THEOREM MergeFailsClosed == MergeSpec => []FailsClosed
<1>1. MergeInv => FailsClosed
  BY DEF MergeInv, FailsClosed, Consistent
<1> QED  BY InitInv, StepInv, <1>1, PTL DEF MergeSpec

(* The join of valid fragments without a clash is valid: an endpoint, a    *)
(* piece of evidence or an inverse edge that one of them has is in the     *)
(* join, of the same kind, and evidence of one kind is synthetic or not    *)
(* for all of them.                                                        *)
LEMMA JoinOfValid ==
  ASSUME MergeInv, outcome # "conflict", \A f \in merged : Valid(Content[f])
  PROVE  Valid(graph)
<1> DEFINE C(f, n) == Content[f][n]
<1>1. ASSUME NEW f \in merged, NEW n \in Names, C(f, n) # Absent
      PROVE  /\ C(f, n) \in Said(n, merged)
             /\ graph[n] # Absent /\ C(f, n).kind = graph[n].kind
             /\ graph[n].evidence = UNION {s.evidence : s \in Said(n, merged)}
             /\ graph[n].synthetic = (\A s \in Said(n, merged) : s.synthetic)
  <2>1. C(f, n) \in Said(n, merged)
    BY <1>1 DEF Said
  <2>2. graph[n] # Absent /\ IsJoin(graph[n], Said(n, merged))
    BY <2>1 DEF MergeInv, MergedIsJoin
  <2> QED  BY <2>1, <2>2 DEF IsJoin
<1>2. ASSUME NEW n \in Names, graph[n] # Absent
      PROVE  \E f \in merged : C(f, n) # Absent
  <2>1. Said(n, merged) # {}
    BY <1>2 DEF MergeInv, MergedIsJoin
  <2> QED  BY <2>1 DEF Said
<1>3. ASSUME NEW n \in Names, NEW s \in Said(n, merged)
      PROVE  \E f \in merged : s = C(f, n) /\ C(f, n) # Absent
  BY <1>3 DEF Said
<1>4. \A f \in merged, n \in Names : C(f, n) # Absent =>
        ValidEntity(Content[f], n) /\ Parity(Content[f], n)
  BY DEF Valid
<1>5. ASSUME NEW n \in Names, graph[n] # Absent
      PROVE  ValidEntity(graph, n) /\ Parity(graph, n)
  <2>1. PICK f \in merged : C(f, n) # Absent
    BY <1>2, <1>5
  <2>2. /\ graph[n].kind = C(f, n).kind
        /\ graph[n].evidence = UNION {s.evidence : s \in Said(n, merged)}
        /\ graph[n].synthetic = (\A s \in Said(n, merged) : s.synthetic)
        /\ C(f, n) \in Said(n, merged)
    BY <1>1, <2>1
  <2>3. ValidEntity(Content[f], n) /\ Parity(Content[f], n)
    BY <1>4, <2>1
  <2>4. Ends[n] # <<>> => \A k \in {1, 2} :
          Ends[n][k] \in Names /\ C(f, Ends[n][k]) # Absent
    BY <2>3, MergeAssumption DEF ValidEntity
  <2>5. Ends[n] # <<>> => \A k \in {1, 2} :
          graph[Ends[n][k]] # Absent /\ graph[Ends[n][k]].kind = C(f, Ends[n][k]).kind
    BY <1>1, <2>4
  <2>6. Ends[n] # <<>> /\ graph[n].kind # "USED_BY" =>
          <<graph[n].kind, graph[Ends[n][1]].kind, graph[Ends[n][2]].kind>> \in Allowed
    BY <2>2, <2>3, <2>5 DEF ValidEntity
  <2>7. ASSUME NEW s \in Said(n, merged)
        PROVE  /\ s.kind = graph[n].kind
               /\ (s.evidence = {}) = (s.kind \in {"Evidence", "USED_BY"})
               /\ \A e \in s.evidence : e \in Names =>
                    graph[e] # Absent /\ graph[e].kind = "Evidence"
    <3>1. PICK g \in merged : s = C(g, n) /\ C(g, n) # Absent
      BY <1>3
    <3>2. ValidEntity(Content[g], n) /\ s.kind = graph[n].kind
      BY <1>1, <1>4, <3>1
    <3>3. (s.evidence = {}) = (s.kind \in {"Evidence", "USED_BY"})
      BY <3>1, <3>2 DEF ValidEntity
    <3>4. \A e \in s.evidence : C(g, e) # Absent /\ C(g, e).kind = "Evidence"
      BY <3>1, <3>2 DEF ValidEntity
    <3>5. ASSUME NEW e \in s.evidence, e \in Names
          PROVE  graph[e] # Absent /\ graph[e].kind = "Evidence"
      BY <1>1, <3>1, <3>4, <3>5
    <3> QED  BY <3>2, <3>3, <3>5
  <2>8. (graph[n].evidence = {}) = (graph[n].kind \in {"Evidence", "USED_BY"})
    BY <2>2, <2>7
  <2>9. graph[n] \in Entity
    BY <1>5 DEF MergeInv, MergeTypeOK, Graphs
  <2>10. \A e \in graph[n].evidence : graph[e] # Absent /\ graph[e].kind = "Evidence"
    BY <2>2, <2>7, <2>9 DEF Entity
  <2>11. ASSUME graph[n].synthetic, graph[n].kind # "Evidence"
         PROVE  \E e \in graph[n].evidence : graph[e].synthetic
    <3>1. C(f, n).synthetic
      BY <2>2, <2>11
    <3>2. PICK e \in C(f, n).evidence : C(f, e).synthetic
      BY <2>2, <2>3, <2>11, <3>1 DEF ValidEntity
    <3>3. e \in graph[n].evidence /\ e \in Names
      BY <2>2, <2>9 DEF Entity
    <3>4. C(f, e) # Absent /\ C(f, e).kind = "Evidence"
      BY <2>3 DEF ValidEntity
    <3>5. C(f, e) \in Said(e, merged) /\ Consistent(Said(e, merged))
      BY <1>1, <3>3, <3>4 DEF MergeInv
    <3>6. ASSUME NEW s \in Said(e, merged) PROVE s.synthetic
      <4>1. s.kind = "Evidence" \/ s.kind # C(f, e).kind
        BY <3>4
      <4>2. ~Clash(C(f, e), s)
        BY <3>5 DEF Consistent
      <4> QED  BY <3>2, <3>4, <4>1, <4>2, Zenon DEF Clash
    <3> QED  BY <1>1, <3>3, <3>4, <3>6
  <2>12. ValidEntity(graph, n)
    BY <2>5, <2>6, <2>8, <2>10, <2>11 DEF ValidEntity
  <2>13. graph[n].kind = "DEPENDS_ON" =>
           /\ graph[Index[n]] # Absent /\ graph[Index[n]].kind = "USED_BY"
           /\ Ends[Index[n]] = <<Ends[n][2], Ends[n][1]>>
    <3>1. Index[n] \in Names
      BY MergeAssumption
    <3> QED  BY <1>1, <2>2, <2>3, <3>1 DEF Parity
  <2>14. graph[n].kind = "USED_BY" =>
           \E d \in Names : Index[d] = n /\ graph[d] # Absent /\ graph[d].kind = "DEPENDS_ON"
    BY <1>1, <2>2, <2>3 DEF Parity
  <2> QED  BY <2>12, <2>13, <2>14 DEF Parity
<1> QED  BY <1>5 DEF Valid

(* A batch of fragments that their collectors validated is refused only    *)
(* for a contradiction.                                                    *)
THEOREM MergeKeepsValidity == MergeSpec => []ValidityPreserved
<1>1. MergeInv => ValidityPreserved
  BY JoinOfValid DEF MergeInv, ValidityPreserved
<1> QED  BY InitInv, StepInv, <1>1, PTL DEF MergeSpec

(* mergeGraphFragments joins its fragments or refuses them, and refuses    *)
(* them for what they say themselves.                                      *)
THEOREM MergeIsRight == MergeSpec => []MergedOrRefused
<1>1. MergedIsJoin /\ FailsClosed /\ ValidityPreserved => MergedOrRefused
  BY DEF MergedOrRefused
<1>. QED
  BY MergeIsJoin, MergeFailsClosed, MergeKeepsValidity, <1>1, PTL

-----------------------------------------------------------------------------
(* Numbers and finite sets of packages                                     *)

(* Every set of numbers has a least one: what induction over waves is.     *)
LEMMA LeastNumber ==
  ASSUME NEW T, T \subseteq Nat, T # {}
  PROVE  \E x \in T : \A y \in T : x <= y
<1>1. IsWellFoundedOn(OpToRel(<, Nat), Nat)
  BY NatLessThanWellFounded
<1>2. PICK x \in T : \A y \in T : ~(<<y, x>> \in OpToRel(<, Nat))
  BY <1>1, WFMin
<1>3. \A y \in T : ~(y < x)
  BY <1>2 DEF OpToRel
<1> QED
  BY <1>3

(* What holds at the roots and passes from one wave to the next holds at   *)
(* every depth.                                                            *)
LEMMA OverDepths ==
  ASSUME NEW G, 0 \in G, \A d \in 0..MaxDepth : d \in G /\ d < MaxDepth => d + 1 \in G
  PROVE  0..MaxDepth \subseteq G
<1> DEFINE Bad == {d \in 0..MaxDepth : d \notin G}
<1>1. MaxDepth \in Nat
  BY CrawlAssumption
<1>2. Bad = {}
  <2> SUFFICES ASSUME Bad # {} PROVE FALSE
    OBVIOUS
  <2>0. Bad \subseteq Nat
    BY <1>1
  <2>1. PICK x \in Bad : \A y \in Bad : x <= y
    <3> HIDE DEF Bad
    <3> QED
      BY <2>0, LeastNumber
  <2>2. x # 0 /\ x \in 0..MaxDepth
    BY <2>1
  <2>3. x - 1 \in 0..MaxDepth /\ x - 1 < MaxDepth /\ x - 1 \notin Bad
    BY <1>1, <2>1, <2>2
  <2>4. x - 1 + 1 \in G
    BY <2>3
  <2> QED
    BY <2>1, <2>2, <2>4
<1> QED
  BY <1>2

LEMMA PackageSets ==
  \A S \in SUBSET Packages : /\ S \subseteq Nat /\ IsFiniteSet(S)
                             /\ Cardinality(S) \in Nat
                             /\ (Cardinality(S) = 0) = (S = {})
<1> SUFFICES ASSUME NEW S \in SUBSET Packages
             PROVE  /\ S \subseteq Nat /\ IsFiniteSet(S) /\ Cardinality(S) \in Nat
                    /\ (Cardinality(S) = 0) = (S = {})
  OBVIOUS
<1>1. S \in SUBSET Fragments /\ S \subseteq Nat /\ IsFiniteSet(Fragments)
  BY CrawlAssumption
<1>2. IsFiniteSet(S)
  BY <1>1, FS_Subset
<1> QED
  BY <1>1, <1>2, FS_CardinalityType, FS_EmptySet

LEMMA SubsetSize ==
  ASSUME NEW S, NEW T, S \subseteq Packages, T \subseteq S
  PROVE  /\ Cardinality(T) <= Cardinality(S)
         /\ T # S => Cardinality(T) < Cardinality(S)
<1>1. IsFiniteSet(S) /\ IsFiniteSet(T) /\ Cardinality(S) \in Nat /\ Cardinality(T) \in Nat
  BY PackageSets
<1>2. T \in SUBSET S
  OBVIOUS
<1> QED
  BY <1>1, <1>2, FS_Subset

(* The n least of a set: the whole set, or n of its members that are less  *)
(* than all others.                                                        *)
LEMMA LeastFacts ==
  ASSUME NEW S \in SUBSET Packages, NEW n \in Nat
  PROVE  /\ Least(S, n) \subseteq S
         /\ \A p \in Least(S, n), r \in S \ Least(S, n) : p < r
         /\ Cardinality(Least(S, n)) <= n
         /\ S \ Least(S, n) # {} => Cardinality(Least(S, n)) = n
<1> DEFINE Below(p) == {q \in S : q < p}
           Above(p) == {q \in S : q > p}
           F == Least(S, n)
<1>1. /\ S \subseteq Nat /\ F \subseteq S
      /\ \A p \in S : p \in F <=> Cardinality(Below(p)) < n
  BY PackageSets DEF Least
<1>2. \A p \in S : /\ Below(p) \in SUBSET S /\ Above(p) \in SUBSET S
                   /\ Cardinality(Below(p)) \in Nat /\ Cardinality(Above(p)) \in Nat
  BY PackageSets
<1>3. ASSUME NEW p \in F, NEW q \in S, q < p PROVE q \in F
  <2>1. Below(q) \subseteq Below(p) /\ Below(p) \subseteq Packages
    <3>1. \A t \in S : t < q => t < p
      <4>1. p \in Nat /\ q \in Nat /\ S \subseteq Nat
        BY <1>1
      <4> QED
        BY <1>3, <4>1
    <3> QED
      BY <3>1
  <2>2. Cardinality(Below(q)) <= Cardinality(Below(p))
    BY <2>1, SubsetSize
  <2>3. p \in S /\ Cardinality(Below(p)) < n
    BY <1>1
  <2>4. Cardinality(Below(q)) < n
    <3>1. Cardinality(Below(q)) \in Nat /\ Cardinality(Below(p)) \in Nat
      BY <1>2, <2>3
    <3> HIDE DEF Below
    <3> QED
      BY <2>2, <2>3, <3>1
  <2>5. q \in F <=> Cardinality(Below(q)) < n
    BY <1>1
  <2> QED
    BY <2>4, <2>5
<1>4. ASSUME NEW p \in F, NEW r \in S, r \notin F PROVE p < r
  <2>1. ~(r < p) /\ r # p
    BY <1>3, <1>4
  <2>2. p \in Nat /\ r \in Nat
    BY <1>1
  <2> QED
    BY <2>1, <2>2
<1>5. Cardinality(F) <= n
  <2>1. CASE F = {}
    BY <2>1, PackageSets
  <2>2. CASE F # {}
    <3> DEFINE Sizes == {Cardinality(Above(p)) : p \in F}
    <3>1. Sizes \subseteq Nat /\ Sizes # {}
      BY <1>1, <1>2, <2>2
    <3>2. PICK k \in Sizes : \A l \in Sizes : k <= l
      BY <3>1, LeastNumber
    <3>3. PICK m \in F : k = Cardinality(Above(m))
      BY <3>2
    <3>4. ASSUME NEW p \in F, p > m PROVE FALSE
      <4>0. m \in S /\ p \in S /\ S \subseteq Nat
        BY <1>1
      <4>1. Above(p) \subseteq Above(m) /\ Above(m) \subseteq Packages
            /\ p \in Above(m) /\ p \notin Above(p)
        <5>1. \A t \in S : t > p => t > m
          BY <3>4, <4>0
        <5>2. p > m /\ ~(p > p)
          BY <3>4, <4>0
        <5> QED
          BY <4>0, <5>1, <5>2
      <4>2. Cardinality(Above(p)) < Cardinality(Above(m))
        BY <4>1, SubsetSize
      <4>3. Cardinality(Above(m)) <= Cardinality(Above(p))
        BY <3>2, <3>3
      <4>4. Cardinality(Above(m)) \in Nat /\ Cardinality(Above(p)) \in Nat
        BY <1>1, <1>2
      <4> HIDE DEF Above
      <4> QED
        BY <4>2, <4>3, <4>4
    <3>5. F = Below(m) \cup {m} /\ m \notin Below(m)
      <4>1. m \in S /\ S \subseteq Nat /\ F \subseteq S
        BY <1>1
      <4>2. \A p \in F : p = m \/ p < m
        BY <3>4, <4>1
      <4>3. \A q \in S : q < m => q \in F
        BY <1>3
      <4>4. ~(m < m)
        BY <4>1
      <4> HIDE DEF F
      <4> QED
        BY <4>1, <4>2, <4>3, <4>4
    <3>6. IsFiniteSet(Below(m)) /\ Cardinality(Below(m)) \in Nat /\ Cardinality(Below(m)) < n
      BY <1>1, <1>2, PackageSets
    <3>7. Cardinality(F) = Cardinality(Below(m)) + 1
      <4> HIDE DEF Below, F
      <4> QED
        BY <3>5, <3>6, FS_AddElement
    <3> HIDE DEF Below, F
    <3> QED
      BY <3>6, <3>7
  <2> QED
    BY <2>1, <2>2
<1>6. ASSUME S \ F # {} PROVE Cardinality(F) = n
  <2>0. S \ F \subseteq Nat
    BY <1>1
  <2>1. PICK p \in S \ F : \A r \in S \ F : p <= r
    <3> HIDE DEF F
    <3> QED
      BY <1>6, <2>0, LeastNumber
  <2>2. Below(p) \subseteq F /\ F \subseteq Packages
    <3>1. \A q \in S : q < p => q \in F
      <4>1. p \in S /\ S \subseteq Nat
        BY <1>1, <2>1
      <4> QED
        BY <2>1, <4>1
    <3> HIDE DEF F
    <3> QED
      BY <1>1, <3>1
  <2>3. Cardinality(Below(p)) <= Cardinality(F)
    BY <2>2, SubsetSize
  <2>4. ~(Cardinality(Below(p)) < n)
    BY <1>1, <2>1
  <2>5. Cardinality(F) \in Nat /\ Cardinality(Below(p)) \in Nat
    BY <1>2, <2>1, <2>2, PackageSets
  <2> HIDE DEF Below, F
  <2> QED
    BY <1>5, <2>3, <2>4, <2>5
<1> QED
  BY <1>1, <1>4, <1>5, <1>6

-----------------------------------------------------------------------------
(* The invariant of a crawl                                                *)

InWave == Of({"waiting", "fetching"})

(* What is in the wave is at its depth, and everything beyond the roots    *)
(* was declared by a package that was collected one wave before.           *)
WavesInv ==
  /\ Cardinality(Visited) <= MaxPackages
  /\ \A p \in Visited : depthOf[p] <= depth
  /\ \A p \in InWave : depthOf[p] = depth
  /\ \A p \in Visited : depthOf[p] > 0 =>
       \E q \in Successes : depthOf[q] + 1 = depthOf[p] /\ p \in Deps[q]

(* What a collected package of an earlier wave declares is visited, no     *)
(* later than in the next wave, or was left out of this wave behind all    *)
(* that was admitted to it.                                                *)
Followed(q, r) ==
  \/ r \in Visited /\ depthOf[r] <= depthOf[q] + 1
  \/ /\ r \in omitted /\ depthOf[q] + 1 = depth
     /\ \A p \in Visited : depthOf[p] = depth => p < r

(* Only a full crawl leaves packages out, those its last wave declares and *)
(* those the wave before.                                                  *)
OmittedInv ==
  /\ omitted \cap Visited = {}
  /\ omitted # {} => Cardinality(Visited) = MaxPackages
  /\ \A p \in omitted : \E q \in Successes :
       /\ p \in Deps[q]
       /\ \/ depthOf[q] + 1 = depth
          \/ outcome # "none" /\ depthOf[q] = depth /\ depth < MaxDepth

Over == outcome # "none" \/ result # "none"

EndInv ==
  /\ Visited = {} => result = "none"
  /\ Visited # {} /\ Over =>
       /\ InWave = {}
       /\ \A q \in Successes : depthOf[q] = depth /\ depth < MaxDepth =>
            Deps[q] \subseteq Visited \cup omitted
  /\ outcome = "none" => merged = {} /\ pending = {}
  /\ Visited # {} /\ outcome # "none" => merged \cup pending = Successes
  /\ outcome \in {"batch", "invalid"} => pending = {}
  /\ result = "failed" => Successes = {}
  /\ result \in {"completed", "partially-completed"} => outcome = "batch"
  /\ result = "completed" => Of({"failed"}) = {} /\ omitted = {}
  /\ result = "rejected" => outcome \in {"conflict", "invalid"}

CrawlInv ==
  /\ CrawlTypeOK /\ MergeInv /\ WavesInv /\ OmittedInv /\ EndInv
  /\ \A q \in Successes : depthOf[q] < depth => \A r \in Deps[q] : Followed(q, r)

(* Which packages are in which state.                                      *)
LEMMA StateSets ==
  ASSUME fetch \in [Packages -> {"unseen", "waiting", "fetching", "ok", "failed"}]
  PROVE  /\ Visited \subseteq Packages /\ InWave \subseteq Visited /\ Successes \subseteq Visited
         /\ \A p \in Packages : /\ p \in Visited <=> fetch[p] # "unseen"
                                /\ p \in InWave <=> fetch[p] \in {"waiting", "fetching"}
                                /\ p \in Successes <=> fetch[p] = "ok"
                                /\ p \in Of({"failed"}) <=> fetch[p] = "failed"
                                /\ p \in Of({"waiting"}) <=> fetch[p] = "waiting"
         /\ Of({"failed"}) \subseteq Packages /\ Of({"waiting"}) \subseteq Packages
BY DEF Visited, InWave, Successes, Of

LEMMA CrawlInvInit == CrawlInit => CrawlInv
<1> SUFFICES ASSUME CrawlInit PROVE CrawlInv
  OBVIOUS
<1>1. /\ fetch \in [Packages -> {"unseen", "waiting", "fetching", "ok", "failed"}]
      /\ \A p \in Packages : fetch[p] \in {"unseen", "waiting"}
  BY DEF CrawlInit, Crawling, NotCrawling
<1>2. /\ Successes = {} /\ Of({"failed"}) = {} /\ Of({"fetching"}) = {}
  BY <1>1 DEF Successes, Of
<1>3. Cardinality(Visited) <= MaxPackages
  <2>1. CASE Crawling
    <3>1. PICK roots \in SUBSET Packages :
            /\ Cardinality(roots) <= MaxPackages
            /\ fetch = [p \in Packages |-> IF p \in roots THEN "waiting" ELSE "unseen"]
      BY <2>1 DEF Crawling
    <3>2. Visited = roots
      BY <1>1, <3>1, StateSets
    <3> QED
      BY <3>1, <3>2
  <2>2. CASE NotCrawling
    <3>1. Visited = {}
      BY <1>1, <2>2, StateSets DEF NotCrawling
    <3>2. Cardinality(Visited) = 0
      BY <3>1, PackageSets
    <3> QED
      BY <3>2, CrawlAssumption
  <2> QED
    BY <2>1, <2>2 DEF CrawlInit
<1>4. MergeInv
  BY InitInv DEF CrawlInit
<1>5. CrawlTypeOK
  <2>1. Cardinality(Of({"fetching"})) <= Concurrency
    <3>1. Cardinality(Of({"fetching"})) = 0
      BY <1>2, PackageSets
    <3> QED
      BY <3>1, CrawlAssumption
  <2>2. 0 \in 0..MaxDepth /\ 0 \in 0..Retries
    BY CrawlAssumption
  <2> QED
    BY <1>1, <2>1, <2>2 DEF CrawlTypeOK, CrawlInit
<1>6. WavesInv
  BY <1>1, <1>3, StateSets DEF WavesInv, CrawlInit
<1>7. OmittedInv
  BY DEF OmittedInv, CrawlInit
<1>8. EndInv
  BY <1>2 DEF EndInv, CrawlInit, MergeInit, Over
<1> QED
  BY <1>2, <1>4, <1>5, <1>6, <1>7, <1>8 DEF CrawlInv

(* A step of the crawl is a step of the merge or none.                     *)
LEMMA MergesAlong ==
  ASSUME [CrawlNext]_<<crawlVars, mergeVars>>
  PROVE  [MergeNext]_mergeVars
<1>1. CASE FetchStep \/ NextWave \/ NothingCollected \/ Report
  <2>1. UNCHANGED mergeVars
    BY <1>1 DEF FetchStep, Start, Retried, Collected, NextWave, NothingCollected, Report
  <2> QED
    BY <2>1
<1>2. CASE MergeSuccesses
  <2>1. Begin(Successes) /\ Successes \in SUBSET Fragments
    BY <1>2, CrawlAssumption DEF MergeSuccesses, Successes, Of
  <2> QED
    BY <2>1 DEF MergeNext
<1>3. CASE MergeGoesOn
  BY <1>3 DEF MergeGoesOn, MergeNext
<1>4. CASE MergeElsewhere
  <2>1. PICK batch \in SUBSET (Fragments \ Packages) : Begin(batch)
    BY <1>4 DEF MergeElsewhere
  <2>2. batch \in SUBSET Fragments
    OBVIOUS
  <2> QED
    BY <2>1, <2>2 DEF MergeNext
<1>5. CASE UNCHANGED <<crawlVars, mergeVars>>
  BY <1>5
<1> QED
  BY <1>1, <1>2, <1>3, <1>4, <1>5 DEF CrawlNext, WaveStep

(* An answer changes the state of one package of the wave.                 *)
LEMMA FetchEffect ==
  ASSUME CrawlInv, FetchStep
  PROVE  /\ UNCHANGED <<depthOf, depth, omitted, result, mergeVars>>
         /\ fetch' \in [Packages -> {"unseen", "waiting", "fetching", "ok", "failed"}]
         /\ tries' \in [Packages -> 0..Retries]
         /\ Visited' = Visited /\ InWave' \subseteq InWave /\ InWave # {}
         /\ Successes \subseteq Successes'
         /\ \A q \in Successes' : q \in Successes \/ depthOf[q] = depth
         /\ Cardinality(Of({"fetching"}))' <= Concurrency
<1> DEFINE Status == {"unseen", "waiting", "fetching", "ok", "failed"}
           F == Of({"fetching"})
<1>1. /\ fetch \in [Packages -> Status] /\ tries \in [Packages -> 0..Retries]
      /\ Cardinality(F) <= Concurrency
      /\ \A p \in InWave : depthOf[p] = depth
  BY DEF CrawlInv, CrawlTypeOK, WavesInv
<1>2. PICK p \in Packages : Start(p) \/ Retried(p) \/ Collected(p)
  BY DEF FetchStep
<1>3. UNCHANGED <<depthOf, depth, omitted, result, mergeVars>>
  BY <1>2 DEF Start, Retried, Collected
<1>4. /\ F \subseteq Packages /\ Of({"fetching"})' \subseteq Packages
      /\ \A q \in Packages : (q \in F <=> fetch[q] = "fetching")
                             /\ (q \in Of({"fetching"})' <=> fetch'[q] = "fetching")
  BY DEF Of
<1>5. CASE Start(p)
  <2>1. p \in Of({"waiting"})
    <3>1. Of({"waiting"}) \in SUBSET Packages /\ 1 \in Nat
      BY DEF Of
    <3>2. Least(Of({"waiting"}), 1) \subseteq Of({"waiting"})
      BY <3>1, LeastFacts
    <3> QED
      BY <1>5, <3>2 DEF Start
  <2>2. /\ fetch[p] = "waiting" /\ fetch' = [fetch EXCEPT ![p] = "fetching"] /\ tries' = tries
        /\ Cardinality(F) < Concurrency
    BY <1>5, <2>1 DEF Start, Of
  <2>3. fetch' \in [Packages -> Status]
    BY <1>1, <2>2
  <2>4. Visited' = Visited /\ InWave' \subseteq InWave /\ InWave # {} /\ Successes' = Successes
    <3>1. /\ \A q \in Packages : fetch'[q] = IF q = p THEN "fetching" ELSE fetch[q]
      BY <1>1, <2>2
    <3> QED
      BY <2>2, <3>1 DEF Visited, InWave, Successes, Of
  <2>5. Cardinality(Of({"fetching"}))' <= Concurrency
    <3>1. Of({"fetching"})' = F \cup {p} /\ p \notin F
      BY <1>1, <1>4, <2>2
    <3>2. IsFiniteSet(F) /\ Cardinality(F) \in Nat
      BY <1>4, PackageSets
    <3>3. Cardinality(F \cup {p}) = Cardinality(F) + 1
      BY <3>1, <3>2, FS_AddElement
    <3>4. Cardinality(Of({"fetching"}))' = Cardinality(F) + 1
      BY <3>1, <3>3
    <3> QED
      BY <2>2, <3>2, <3>4, CrawlAssumption
  <2> QED
    BY <1>1, <1>3, <2>2, <2>3, <2>4, <2>5
<1>6. CASE Retried(p)
  <2>1. fetch' = fetch /\ fetch[p] = "fetching"
    BY <1>6 DEF Retried
  <2>2. tries' \in [Packages -> 0..Retries]
    <3>1. tries[p] < Retries /\ tries' = [tries EXCEPT ![p] = tries[p] + 1]
      BY <1>6 DEF Retried
    <3>2. tries[p] + 1 \in 0..Retries
      BY <1>1, <3>1, CrawlAssumption
    <3> QED
      BY <1>1, <3>1, <3>2
  <2>3. Visited' = Visited /\ InWave' = InWave /\ Successes' = Successes
        /\ Of({"fetching"})' = F
    BY <2>1 DEF Visited, InWave, Successes, Of
  <2>4. InWave # {}
    BY <2>1 DEF InWave, Of
  <2>5. Cardinality(Of({"fetching"}))' <= Concurrency
    BY <1>1, <2>3
  <2> QED
    BY <1>1, <1>3, <2>1, <2>2, <2>3, <2>4, <2>5
<1>7. CASE Collected(p)
  <2>1. PICK status \in {"ok", "failed"} : fetch' = [fetch EXCEPT ![p] = status]
    BY <1>7 DEF Collected
  <2>2. fetch[p] = "fetching" /\ tries' = tries
    BY <1>7 DEF Collected
  <2>3. /\ fetch' \in [Packages -> Status]
        /\ \A q \in Packages : fetch'[q] = IF q = p THEN status ELSE fetch[q]
    BY <1>1, <2>1
  <2>4. /\ Visited' = Visited /\ InWave' \subseteq InWave /\ p \in InWave
        /\ Successes \subseteq Successes' /\ Successes' \subseteq Successes \cup {p}
    BY <2>2, <2>3 DEF Visited, InWave, Successes, Of
  <2>5. Cardinality(Of({"fetching"}))' <= Concurrency
    <3>1. Of({"fetching"})' \subseteq F
      BY <1>4, <2>3
    <3>2. Cardinality(Of({"fetching"})') <= Cardinality(F)
      BY <1>4, <3>1, SubsetSize
    <3>3. Cardinality(F) \in Nat /\ Cardinality(Of({"fetching"})') \in Nat
      BY <1>4, PackageSets
    <3> HIDE DEF F
    <3>4. Cardinality(Of({"fetching"})') <= Concurrency
      BY <1>1, <3>2, <3>3, CrawlAssumption
    <3> QED
      BY <3>4
  <2> QED
    BY <1>1, <1>3, <2>2, <2>3, <2>4, <2>5
<1> QED
  BY <1>2, <1>5, <1>6, <1>7

LEMMA FetchInv ==
  ASSUME CrawlInv, FetchStep, MergeInv'
  PROVE  CrawlInv'
<1>1. /\ UNCHANGED <<depthOf, depth, omitted, result, mergeVars>>
      /\ fetch' \in [Packages -> {"unseen", "waiting", "fetching", "ok", "failed"}]
      /\ tries' \in [Packages -> 0..Retries]
      /\ Visited' = Visited /\ InWave' \subseteq InWave /\ InWave # {}
      /\ Successes \subseteq Successes'
      /\ \A q \in Successes' : q \in Successes \/ depthOf[q] = depth
      /\ Cardinality(Of({"fetching"}))' <= Concurrency
  BY FetchEffect
<1>2. /\ depthOf \in [Packages -> 0..MaxDepth] /\ depth \in 0..MaxDepth
      /\ Visited # {} /\ InWave \subseteq Visited /\ Successes \subseteq Visited
  BY <1>1, StateSets DEF CrawlInv, CrawlTypeOK
<1>3. outcome = "none" /\ result = "none" /\ merged = {} /\ pending = {}
  BY <1>1, <1>2 DEF CrawlInv, EndInv, Over
<1>4. CrawlTypeOK'
  BY <1>1 DEF CrawlInv, CrawlTypeOK
<1>5. WavesInv'
  <2>1. /\ Cardinality(Visited)' <= MaxPackages
        /\ (\A p \in Visited : depthOf[p] <= depth)'
        /\ (\A p \in InWave : depthOf[p] = depth)'
    BY <1>1 DEF CrawlInv, WavesInv
  <2>2. \A p \in Visited : depthOf[p] > 0 =>
          \E q \in Successes : depthOf[q] + 1 = depthOf[p] /\ p \in Deps[q]
    BY DEF CrawlInv, WavesInv
  <2>3. (\A p \in Visited : depthOf[p] > 0 =>
          \E q \in Successes : depthOf[q] + 1 = depthOf[p] /\ p \in Deps[q])'
    BY <1>1, <2>2
  <2> QED
    BY <2>1, <2>3 DEF WavesInv
<1>6. OmittedInv'
  <2>1. \A p \in omitted : \E q \in Successes : p \in Deps[q] /\ depthOf[q] + 1 = depth
    BY <1>3 DEF CrawlInv, OmittedInv
  <2>2. /\ (omitted \cap Visited = {})'
        /\ (omitted # {} => Cardinality(Visited) = MaxPackages)'
    BY <1>1 DEF CrawlInv, OmittedInv
  <2>3. \A p \in omitted' : \E q \in Successes' : p \in Deps[q] /\ depthOf'[q] + 1 = depth'
    BY <1>1, <2>1
  <2> QED
    BY <2>2, <2>3 DEF OmittedInv
<1>7. EndInv'
  <2>1. outcome' = "none" /\ result' = "none" /\ merged' = {} /\ pending' = {}
    BY <1>1, <1>3 DEF mergeVars
  <2> QED
    BY <2>1 DEF EndInv, Over
<1>8. (\A q \in Successes : depthOf[q] < depth => \A r \in Deps[q] : Followed(q, r))'
  <2>1. ASSUME NEW q \in Successes', depthOf[q] < depth, NEW r \in Deps[q]
        PROVE  Followed(q, r)'
    <3>1. q \in Successes /\ Followed(q, r)
      <4>1. q \in Packages /\ depthOf[q] \in 0..MaxDepth
        BY <1>2, StateSets DEF Successes, Of
      <4> QED
        BY <1>1, <1>2, <2>1, <4>1 DEF CrawlInv
    <3> QED
      BY <1>1, <3>1 DEF Followed
  <2> QED
    BY <1>1, <2>1
<1> QED
  BY <1>4, <1>5, <1>6, <1>7, <1>8 DEF CrawlInv

-----------------------------------------------------------------------------
(* The end of a wave                                                       *)

LEMMA DiscoveredBy ==
  \A p : p \in Discovered <=>
           /\ p \notin Visited
           /\ \E q \in Successes : depthOf[q] = depth /\ depth < MaxDepth /\ p \in Deps[q]
<1> DEFINE Last == {q \in Successes : depthOf[q] = depth /\ depth < MaxDepth}
           Named == UNION {Deps[q] : q \in Last}
<1>1. \A p : p \in Named <=> \E q \in Last : p \in Deps[q]
  <2> HIDE DEF Last
  <2> QED
    OBVIOUS
<1>2. Discovered = Named \ Visited
  BY DEF Discovered
<1>3. \A q : q \in Last <=> q \in Successes /\ (depthOf[q] = depth /\ depth < MaxDepth)
  OBVIOUS
<1> HIDE DEF Last, Named
<1>4. \A p : p \in Discovered <=> p \in Named /\ p \notin Visited
  BY <1>2
<1> QED
  BY <1>1, <1>3, <1>4, Zenon

LEMMA WaveFacts ==
  ASSUME CrawlInv, WaveOver
  PROVE  /\ InWave = {} /\ Visited # {} /\ outcome = "none" /\ result = "none"
         /\ merged = {} /\ pending = {}
         /\ Visited \subseteq Packages /\ Successes \subseteq Visited
         /\ IsFiniteSet(Visited) /\ Cardinality(Visited) \in Nat
         /\ MaxPackages - Cardinality(Visited) \in Nat
         /\ Discovered \in SUBSET Packages /\ Discovered \cap Visited = {}
         /\ Admitted \subseteq Discovered
         /\ \A p \in Admitted, r \in Discovered \ Admitted : p < r
         /\ Cardinality(Admitted) <= MaxPackages - Cardinality(Visited)
         /\ Discovered \ Admitted # {} =>
              Cardinality(Admitted) = MaxPackages - Cardinality(Visited)
         /\ \A p \in Discovered : \E q \in Successes :
              depthOf[q] = depth /\ depth < MaxDepth /\ p \in Deps[q]
         /\ \A q \in Successes : depthOf[q] = depth /\ depth < MaxDepth =>
              Deps[q] \subseteq Visited \cup Discovered
<1>1. /\ fetch \in [Packages -> {"unseen", "waiting", "fetching", "ok", "failed"}]
      /\ Cardinality(Visited) <= MaxPackages
  BY DEF CrawlInv, CrawlTypeOK, WavesInv
<1>2. InWave = {} /\ Visited # {} /\ outcome = "none" /\ result = "none"
  BY DEF WaveOver, InWave
<1>3. merged = {} /\ pending = {}
  BY <1>2 DEF CrawlInv, EndInv
<1>4. Visited \subseteq Packages /\ Successes \subseteq Visited
  BY <1>1, StateSets
<1>5. IsFiniteSet(Visited) /\ Cardinality(Visited) \in Nat
  BY <1>4, PackageSets
<1>6. MaxPackages - Cardinality(Visited) \in Nat
  BY <1>1, <1>5, CrawlAssumption
<1>7. \A p \in Discovered : p \notin Visited /\ \E q \in Successes :
        depthOf[q] = depth /\ depth < MaxDepth /\ p \in Deps[q]
  BY DiscoveredBy
<1>8. Discovered \in SUBSET Packages
  <2>1. \A q \in Successes : Deps[q] \subseteq Packages
    BY <1>4, CrawlAssumption
  <2> QED
    BY <1>7, <2>1
<1>9. \A q \in Successes : depthOf[q] = depth /\ depth < MaxDepth =>
        Deps[q] \subseteq Visited \cup Discovered
  BY DiscoveredBy
<1>10. /\ Admitted \subseteq Discovered
       /\ \A p \in Admitted, r \in Discovered \ Admitted : p < r
       /\ Cardinality(Admitted) <= MaxPackages - Cardinality(Visited)
       /\ Discovered \ Admitted # {} =>
            Cardinality(Admitted) = MaxPackages - Cardinality(Visited)
  BY <1>6, <1>8, LeastFacts DEF Admitted
<1> QED
  BY <1>2, <1>3, <1>4, <1>5, <1>6, <1>7, <1>8, <1>9, <1>10

(* A crawl that admits more has left out nothing before.                   *)
LEMMA NothingOmittedYet ==
  ASSUME CrawlInv, WaveOver, Admitted # {}
  PROVE  omitted = {}
<1> SUFFICES ASSUME omitted # {} PROVE FALSE
  OBVIOUS
<1>1. Cardinality(Visited) = MaxPackages
  BY DEF CrawlInv, OmittedInv
<1>2. /\ Cardinality(Admitted) <= MaxPackages - Cardinality(Visited)
      /\ Admitted \in SUBSET Packages /\ Cardinality(Visited) \in Nat
  BY WaveFacts
<1>3. Cardinality(Admitted) \in Nat
  BY <1>2, PackageSets
<1>4. Cardinality(Admitted) = 0
  BY <1>1, <1>2, <1>3
<1> QED
  BY <1>2, <1>4, PackageSets

LEMMA NextWaveInv ==
  ASSUME CrawlInv, NextWave, MergeInv'
  PROVE  CrawlInv'
<1>1. /\ InWave = {} /\ Visited # {} /\ outcome = "none" /\ result = "none"
      /\ merged = {} /\ pending = {}
      /\ Visited \subseteq Packages /\ Successes \subseteq Visited
      /\ IsFiniteSet(Visited) /\ Cardinality(Visited) \in Nat
      /\ Discovered \in SUBSET Packages /\ Discovered \cap Visited = {}
      /\ Admitted \subseteq Discovered /\ Admitted # {}
      /\ \A p \in Admitted, r \in Discovered \ Admitted : p < r
      /\ Cardinality(Admitted) <= MaxPackages - Cardinality(Visited)
      /\ Discovered \ Admitted # {} =>
           Cardinality(Admitted) = MaxPackages - Cardinality(Visited)
      /\ \A p \in Discovered : \E q \in Successes :
           depthOf[q] = depth /\ depth < MaxDepth /\ p \in Deps[q]
      /\ \A q \in Successes : depthOf[q] = depth /\ depth < MaxDepth =>
           Deps[q] \subseteq Visited \cup Discovered
      /\ omitted = {}
  BY WaveFacts, NothingOmittedYet DEF NextWave
<1>2. /\ depth' = depth + 1
      /\ fetch' = [p \in Packages |-> IF p \in Admitted THEN "waiting" ELSE fetch[p]]
      /\ depthOf' = [p \in Packages |-> IF p \in Admitted THEN depth + 1 ELSE depthOf[p]]
      /\ omitted' = Discovered \ Admitted
      /\ UNCHANGED <<tries, result, mergeVars>>
  BY <1>1 DEF NextWave
<1>3. /\ fetch \in [Packages -> {"unseen", "waiting", "fetching", "ok", "failed"}]
      /\ tries \in [Packages -> 0..Retries] /\ depthOf \in [Packages -> 0..MaxDepth]
      /\ depth \in 0..MaxDepth /\ depth < MaxDepth /\ MaxDepth \in Nat
      /\ Cardinality(Of({"fetching"})) <= Concurrency
  BY <1>1, CrawlAssumption DEF CrawlInv, CrawlTypeOK
<1>4. /\ Admitted \subseteq Packages /\ Admitted \cap Visited = {}
      /\ fetch' \in [Packages -> {"unseen", "waiting", "fetching", "ok", "failed"}]
      /\ depthOf' \in [Packages -> 0..MaxDepth] /\ depth' \in 0..MaxDepth
      /\ \A p \in Admitted : depthOf'[p] = depth' /\ fetch'[p] = "waiting"
      /\ \A p \in Packages \ Admitted : depthOf'[p] = depthOf[p] /\ fetch'[p] = fetch[p]
  BY <1>1, <1>2, <1>3
<1>5. /\ Visited' = Visited \cup Admitted /\ InWave' = Admitted
      /\ Successes' = Successes /\ Of({"fetching"})' = {}
  <2>1. Of({"fetching"}) = {}
    BY <1>1 DEF InWave, Of
  <2>2. /\ \A p \in Packages : /\ p \in Visited <=> fetch[p] # "unseen"
                               /\ p \in InWave <=> fetch[p] \in {"waiting", "fetching"}
                               /\ p \in Successes <=> fetch[p] = "ok"
        /\ \A p \in Packages : /\ p \in Visited' <=> fetch'[p] # "unseen"
                               /\ p \in InWave' <=> fetch'[p] \in {"waiting", "fetching"}
                               /\ p \in Successes' <=> fetch'[p] = "ok"
                               /\ p \in Of({"fetching"})' <=> fetch'[p] = "fetching"
        /\ Visited' \subseteq Packages /\ InWave' \subseteq Packages
        /\ Successes' \subseteq Packages /\ Of({"fetching"})' \subseteq Packages
    BY <1>3 DEF Visited, InWave, Successes, Of
  <2>3. \A p \in Packages : fetch[p] # "fetching" /\ fetch[p] # "waiting"
    BY <1>1, <2>2
  <2>4. \A p \in Packages : /\ p \in Visited' <=> p \in Visited \cup Admitted
                            /\ p \in InWave' <=> p \in Admitted
                            /\ p \in Successes' <=> p \in Successes
                            /\ p \notin Of({"fetching"})'
    <3> SUFFICES ASSUME NEW p \in Packages
                 PROVE  /\ p \in Visited' <=> p \in Visited \cup Admitted
                        /\ p \in InWave' <=> p \in Admitted
                        /\ p \in Successes' <=> p \in Successes
                        /\ p \notin Of({"fetching"})'
      OBVIOUS
    <3>1. CASE p \in Admitted
      BY <1>1, <1>4, <2>2, <3>1
    <3>2. CASE p \notin Admitted
      BY <1>4, <2>2, <2>3, <3>2
    <3> QED
      BY <3>1, <3>2
  <2>5. Visited \subseteq Packages /\ Admitted \subseteq Packages /\ Successes \subseteq Packages
    BY <1>1, <1>4
  <2>6. Visited' = Visited \cup Admitted /\ InWave' = Admitted
    BY <2>2, <2>4, <2>5
  <2>7. Successes' = Successes /\ Of({"fetching"})' = {}
    BY <2>2, <2>4, <2>5
  <2> QED
    BY <2>6, <2>7
<1>6. CrawlTypeOK'
  <2>1. Cardinality(Of({"fetching"}))' <= Concurrency
    <3>1. Cardinality(Of({"fetching"})') = 0
      BY <1>5, PackageSets
    <3> QED
      BY <3>1, CrawlAssumption
  <2>2. omitted' \subseteq Packages
    BY <1>1, <1>2
  <2> QED
    BY <1>2, <1>3, <1>4, <2>1, <2>2 DEF CrawlInv, CrawlTypeOK
<1>7. /\ Cardinality(Visited') = Cardinality(Visited) + Cardinality(Admitted)
      /\ Cardinality(Visited') <= MaxPackages
      /\ omitted' # {} => Cardinality(Visited') = MaxPackages
  <2>1. IsFiniteSet(Admitted) /\ Cardinality(Admitted) \in Nat
    BY <1>4, PackageSets
  <2>2. Cardinality(Visited \cap Admitted) = 0
    BY <1>4, PackageSets
  <2>3. Cardinality(Visited \cup Admitted) =
          Cardinality(Visited) + Cardinality(Admitted) - Cardinality(Visited \cap Admitted)
    BY <1>1, <2>1, FS_Union
  <2>4. Cardinality(Visited') = Cardinality(Visited) + Cardinality(Admitted)
    <3>1. Cardinality(Visited \cup Admitted) = Cardinality(Visited) + Cardinality(Admitted)
      BY <1>1, <2>1, <2>2, <2>3
    <3> QED
      BY <1>5, <3>1
  <2> QED
    BY <1>1, <1>2, <2>1, <2>4, CrawlAssumption
<1>8. WavesInv'
  <2>1. \A p \in Visited : depthOf[p] <= depth /\ depthOf'[p] = depthOf[p]
    BY <1>1, <1>4 DEF CrawlInv, WavesInv
  <2>2. \A p \in Visited' : depthOf'[p] <= depth'
    <3>1. \A p \in Visited : depthOf'[p] <= depth'
      <4> SUFFICES ASSUME NEW p \in Visited PROVE depthOf'[p] <= depth'
        OBVIOUS
      <4>1. depthOf[p] \in 0..MaxDepth /\ depthOf[p] <= depth /\ depthOf'[p] = depthOf[p]
        BY <1>1, <1>3, <2>1
      <4> QED
        BY <1>2, <1>3, <4>1
    <3>2. \A p \in Admitted : depthOf'[p] <= depth'
      BY <1>3, <1>4, <1>2
    <3> QED
      BY <1>5, <3>1, <3>2
  <2>3. ASSUME NEW p \in Visited', depthOf'[p] > 0
        PROVE  \E q \in Successes' : depthOf'[q] + 1 = depthOf'[p] /\ p \in Deps[q]
    <3>1. \A q \in Successes : depthOf'[q] = depthOf[q]
      BY <1>1, <2>1
    <3>2. CASE p \in Admitted
      <4>1. PICK q \in Successes : depthOf[q] = depth /\ p \in Deps[q]
        BY <1>1, <3>2
      <4>2. depthOf'[q] + 1 = depthOf'[p]
        BY <1>2, <1>4, <3>1, <3>2, <4>1
      <4> QED
        BY <1>5, <4>1, <4>2
    <3>3. CASE p \in Visited
      <4>1. PICK q \in Successes : depthOf[q] + 1 = depthOf[p] /\ p \in Deps[q]
        BY <2>1, <2>3, <3>3 DEF CrawlInv, WavesInv
      <4>2. depthOf'[q] + 1 = depthOf'[p]
        BY <2>1, <3>1, <3>3, <4>1
      <4> QED
        BY <1>5, <4>1, <4>2
    <3> QED
      BY <1>5, <3>2, <3>3
  <2>4. \A p \in InWave' : depthOf'[p] = depth'
    BY <1>4, <1>5
  <2> QED
    BY <1>7, <2>2, <2>3, <2>4 DEF WavesInv
<1>9. OmittedInv'
  <2>1. omitted' \cap Visited' = {}
    BY <1>1, <1>2, <1>5
  <2>2. ASSUME NEW p \in omitted'
        PROVE  \E q \in Successes' : p \in Deps[q] /\ depthOf'[q] + 1 = depth'
    <3>1. PICK q \in Successes : depthOf[q] = depth /\ p \in Deps[q]
      BY <1>1, <1>2
    <3>2. depthOf'[q] = depthOf[q]
      BY <1>1, <1>4
    <3> QED
      BY <1>2, <1>5, <3>1, <3>2
  <2> QED
    BY <1>7, <2>1, <2>2 DEF OmittedInv
<1>10. EndInv'
  BY <1>1, <1>2, <1>5 DEF EndInv, Over, mergeVars
<1>11. ASSUME NEW q \in Successes', depthOf'[q] < depth', NEW r \in Deps[q]
       PROVE  Followed(q, r)'
  <2>1. q \in Successes /\ depthOf'[q] = depthOf[q] /\ depthOf[q] \in 0..MaxDepth
    BY <1>1, <1>3, <1>4, <1>5
  <2>2. CASE depthOf[q] < depth
    <3>1. r \in Visited /\ depthOf[r] <= depthOf[q] + 1
      BY <1>1, <2>1, <2>2 DEF CrawlInv, Followed
    <3>2. depthOf'[r] = depthOf[r] /\ r \in Visited'
      BY <1>1, <1>4, <1>5, <3>1
    <3> QED
      BY <2>1, <3>1, <3>2 DEF Followed
  <2>3. CASE depthOf[q] = depth
    <3>1. r \in Visited \/ r \in Discovered
      BY <1>1, <1>3, <2>1, <2>3
    <3>2. CASE r \in Visited
      <4>1. r \in Visited' /\ depthOf'[r] = depthOf[r] /\ depthOf[r] <= depth
            /\ depthOf[r] \in 0..MaxDepth
        BY <1>1, <1>3, <1>4, <1>5, <3>2 DEF CrawlInv, WavesInv
      <4>2. depthOf'[r] <= depthOf'[q] + 1
        BY <1>3, <2>1, <2>3, <4>1
      <4> QED
        BY <4>1, <4>2 DEF Followed
    <3>3. CASE r \in Admitted
      <4>1. r \in Visited' /\ depthOf'[r] <= depthOf'[q] + 1
        BY <1>2, <1>3, <1>4, <1>5, <2>1, <2>3, <3>3
      <4> QED
        BY <4>1 DEF Followed
    <3>4. CASE r \in Discovered \ Admitted
      <4>1. r \in omitted' /\ depthOf'[q] + 1 = depth'
        BY <1>2, <2>1, <2>3, <3>4
      <4>2. ASSUME NEW p \in Visited', depthOf'[p] = depth' PROVE p < r
        <5>1. p \in Visited => depthOf'[p] <= depth /\ depthOf'[p] \in 0..MaxDepth
          BY <1>1, <1>3, <1>4 DEF CrawlInv, WavesInv
        <5>2. p \in Admitted
          BY <1>2, <1>3, <1>5, <4>2, <5>1
        <5> QED
          BY <1>1, <3>4, <5>2
      <4> QED
        BY <4>1, <4>2 DEF Followed
    <3> QED
      BY <3>1, <3>2, <3>3, <3>4
  <2> QED
    BY <1>2, <1>3, <1>11, <2>1, <2>2, <2>3
<1> QED
  BY <1>6, <1>8, <1>9, <1>10, <1>11 DEF CrawlInv

LEMMA EndOfCrawlInv ==
  ASSUME CrawlInv, NothingCollected \/ MergeSuccesses, MergeInv'
  PROVE  CrawlInv'
<1>1. /\ InWave = {} /\ Visited # {} /\ outcome = "none" /\ result = "none"
      /\ merged = {} /\ pending = {}
      /\ Successes \subseteq Visited
      /\ MaxPackages - Cardinality(Visited) \in Nat
      /\ Discovered \in SUBSET Packages /\ Discovered \cap Visited = {}
      /\ Discovered \ Admitted # {} =>
           Cardinality(Admitted) = MaxPackages - Cardinality(Visited)
      /\ \A p \in Discovered : \E q \in Successes :
           depthOf[q] = depth /\ depth < MaxDepth /\ p \in Deps[q]
      /\ \A q \in Successes : depthOf[q] = depth /\ depth < MaxDepth =>
           Deps[q] \subseteq Visited \cup Discovered
      /\ Cardinality(Visited) \in Nat
  BY WaveFacts DEF NothingCollected, MergeSuccesses
<1>2. UNCHANGED <<fetch, tries, depthOf, depth>> /\ Admitted = {}
  BY DEF NothingCollected, MergeSuccesses
<1>3. /\ Visited' = Visited /\ InWave' = InWave /\ Successes' = Successes
      /\ Of({"failed"})' = Of({"failed"}) /\ Of({"fetching"})' = Of({"fetching"})
  BY <1>2 DEF Visited, InWave, Successes, Of
<1>4. WavesInv'
  BY <1>2, <1>3 DEF CrawlInv, WavesInv
<1>5. CASE NothingCollected
  <2>1. result' = "failed" /\ Successes = {} /\ UNCHANGED <<omitted, mergeVars>>
    BY <1>5 DEF NothingCollected
  <2>2. CrawlTypeOK'
    BY <1>2, <1>3, <2>1 DEF CrawlInv, CrawlTypeOK
  <2>3. omitted = {}
    BY <2>1 DEF CrawlInv, OmittedInv
  <2>4. OmittedInv'
    BY <2>1, <2>3 DEF OmittedInv
  <2>5. EndInv'
    <3>1. outcome' = "none" /\ merged' = {} /\ pending' = {}
      BY <1>1, <2>1 DEF mergeVars
    <3> QED
      BY <1>1, <1>3, <2>1, <3>1 DEF EndInv
  <2> QED
    BY <1>3, <1>4, <2>1, <2>2, <2>4, <2>5 DEF CrawlInv
<1>6. CASE MergeSuccesses
  <2>1. /\ outcome' = "merging" /\ pending' = Successes /\ merged' = {} /\ result' = "none"
        /\ omitted' = omitted \cup Discovered
    BY <1>1, <1>6 DEF MergeSuccesses, Begin
  <2>2. CrawlTypeOK'
    BY <1>1, <1>2, <1>3, <2>1 DEF CrawlInv, CrawlTypeOK
  <2>3. OmittedInv'
    <3>1. omitted' \cap Visited' = {}
      BY <1>1, <1>3, <2>1 DEF CrawlInv, OmittedInv
    <3>2. ASSUME omitted' # {} PROVE Cardinality(Visited) = MaxPackages
      <4>1. CASE omitted # {}
        BY <4>1 DEF CrawlInv, OmittedInv
      <4>2. CASE Discovered # {}
        <5>1. Cardinality(Admitted) = MaxPackages - Cardinality(Visited)
          BY <1>1, <1>2, <4>2
        <5>2. Cardinality(Admitted) = 0
          BY <1>2, PackageSets
        <5> QED
          BY <1>1, <5>1, <5>2, CrawlAssumption
      <4> QED
        BY <2>1, <3>2, <4>1, <4>2
    <3>3. \A p \in omitted : \E q \in Successes : p \in Deps[q] /\ depthOf[q] + 1 = depth
      BY <1>1 DEF CrawlInv, OmittedInv
    <3>4. ASSUME NEW p \in omitted'
          PROVE  \E q \in Successes' :
                   /\ p \in Deps[q]
                   /\ \/ depthOf'[q] + 1 = depth'
                      \/ outcome' # "none" /\ depthOf'[q] = depth' /\ depth' < MaxDepth
      <4>1. CASE p \in omitted
        BY <1>2, <1>3, <3>3, <4>1
      <4>2. CASE p \in Discovered
        BY <1>1, <1>2, <1>3, <2>1, <4>2
      <4> QED
        BY <2>1, <4>1, <4>2
    <3>5. (omitted # {} => Cardinality(Visited) = MaxPackages)'
      BY <1>3, <3>2
    <3> QED
      BY <3>1, <3>4, <3>5 DEF OmittedInv
  <2>4. EndInv'
    <3>1. \A q \in Successes : depthOf[q] = depth /\ depth < MaxDepth =>
            Deps[q] \subseteq Visited \cup omitted'
      BY <1>1, <2>1
    <3> QED
      BY <1>1, <1>2, <1>3, <2>1, <3>1 DEF EndInv
  <2>5. ASSUME NEW q \in Successes, depthOf[q] < depth, NEW r \in Deps[q]
        PROVE  Followed(q, r)'
    <3>1. Followed(q, r)
      BY <2>5 DEF CrawlInv
    <3> QED
      BY <1>2, <1>3, <2>1, <3>1 DEF Followed
  <2> QED
    BY <1>2, <1>3, <1>4, <2>2, <2>3, <2>4, <2>5 DEF CrawlInv
<1> QED
  BY <1>5, <1>6

(* The merge and the report, which leave the waves as they are.            *)
LEMMA WavesUntouched ==
  ASSUME CrawlInv, UNCHANGED <<fetch, tries, depthOf, depth, omitted>>, MergeInv', EndInv',
         outcome # "none" => outcome' # "none",
         result' \in {"none", "failed", "completed", "partially-completed", "rejected"}
  PROVE  CrawlInv'
<1>1. /\ Visited' = Visited /\ InWave' = InWave /\ Successes' = Successes
      /\ Of({"fetching"})' = Of({"fetching"})
  BY DEF Visited, InWave, Successes, Of
<1>2. CrawlTypeOK'
  BY <1>1 DEF CrawlInv, CrawlTypeOK
<1>3. WavesInv'
  BY <1>1 DEF CrawlInv, WavesInv
<1>4. OmittedInv'
  <2>1. /\ omitted \cap Visited = {}
        /\ omitted # {} => Cardinality(Visited) = MaxPackages
        /\ \A p \in omitted : \E q \in Successes :
             /\ p \in Deps[q]
             /\ \/ depthOf[q] + 1 = depth
                \/ outcome # "none" /\ depthOf[q] = depth /\ depth < MaxDepth
    BY DEF CrawlInv, OmittedInv
  <2> QED
    BY <1>1, <2>1 DEF OmittedInv
<1>5. ASSUME NEW q \in Successes, depthOf[q] < depth, NEW r \in Deps[q]
      PROVE  Followed(q, r)'
  <2>1. Followed(q, r)
    BY <1>5 DEF CrawlInv
  <2> QED
    BY <1>1, <2>1 DEF Followed
<1> QED
  BY <1>1, <1>2, <1>3, <1>4, <1>5 DEF CrawlInv

LEMMA MergeGoesOnInv ==
  ASSUME CrawlInv, MergeGoesOn, MergeInv'
  PROVE  CrawlInv'
<1>1. UNCHANGED <<fetch, tries, depthOf, depth, omitted, result>>
  BY DEF MergeGoesOn, crawlVars
<1>2. /\ outcome = "merging" /\ merged' \cup pending' = merged \cup pending
      /\ outcome' # "none" /\ (outcome' \in {"batch", "invalid"} => pending' = {})
  BY DEF MergeGoesOn, MergeStep, MergeFragment, Finish
<1>3. /\ Visited' = Visited /\ InWave' = InWave /\ Successes' = Successes
      /\ Of({"failed"})' = Of({"failed"})
  BY <1>1 DEF Visited, InWave, Successes, Of
<1>4. result \in {"none", "failed"}
  BY <1>2 DEF CrawlInv, CrawlTypeOK, EndInv
<1>5. EndInv'
  <2>1. /\ Visited = {} => result = "none"
        /\ result = "failed" => Successes = {}
        /\ Visited # {} => merged \cup pending = Successes
        /\ Visited # {} =>
             /\ InWave = {}
             /\ \A q \in Successes : depthOf[q] = depth /\ depth < MaxDepth =>
                  Deps[q] \subseteq Visited \cup omitted
    BY <1>2 DEF CrawlInv, EndInv, Over
  <2> QED
    BY <1>1, <1>2, <1>3, <1>4, <2>1 DEF EndInv
<1> QED
  BY <1>1, <1>2, <1>4, <1>5, WavesUntouched

LEMMA ReportInv ==
  ASSUME CrawlInv, Report, MergeInv'
  PROVE  CrawlInv'
<1>1. /\ UNCHANGED <<fetch, tries, depthOf, depth, omitted>> /\ UNCHANGED mergeVars
      /\ Visited # {} /\ outcome \in {"batch", "conflict", "invalid"}
      /\ result' = IF outcome = "batch" THEN StatusOfIssues ELSE "rejected"
  BY DEF Report
<1>2. pending' = pending /\ merged' = merged /\ outcome' = outcome /\ outcome # "none"
  BY <1>1 DEF mergeVars
<1>3. /\ Visited' = Visited /\ InWave' = InWave /\ Successes' = Successes
      /\ Of({"failed"})' = Of({"failed"})
  BY <1>1 DEF Visited, InWave, Successes, Of
<1>4. /\ result' \in {"completed", "partially-completed", "rejected"}
      /\ result' \in {"completed", "partially-completed"} => outcome = "batch"
      /\ result' = "completed" => Of({"failed"}) = {} /\ omitted = {}
      /\ result' = "rejected" => outcome \in {"conflict", "invalid"}
  BY <1>1 DEF StatusOfIssues
<1>5. EndInv'
  <2>1. /\ merged \cup pending = Successes
        /\ outcome \in {"batch", "invalid"} => pending = {}
        /\ InWave = {}
        /\ \A q \in Successes : depthOf[q] = depth /\ depth < MaxDepth =>
             Deps[q] \subseteq Visited \cup omitted
    BY <1>1, <1>2 DEF CrawlInv, EndInv, Over
  <2> QED
    BY <1>1, <1>2, <1>3, <1>4, <2>1 DEF EndInv
<1> QED
  BY <1>1, <1>2, <1>4, <1>5, WavesUntouched

LEMMA MergeElsewhereInv ==
  ASSUME CrawlInv, MergeElsewhere, MergeInv'
  PROVE  CrawlInv'
<1>1. UNCHANGED <<fetch, tries, depthOf, depth, omitted, result>> /\ Visited = {}
  BY DEF MergeElsewhere, crawlVars
<1>2. outcome' = "merging"
  BY DEF MergeElsewhere, Begin
<1>3. Visited' = {} /\ Successes = {} /\ Successes' = {}
  BY <1>1, StateSets DEF CrawlInv, CrawlTypeOK, Visited, Successes, Of
<1>4. result' = "none"
  BY <1>1 DEF CrawlInv, EndInv
<1>5. EndInv'
  BY <1>2, <1>3, <1>4 DEF EndInv
<1> QED
  BY <1>1, <1>2, <1>4, <1>5, WavesUntouched

LEMMA CrawlStep ==
  ASSUME CrawlInv, [CrawlNext]_<<crawlVars, mergeVars>>
  PROVE  CrawlInv'
<1>1. MergeInv'
  BY MergesAlong, StepInv DEF CrawlInv
<1>2. CASE UNCHANGED <<crawlVars, mergeVars>>
  <2>1. UNCHANGED <<fetch, tries, depthOf, depth, omitted, result, pending, merged, outcome>>
    BY <1>2 DEF crawlVars, mergeVars
  <2>2. /\ Visited' = Visited /\ InWave' = InWave /\ Successes' = Successes
        /\ Of({"failed"})' = Of({"failed"})
    BY <2>1 DEF Visited, InWave, Successes, Of
  <2>3. EndInv'
    BY <2>1, <2>2 DEF CrawlInv, EndInv, Over
  <2>4. result' \in {"none", "failed", "completed", "partially-completed", "rejected"}
    BY <2>1 DEF CrawlInv, CrawlTypeOK
  <2> QED
    BY <1>1, <2>1, <2>3, <2>4, WavesUntouched
<1> QED
  BY <1>1, <1>2, FetchInv, NextWaveInv, EndOfCrawlInv, MergeGoesOnInv, ReportInv,
     MergeElsewhereInv DEF CrawlNext, WaveStep

(* The waves, what they left out and what became of the merge, at every    *)
(* moment of every crawl.                                                  *)
THEOREM CrawlInvariant == CrawlSpec => []CrawlInv
<1>1. CrawlInv /\ [CrawlNext]_<<crawlVars, mergeVars>> => CrawlInv'
  BY CrawlStep
<1> QED
  BY CrawlInvInit, <1>1, PTL DEF CrawlSpec

-----------------------------------------------------------------------------
(* What is within reach                                                    *)

(* Within is defined by recursion: there is such a function at every       *)
(* depth, hence at MaxDepth.                                               *)
LEMMA WithinUnfolds ==
  ASSUME NEW A
  PROVE  /\ Within(A)[0] = Roots
         /\ \A d \in 0..MaxDepth : d < MaxDepth =>
              Within(A)[d + 1] = Within(A)[d] \cup UNION {Deps[p] : p \in Within(A)[d] \cap A}
<1> DEFINE Body(W, d) == IF d = 0 THEN Roots
                         ELSE W[d - 1] \cup UNION {Deps[p] : p \in W[d - 1] \cap A}
           Upto(n) == \E W : W = [d \in 0..n |-> Body(W, d)]
           G == {n \in 0..MaxDepth : Upto(n)}
<1>0. MaxDepth \in Nat
  BY CrawlAssumption
<1>1. Upto(0)
  <2>1. [d \in 0..0 |-> Roots] = [d \in 0..0 |-> Body([e \in 0..0 |-> Roots], d)]
    OBVIOUS
  <2> QED
    BY <2>1
<1>2. ASSUME NEW n \in Nat, Upto(n) PROVE Upto(n + 1)
  <2>1. PICK W : W = [d \in 0..n |-> Body(W, d)]
    BY <1>2
  <2> DEFINE V == [d \in 0..(n + 1) |-> IF d = n + 1 THEN Body(W, n + 1) ELSE W[d]]
  <2>2. ASSUME NEW d \in 0..(n + 1) PROVE V[d] = Body(V, d)
    <3>1. CASE d = 0
      BY <2>1, <3>1
    <3>2. CASE d # 0
      <4>1. V[d - 1] = W[d - 1]
        BY <3>2
      <4>2. CASE d = n + 1
        BY <4>1, <4>2
      <4>3. CASE d # n + 1
        <5>1. d \in 0..n /\ V[d] = W[d]
          BY <4>3
        <5>2. W[d] = Body(W, d)
          BY <2>1, <5>1
        <5> QED
          BY <3>2, <4>1, <5>1, <5>2
      <4> QED
        BY <4>2, <4>3
    <3> QED
      BY <3>1, <3>2
  <2>3. V = [d \in 0..(n + 1) |-> Body(V, d)]
    BY <2>2
  <2> QED
    BY <2>3
<1>3. MaxDepth \in G
  <2>1. 0 \in G
    BY <1>0, <1>1
  <2>2. \A d \in 0..MaxDepth : d \in G /\ d < MaxDepth => d + 1 \in G
    <3> SUFFICES ASSUME NEW d \in 0..MaxDepth, d \in G, d < MaxDepth PROVE d + 1 \in G
      OBVIOUS
    <3>1. d \in Nat /\ d + 1 \in 0..MaxDepth /\ Upto(d)
      BY <1>0
    <3> HIDE DEF Upto
    <3> QED
      BY <1>2, <3>1
  <2> HIDE DEF G
  <2>3. 0..MaxDepth \subseteq G
    BY <2>1, <2>2, OverDepths
  <2> QED
    BY <1>0, <2>3
<1>4. \E W : W = [d \in 0..MaxDepth |-> Body(W, d)]
  BY <1>3
<1>5. Within(A) = [d \in 0..MaxDepth |-> Body(Within(A), d)]
  BY <1>4 DEF Within
<1>6. \A d \in 0..MaxDepth : Within(A)[d] = Body(Within(A), d)
  <2> DEFINE W == Within(A)
  <2>1. W = [d \in 0..MaxDepth |-> Body(W, d)]
    BY <1>5
  <2> HIDE DEF W, Body
  <2>2. \A d \in 0..MaxDepth : W[d] = Body(W, d)
    BY <2>1, Zenon
  <2> QED
    BY <2>2 DEF W
<1>7. Within(A)[0] = Roots
  <2>1. 0 \in 0..MaxDepth
    BY <1>0
  <2>2. Within(A)[0] = Body(Within(A), 0)
    BY <1>6, <2>1
  <2> QED
    BY <2>2
<1>8. ASSUME NEW d \in 0..MaxDepth, d < MaxDepth
      PROVE  Within(A)[d + 1] = Within(A)[d] \cup UNION {Deps[p] : p \in Within(A)[d] \cap A}
  <2>1. d + 1 \in 0..MaxDepth /\ d + 1 # 0 /\ (d + 1) - 1 = d
    BY <1>0, <1>8
  <2> QED
    BY <1>6, <2>1
<1> QED
  BY <1>7, <1>8

(* One wave further, member by member.                                     *)
LEMMA WithinMore ==
  ASSUME NEW A, NEW d \in 0..MaxDepth, d < MaxDepth
  PROVE  \A p : p \in Within(A)[d + 1] <=>
                  p \in Within(A)[d] \/ \E q \in A : q \in Within(A)[d] /\ p \in Deps[q]
<1> DEFINE W == Within(A)[d]
           Near == W \cap A
           Named == UNION {Deps[q] : q \in Near}
<1>1. Within(A)[d + 1] = W \cup Named
  BY WithinUnfolds
<1>2. \A p : p \in Named <=> \E q \in Near : p \in Deps[q]
  <2> HIDE DEF Near
  <2> QED
    OBVIOUS
<1>3. \A q : q \in Near <=> q \in W /\ q \in A
  OBVIOUS
<1> HIDE DEF W, Near, Named
<1>4. \A p : p \in Within(A)[d + 1] <=> p \in W \/ p \in Named
  BY <1>1
<1>5. \A p : p \in Within(A)[d + 1] <=> p \in W \/ \E q \in A : q \in W /\ p \in Deps[q]
  BY <1>2, <1>3, <1>4, Zenon
<1> QED
  BY <1>5 DEF W

-----------------------------------------------------------------------------
(* At the end of a crawl                                                   *)

(* What the cap left out of the last wave.                                 *)
LeftOut == {p \in omitted : \E q \in Successes : depthOf[q] + 1 = depth /\ p \in Deps[q]}

LEMMA EndFacts ==
  ASSUME CrawlInv, result # "none"
  PROVE  /\ depth \in 0..MaxDepth /\ MaxDepth \in Nat /\ MaxPackages \in Nat
         /\ Visited \subseteq Packages /\ Successes \subseteq Visited
         /\ omitted \subseteq Packages /\ omitted \cap Visited = {}
         /\ \A p \in Visited : depthOf[p] \in 0..MaxDepth /\ depthOf[p] <= depth
         /\ \A p \in Visited : depthOf[p] > 0 =>
              \E q \in Successes : depthOf[q] + 1 = depthOf[p] /\ p \in Deps[q]
         /\ \A q \in Successes : depthOf[q] = depth /\ depth < MaxDepth =>
              Deps[q] \subseteq Visited \cup omitted
         /\ \A q \in Successes : depthOf[q] < depth => \A r \in Deps[q] : Followed(q, r)
         /\ \A p \in omitted : \E q \in Successes :
              /\ p \in Deps[q]
              /\ (depthOf[q] + 1 = depth \/ (depthOf[q] = depth /\ depth < MaxDepth))
         /\ InWave = {} /\ Visited # {}
<1>1. Visited # {} /\ InWave = {}
  BY DEF CrawlInv, EndInv, Over
<1>2. /\ depth \in 0..MaxDepth /\ depthOf \in [Packages -> 0..MaxDepth]
      /\ Visited \subseteq Packages /\ Successes \subseteq Visited /\ omitted \subseteq Packages
  BY StateSets DEF CrawlInv, CrawlTypeOK
<1>3. /\ omitted \cap Visited = {}
      /\ \A p \in omitted : \E q \in Successes :
           /\ p \in Deps[q]
           /\ (depthOf[q] + 1 = depth \/ (depthOf[q] = depth /\ depth < MaxDepth))
  <2>1. /\ omitted \cap Visited = {}
        /\ \A p \in omitted : \E q \in Successes :
             /\ p \in Deps[q]
             /\ \/ depthOf[q] + 1 = depth
                \/ outcome # "none" /\ depthOf[q] = depth /\ depth < MaxDepth
    BY DEF CrawlInv, OmittedInv
  <2>2. ASSUME NEW p \in omitted
        PROVE  \E q \in Successes :
                 /\ p \in Deps[q]
                 /\ (depthOf[q] + 1 = depth \/ (depthOf[q] = depth /\ depth < MaxDepth))
    <3>1. PICK q \in Successes :
            /\ p \in Deps[q]
            /\ \/ depthOf[q] + 1 = depth
               \/ outcome # "none" /\ depthOf[q] = depth /\ depth < MaxDepth
      BY <2>1, Zenon
    <3> QED
      BY <3>1
  <2> QED
    BY <2>1, <2>2
<1>4. /\ \A p \in Visited : depthOf[p] <= depth
      /\ \A p \in Visited : depthOf[p] > 0 =>
           \E q \in Successes : depthOf[q] + 1 = depthOf[p] /\ p \in Deps[q]
  BY DEF CrawlInv, WavesInv
<1>5. \A q \in Successes : depthOf[q] = depth /\ depth < MaxDepth =>
        Deps[q] \subseteq Visited \cup omitted
  BY <1>1 DEF CrawlInv, EndInv, Over
<1>6. \A q \in Successes : depthOf[q] < depth => \A r \in Deps[q] : Followed(q, r)
  BY DEF CrawlInv
<1> QED
  BY <1>1, <1>2, <1>3, <1>4, <1>5, <1>6, CrawlAssumption

(* What is within d declarations through what was collected: the packages  *)
(* of the first d waves, and what was left out of the waves up to d.       *)
LEMMA ReachAtDepth ==
  ASSUME CrawlInv, result # "none"
  PROVE  \A d \in 0..MaxDepth : \A p :
           p \in Within(Successes)[d] <=>
             \/ p \in Visited /\ depthOf[p] <= d
             \/ p \in LeftOut /\ d >= depth
             \/ p \in omitted /\ d > depth
<1> DEFINE In(p, d) == \/ p \in Visited /\ depthOf[p] <= d
                       \/ p \in LeftOut /\ d >= depth
                       \/ p \in omitted /\ d > depth
           Right(d) == \A p : p \in Within(Successes)[d] <=> In(p, d)
           G == {d \in 0..MaxDepth : Right(d)}
<1>0. /\ depth \in 0..MaxDepth /\ MaxDepth \in Nat
      /\ \A p \in Visited : depthOf[p] \in 0..MaxDepth
      /\ Successes \subseteq Visited /\ omitted \cap Visited = {}
  BY EndFacts
<1>1. Right(0)
  <2>1. \A p : p \in Within(Successes)[0] <=> p \in Visited /\ depthOf[p] = 0
    BY WithinUnfolds DEF Roots
  <2>2. ASSUME NEW p, p \in LeftOut, 0 >= depth PROVE FALSE
    <3>1. PICK q \in Successes : depthOf[q] + 1 = depth
      BY <2>2 DEF LeftOut
    <3>2. depthOf[q] \in 0..MaxDepth
      BY <1>0
    <3> QED
      BY <1>0, <2>2, <3>1, <3>2
  <2>3. ~(0 > depth)
    BY <1>0
  <2>4. \A p \in Visited : depthOf[p] <= 0 <=> depthOf[p] = 0
    BY <1>0
  <2> HIDE DEF LeftOut
  <2> QED
    BY <2>1, <2>2, <2>3, <2>4
<1>2. ASSUME NEW d \in 0..MaxDepth, d < MaxDepth, Right(d) PROVE Right(d + 1)
  <2>1. \A p : p \in Within(Successes)[d + 1] <=>
                 In(p, d) \/ \E q \in Successes : depthOf[q] <= d /\ p \in Deps[q]
    <3>1. \A q \in Successes : q \in Within(Successes)[d] <=> depthOf[q] <= d
      <4>1. \A q \in Successes : q \in Visited /\ q \notin omitted /\ q \notin LeftOut
        BY <1>0 DEF LeftOut
      <4> QED
        BY <1>2, <4>1
    <3>2. \A p : p \in Within(Successes)[d + 1] <=>
            p \in Within(Successes)[d] \/
            \E q \in Successes : q \in Within(Successes)[d] /\ p \in Deps[q]
      BY <1>2, WithinMore
    <3> HIDE DEF In
    <3> QED
      BY <1>2, <3>1, <3>2, Zenon
  <2>2. ASSUME NEW p, In(p, d) PROVE In(p, d + 1)
    <3>1. \A n \in 0..MaxDepth : n <= d => n <= d + 1
      BY <1>0
    <3>2. (d >= depth => d + 1 >= depth) /\ (d > depth => d + 1 > depth)
      BY <1>0
    <3> QED
      BY <1>0, <2>2, <3>1, <3>2
  <2>3. ASSUME NEW q \in Successes, depthOf[q] <= d, NEW p \in Deps[q] PROVE In(p, d + 1)
    <3>1. depthOf[q] \in 0..MaxDepth /\ depthOf[q] <= depth
      BY <1>0, EndFacts
    <3>2. CASE depthOf[q] < depth
      <4>1. Followed(q, p)
        BY <3>2, EndFacts
      <4>2. CASE p \in Visited /\ depthOf[p] <= depthOf[q] + 1
        <5>1. depthOf[p] \in 0..MaxDepth
          BY <1>0, <4>2
        <5>2. depthOf[p] <= d + 1
          BY <1>0, <2>3, <3>1, <4>2, <5>1
        <5> QED
          BY <4>2, <5>2
      <4>3. CASE p \in omitted /\ depthOf[q] + 1 = depth
        <5>1. p \in LeftOut
          BY <4>3 DEF LeftOut
        <5>2. d + 1 >= depth
          BY <1>0, <2>3, <3>1, <4>3
        <5> QED
          BY <5>1, <5>2
      <4> QED
        BY <4>1, <4>2, <4>3 DEF Followed
    <3>3. CASE depthOf[q] = depth
      <4>1. depth < MaxDepth /\ d + 1 > depth
        BY <1>0, <1>2, <2>3, <3>3
      <4>2. p \in Visited \cup omitted
        BY <3>3, <4>1, EndFacts
      <4>3. ASSUME p \in Visited PROVE depthOf[p] <= d + 1
        <5>1. depthOf[p] \in 0..MaxDepth /\ depthOf[p] <= depth
          BY <4>3, EndFacts
        <5> QED
          BY <1>0, <4>1, <5>1
      <4> QED
        BY <4>1, <4>2, <4>3
    <3> QED
      BY <1>0, <3>1, <3>2, <3>3
  <2>4. ASSUME NEW p, In(p, d + 1), ~In(p, d)
        PROVE  \E q \in Successes : depthOf[q] <= d /\ p \in Deps[q]
    <3>1. CASE p \in Visited /\ depthOf[p] <= d + 1
      <4>1. depthOf[p] \in 0..MaxDepth /\ ~(depthOf[p] <= d)
        BY <1>0, <2>4, <3>1
      <4>2. depthOf[p] > 0 /\ depthOf[p] = d + 1
        BY <3>1, <4>1
      <4>3. PICK q \in Successes : depthOf[q] + 1 = depthOf[p] /\ p \in Deps[q]
        BY <3>1, <4>2, EndFacts
      <4>4. depthOf[q] \in 0..MaxDepth
        BY <1>0
      <4>5. depthOf[q] <= d
        BY <4>2, <4>3, <4>4
      <4> QED
        BY <4>3, <4>5
    <3>2. CASE p \in LeftOut /\ d + 1 >= depth
      <4>1. PICK q \in Successes : depthOf[q] + 1 = depth /\ p \in Deps[q]
        BY <3>2 DEF LeftOut
      <4>2. depthOf[q] \in 0..MaxDepth
        BY <1>0
      <4>3. depthOf[q] <= d
        BY <1>0, <3>2, <4>1, <4>2
      <4> QED
        BY <4>1, <4>3
    <3>3. CASE p \in omitted /\ d + 1 > depth
      <4>1. PICK q \in Successes : p \in Deps[q] /\ (depthOf[q] + 1 = depth \/ depthOf[q] = depth)
        BY <3>3, EndFacts
      <4>2. depthOf[q] \in 0..MaxDepth
        BY <1>0
      <4>3. depthOf[q] <= d
        BY <1>0, <3>3, <4>1, <4>2
      <4> QED
        BY <4>1, <4>3
    <3> QED
      BY <2>4, <3>1, <3>2, <3>3
  <2> HIDE DEF In
  <2> QED
    BY <2>1, <2>2, <2>3, <2>4
<1>3. 0..MaxDepth \subseteq G
  <2> HIDE DEF Right
  <2>1. 0 \in G
    BY <1>0, <1>1
  <2>2. \A d \in 0..MaxDepth : d \in G /\ d < MaxDepth => d + 1 \in G
    <3>1. \A d \in 0..MaxDepth : d < MaxDepth => d + 1 \in 0..MaxDepth
      BY <1>0
    <3> QED
      BY <1>2, <3>1
  <2> HIDE DEF G
  <2> QED
    BY <2>1, <2>2, OverDepths
<1> QED
  BY <1>3

(* The selection: the nearest first, those of the last wave that the cap   *)
(* left out behind those it admitted.                                      *)
LEMMA SelectionAtEnd ==
  ASSUME CrawlInv
  PROVE  SelectionIsDeterministic
<1> SUFFICES ASSUME result # "none" PROVE SelectionIsDeterministic
  BY DEF SelectionIsDeterministic
<1> DEFINE W == Within(Successes)
           Reach == W[MaxDepth]
           Is(p, d) == p \in W[d] /\ (d = 0 \/ p \notin W[d - 1])
           Far(p) == CHOOSE d \in 0..MaxDepth :
                       p \in W[d] /\ (d = 0 \/ p \notin W[d - 1])
           Before(q, p) == Far(q) < Far(p) \/ (Far(q) = Far(p) /\ q < p)
           Ahead(p) == {q \in Reach : Before(q, p)}
<1>0. /\ depth \in 0..MaxDepth /\ MaxDepth \in Nat /\ MaxPackages \in Nat
      /\ Visited \subseteq Packages /\ omitted \subseteq Packages /\ omitted \cap Visited = {}
      /\ \A p \in Visited : depthOf[p] \in 0..MaxDepth /\ depthOf[p] <= depth
      /\ Packages \subseteq Nat
      /\ LeftOut \subseteq omitted
  BY EndFacts, CrawlAssumption DEF LeftOut
<1>1. \A d \in 0..MaxDepth : \A p :
        p \in W[d] <=> \/ p \in Visited /\ depthOf[p] <= d
                       \/ p \in LeftOut /\ d >= depth
                       \/ p \in omitted /\ d > depth
  BY ReachAtDepth
<1>2. Reach = Visited \cup omitted
  <2>1. MaxDepth \in 0..MaxDepth
    BY <1>0
  <2>2. \A p \in Visited : p \in Reach
    BY <1>0, <1>1, <2>1
  <2>3. ASSUME NEW p \in omitted PROVE p \in Reach
    <3>1. CASE depth < MaxDepth
      BY <1>0, <1>1, <2>1, <3>1
    <3>2. CASE depth = MaxDepth
      <4>1. p \in LeftOut
        <5>1. PICK q \in Successes :
                p \in Deps[q] /\ (depthOf[q] + 1 = depth \/ (depthOf[q] = depth /\ depth < MaxDepth))
          BY EndFacts
        <5>2. depthOf[q] + 1 = depth
          BY <1>0, <3>2, <5>1
        <5> QED
          BY <5>1, <5>2 DEF LeftOut
      <4> QED
        BY <1>0, <1>1, <2>1, <3>2, <4>1
    <3> QED
      BY <1>0, <3>1, <3>2
  <2>4. \A p \in Reach : p \in Visited \cup omitted
    BY <1>0, <1>1, <2>1
  <2> HIDE DEF Reach
  <2> QED
    BY <2>2, <2>3, <2>4
<1>3. ASSUME NEW p \in Visited PROVE Far(p) = depthOf[p]
  <2>1. \A d \in 0..MaxDepth : p \in W[d] <=> depthOf[p] <= d
    BY <1>0, <1>1
  <2>2. depthOf[p] \in 0..MaxDepth
    BY <1>0
  <2>3. \A d \in 0..MaxDepth : Is(p, d) <=> d = depthOf[p]
    <3> SUFFICES ASSUME NEW d \in 0..MaxDepth PROVE Is(p, d) <=> d = depthOf[p]
      OBVIOUS
    <3>1. CASE d = 0
      BY <2>1, <2>2, <3>1
    <3>2. CASE d # 0
      <4>1. d - 1 \in 0..MaxDepth
        BY <1>0, <3>2
      <4>2. p \in W[d - 1] <=> depthOf[p] <= d - 1
        BY <2>1, <4>1
      <4> HIDE DEF W
      <4> QED
        BY <1>0, <2>1, <2>2, <3>2, <4>2
    <3> QED
      BY <3>1, <3>2
  <2>4. Far(p) = CHOOSE d \in 0..MaxDepth : Is(p, d)
    OBVIOUS
  <2> HIDE DEF Is, Far
  <2> QED
    BY <2>2, <2>3, <2>4
<1>4. ASSUME NEW p \in omitted
      PROVE  /\ Far(p) \in 0..MaxDepth /\ Far(p) >= depth
             /\ Far(p) = depth => p \in LeftOut
  <2> DEFINE T == {d \in 0..MaxDepth : p \in W[d]}
  <2>1. T \subseteq Nat /\ MaxDepth \in T
    BY <1>0, <1>2
  <2>2. PICK d \in T : \A e \in T : d <= e
    <3> HIDE DEF T
    <3> QED
      BY <2>1, LeastNumber
  <2>3. d \in 0..MaxDepth /\ Is(p, d)
    <3>1. d \in 0..MaxDepth /\ p \in W[d]
      BY <2>2
    <3>2. d # 0 => d - 1 \in 0..MaxDepth /\ d - 1 \notin T
      BY <1>0, <2>2, <3>1
    <3>3. d # 0 => p \notin W[d - 1]
      BY <3>2
    <3> QED
      BY <3>1, <3>3
  <2>4. Far(p) \in 0..MaxDepth /\ Is(p, Far(p))
    <3>1. Far(p) = CHOOSE e \in 0..MaxDepth : Is(p, e)
      OBVIOUS
    <3> HIDE DEF Is, Far
    <3> QED
      BY <2>3, <3>1
  <2>5. p \in W[Far(p)] /\ p \notin Visited
    BY <1>0, <2>4
  <2> HIDE DEF Far, W
  <2> QED
    BY <1>0, <1>1, <2>4, <2>5
<1>5. ASSUME NEW p \in omitted, NEW v \in Visited PROVE Before(v, p) /\ ~Before(p, v)
  <2>1. /\ Far(v) = depthOf[v] /\ depthOf[v] \in 0..MaxDepth /\ depthOf[v] <= depth
        /\ Far(p) \in 0..MaxDepth /\ Far(p) >= depth /\ (Far(p) = depth => p \in LeftOut)
        /\ v \in Nat /\ p \in Nat
    BY <1>0, <1>3, <1>4
  <2>2. ASSUME p \in LeftOut, depthOf[v] = depth PROVE v < p
    <3>1. PICK q \in Successes : depthOf[q] + 1 = depth /\ p \in Deps[q]
      BY <2>2 DEF LeftOut
    <3>2. depthOf[q] \in 0..MaxDepth
      BY EndFacts
    <3>3. depthOf[q] < depth
      BY <1>0, <3>1, <3>2
    <3>4. Followed(q, p)
      BY <3>1, <3>3, EndFacts
    <3>5. \A u \in Visited : depthOf[u] = depth => u < p
      BY <1>0, <3>4 DEF Followed
    <3> QED
      BY <2>2, <3>5
  <2> HIDE DEF Far
  <2> QED
    BY <1>0, <2>1, <2>2
<1>6. \A p \in Reach : p \in Visited <=> Cardinality(Ahead(p)) < MaxPackages
  <2>0. /\ Cardinality(Visited) \in Nat /\ Cardinality(Visited) <= MaxPackages
        /\ omitted # {} => Cardinality(Visited) = MaxPackages
    BY <1>0, PackageSets DEF CrawlInv, WavesInv, OmittedInv
  <2>1. ASSUME NEW p \in Visited PROVE Cardinality(Ahead(p)) < MaxPackages
    <3>1. ~Before(p, p)
      <4>1. Far(p) = depthOf[p] /\ depthOf[p] \in 0..MaxDepth /\ p \in Nat
        BY <1>0, <1>3
      <4> HIDE DEF Far
      <4> QED
        BY <4>1
    <3>2. Ahead(p) \subseteq Visited /\ p \notin Ahead(p)
      <4> HIDE DEF Before, Reach
      <4> QED
        BY <1>2, <1>5, <3>1
    <3>3. Cardinality(Ahead(p)) < Cardinality(Visited) /\ Cardinality(Ahead(p)) \in Nat
      <4> HIDE DEF Ahead
      <4> QED
        BY <1>0, <3>2, SubsetSize, PackageSets
    <3> HIDE DEF Ahead
    <3> QED
      BY <1>0, <2>0, <3>3
  <2>2. ASSUME NEW p \in omitted PROVE ~(Cardinality(Ahead(p)) < MaxPackages)
    <3>1. Visited \subseteq Ahead(p) /\ Ahead(p) \subseteq Packages
      <4> HIDE DEF Before, Reach
      <4> QED
        BY <1>0, <1>2, <1>5
    <3>2. Cardinality(Visited) <= Cardinality(Ahead(p)) /\ Cardinality(Ahead(p)) \in Nat
      <4> HIDE DEF Ahead
      <4> QED
        BY <3>1, SubsetSize, PackageSets
    <3>3. Cardinality(Visited) = MaxPackages
      BY <2>0
    <3> HIDE DEF Ahead
    <3> QED
      BY <1>0, <3>2, <3>3
  <2> HIDE DEF Ahead, Reach
  <2> QED
    BY <1>0, <1>2, <2>1, <2>2
<1>7. Visited = {p \in Reach : Cardinality(Ahead(p)) < MaxPackages}
  <2> HIDE DEF Ahead, Reach
  <2> QED
    BY <1>2, <1>6
<1>8. omitted = Reach \ Visited
  BY <1>0, <1>2
<1>9. \A p \in Visited : depthOf[p] = Far(p)
  BY <1>3
<1> QED
  BY <1>7, <1>8, <1>9 DEF SelectionIsDeterministic

(* Whatever the registry answers first, the packages of a crawl are those  *)
(* nearest to its roots, in the order of their names among the equally     *)
(* near, and what the cap left out is named.                               *)
THEOREM SelectionIsDeterministicHolds == CrawlSpec => []SelectionIsDeterministic
BY CrawlInvariant, SelectionAtEnd, PTL

-----------------------------------------------------------------------------
(* What a crawl answers                                                    *)

(* Nothing failed and nothing was left out: every declaration was          *)
(* followed.                                                               *)
LEMMA CompleteAtEnd ==
  ASSUME CrawlInv
  PROVE  CompletedHasAll
<1> SUFFICES ASSUME result = "completed" PROVE Within(Packages)[MaxDepth] \subseteq merged
  BY DEF CompletedHasAll
<1> DEFINE Right(d) == \A p \in Within(Packages)[d] : p \in Visited /\ depthOf[p] <= d
           G == {d \in 0..MaxDepth : Right(d)}
<1>0. /\ depth \in 0..MaxDepth /\ MaxDepth \in Nat /\ Visited \subseteq Packages
      /\ \A p \in Visited : depthOf[p] \in 0..MaxDepth /\ depthOf[p] <= depth
      /\ \A q \in Successes : depthOf[q] = depth /\ depth < MaxDepth =>
           Deps[q] \subseteq Visited \cup omitted
      /\ \A q \in Successes : depthOf[q] < depth => \A r \in Deps[q] : Followed(q, r)
      /\ InWave = {} /\ Visited # {}
  BY EndFacts
<1>1. /\ Of({"failed"}) = {} /\ omitted = {} /\ outcome = "batch" /\ pending = {}
      /\ merged \cup pending = Successes
  BY <1>0 DEF CrawlInv, EndInv
<1>2. Visited = Successes /\ merged = Successes
  <2>1. fetch \in [Packages -> {"unseen", "waiting", "fetching", "ok", "failed"}]
    BY DEF CrawlInv, CrawlTypeOK
  <2>2. \A p \in Visited : p \in Successes
    BY <1>0, <1>1, <2>1, StateSets
  <2> QED
    BY <1>1, <2>1, <2>2, StateSets
<1>3. Right(0)
  BY WithinUnfolds DEF Roots
<1>4. ASSUME NEW d \in 0..MaxDepth, d < MaxDepth, Right(d) PROVE Right(d + 1)
  <2> SUFFICES ASSUME NEW p \in Within(Packages)[d + 1]
               PROVE  p \in Visited /\ depthOf[p] <= d + 1
    OBVIOUS
  <2>1. \/ p \in Within(Packages)[d]
        \/ \E q \in Packages : q \in Within(Packages)[d] /\ p \in Deps[q]
    BY <1>4, WithinMore
  <2>2. CASE p \in Within(Packages)[d]
    <3>1. p \in Visited /\ depthOf[p] <= d /\ depthOf[p] \in 0..MaxDepth
      BY <1>0, <1>4, <2>2
    <3> QED
      BY <1>0, <3>1
  <2>3. CASE \E q \in Packages : q \in Within(Packages)[d] /\ p \in Deps[q]
    <3>1. PICK q \in Packages : q \in Within(Packages)[d] /\ p \in Deps[q]
      BY <2>3
    <3>2. /\ q \in Successes /\ depthOf[q] <= d /\ depthOf[q] \in 0..MaxDepth
          /\ depthOf[q] <= depth
      BY <1>0, <1>2, <1>4, <3>1
    <3>3. CASE depthOf[q] < depth
      <4>1. Followed(q, p)
        BY <1>0, <3>1, <3>2, <3>3
      <4>2. p \in Visited /\ depthOf[p] <= depthOf[q] + 1
        BY <1>1, <4>1 DEF Followed
      <4>3. depthOf[p] \in 0..MaxDepth
        BY <1>0, <4>2
      <4> QED
        BY <1>0, <3>2, <4>2, <4>3
    <3>4. CASE depthOf[q] = depth
      <4>1. depth < MaxDepth
        BY <1>0, <1>4, <3>2, <3>4
      <4>2. p \in Visited
        BY <1>0, <1>1, <3>1, <3>2, <3>4, <4>1
      <4>3. depthOf[p] \in 0..MaxDepth /\ depthOf[p] <= depth
        BY <1>0, <4>2
      <4> QED
        BY <1>0, <3>2, <3>4, <4>2, <4>3
    <3> QED
      BY <1>0, <3>2, <3>3, <3>4
  <2> QED
    BY <2>1, <2>2, <2>3
<1>5. 0..MaxDepth \subseteq G
  <2> HIDE DEF Right
  <2>1. 0 \in G
    BY <1>0, <1>3
  <2>2. \A d \in 0..MaxDepth : d \in G /\ d < MaxDepth => d + 1 \in G
    <3>1. \A d \in 0..MaxDepth : d < MaxDepth => d + 1 \in 0..MaxDepth
      BY <1>0
    <3> QED
      BY <1>4, <3>1
  <2> HIDE DEF G
  <2> QED
    BY <2>1, <2>2, OverDepths
<1>6. MaxDepth \in G
  BY <1>0, <1>5
<1> QED
  BY <1>2, <1>6

(* A merge of what collectors validated is refused only for what two of    *)
(* the collected packages say.                                             *)
LEMMA NothingLostAtEnd ==
  ASSUME CrawlInv
  PROVE  NothingCollectedIsLost
<1>1. ASSUME result \in {"completed", "partially-completed"} PROVE merged = Successes
  <2>1. Visited # {} /\ outcome = "batch"
    BY <1>1 DEF CrawlInv, EndInv
  <2> QED
    BY <2>1 DEF CrawlInv, EndInv
<1>2. result = "failed" => Successes = {}
  BY DEF CrawlInv, EndInv
<1>3. ASSUME result = "rejected"
      PROVE  \E p, q \in Successes, n \in Names :
               Both(Content[p], Content[q], n) /\ Clash(Content[p][n], Content[q][n])
  <2>1. /\ Visited # {} /\ outcome \in {"conflict", "invalid"}
        /\ merged \cup pending = Successes /\ Successes \subseteq Packages
    BY <1>3 DEF CrawlInv, EndInv, Successes, Of
  <2>2. outcome # "invalid"
    <3> SUFFICES ASSUME outcome = "invalid" PROVE FALSE
      OBVIOUS
    <3>1. \A f \in merged : Valid(Content[f])
      BY <2>1, CollectedAssumption
    <3>2. MergeInv /\ ~Valid(graph)
      BY DEF CrawlInv, MergeInv
    <3> QED
      BY <3>1, <3>2, JoinOfValid
  <2>3. outcome = "conflict"
    BY <2>1, <2>2
  <2>4. PICK n \in Names : ~Consistent(Said(n, merged))
    BY <2>3 DEF CrawlInv, MergeInv
  <2>5. PICK a \in Said(n, merged), b \in Said(n, merged) : Clash(a, b)
    BY <2>4 DEF Consistent
  <2>6. PICK p \in merged : a = Content[p][n] /\ Content[p][n] # Absent
    BY DEF Said
  <2>7. PICK q \in merged : b = Content[q][n] /\ Content[q][n] # Absent
    BY DEF Said
  <2>8. p \in Successes /\ q \in Successes
    BY <2>1
  <2>9. Both(Content[p], Content[q], n)
    BY <2>6, <2>7 DEF Both
  <2> QED
    BY <2>5, <2>6, <2>7, <2>8, <2>9
<1> QED
  BY <1>1, <1>2, <1>3 DEF NothingCollectedIsLost

(* The batch of a crawl is all that was collected, and called complete     *)
(* only if it holds everything within the depth of the crawl; a crawl is   *)
(* refused only because two packages contradict each other.                *)
THEOREM BatchIsWhatWasCollectedHolds == CrawlSpec => []BatchIsWhatWasCollected
<1>1. CrawlInv => BatchIsWhatWasCollected
  BY CompleteAtEnd, NothingLostAtEnd DEF BatchIsWhatWasCollected
<1> QED
  BY CrawlInvariant, <1>1, PTL

(* Whatever a crawl merges, it merges right: what its fragments say        *)
(* together, or a refusal for what two of them say.                        *)
THEOREM CrawlMergesRight == CrawlSpec => []MergedOrRefused
<1>1. CrawlInv => MergedOrRefused
  <2> SUFFICES ASSUME CrawlInv PROVE MergedOrRefused
    OBVIOUS
  <2>1. MergeInv /\ MergedIsJoin
    BY DEF CrawlInv, MergeInv
  <2>2. FailsClosed
    BY <2>1 DEF MergeInv, FailsClosed, Consistent
  <2>3. ValidityPreserved
    BY <2>1, JoinOfValid DEF MergeInv, ValidityPreserved
  <2> QED
    BY <2>1, <2>2, <2>3 DEF MergedOrRefused
<1> QED
  BY CrawlInvariant, <1>1, PTL

=============================================================================
