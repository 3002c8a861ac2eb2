---------------------------- MODULE AnalysisProofs ----------------------------
(***************************************************************************)
(* Proofs about the analyses of the API.                                   *)
(*                                                                         *)
(* The live analysis: bounded reads of a graph that is being written give  *)
(* paths that are there, all of them unless the answer says otherwise, and *)
(* say no more of them than the evidence that was read.                    *)
(*                                                                         *)
(* The analyses of a batch: what a containment plan is said to remove is   *)
(* what it cuts, and the authority that is reported is backed.             *)
(*                                                                         *)
(* The investigations of a package and of a finding: lists and ways that   *)
(* are put together of many reads, with rows written and written over      *)
(* between any two, show what is real and leave out what is at a limit.    *)
(***************************************************************************)
EXTENDS AnalysisRoutes, ReleaseFirewallProofs

-----------------------------------------------------------------------------
(* InOrder lists a finite set of numbers.                                  *)
LEMMA OrderFacts ==
  ASSUME NEW S, IsFiniteSet(S), S \subseteq Nat
  PROVE  /\ InOrder(S) \in Seq(S) /\ Range(InOrder(S)) = S
         /\ Len(InOrder(S)) = Cardinality(S) /\ OnceOnly(InOrder(S))
<1> DEFINE B == {p \in S \X S : p[1] < p[2]}
           q == InOrder(S)
<1>1. \A m, n \in S : <<m, n>> \in B <=> m < n
  OBVIOUS
<1>2. \A k, m, n \in S : k \in Nat /\ m \in Nat /\ n \in Nat
  OBVIOUS
<1> HIDE DEF B
<1>3. StrictOrder(B, S)
  BY <1>1, <1>2 DEF StrictOrder
<1>4. \A n \in S : BelowIn(B, S, n) = {m \in S : m < n}
  BY <1>1 DEF BelowIn
<1> DEFINE Below(n) == {m \in S : m < n}
           size == Cardinality(S)
<1>5. q = [i \in 1..size |-> CHOOSE n \in S : Cardinality(Below(n)) = i - 1]
  BY DEF InOrder
<1> HIDE DEF q
<1>6. \A i \in 1..size : (\E n \in S : Cardinality(Below(n)) = i - 1)
         => q[i] \in S /\ Cardinality(Below(q[i])) = i - 1
  <2> TAKE i \in 1..size
  <2>1. q[i] = CHOOSE n \in S : Cardinality(Below(n)) = i - 1
    BY <1>5
  <2> HIDE DEF Below, size
  <2> QED
    BY <2>1
<1>7. q = [i \in 1..size |-> q[i]]
  <2> DEFINE at(i) == CHOOSE n \in S : Cardinality(Below(n)) = i - 1
  <2>1. q = [i \in 1..size |-> at(i)]
    BY <1>5
  <2> HIDE DEF at, size
  <2> QED
    BY <2>1
<1>8. RankedBy(B, S, q)
  BY <1>4, <1>6, <1>7 DEF RankedBy
<1>9. q \in Seq(S) /\ Range(q) = S /\ Len(q) = Cardinality(S) /\ OnceOnly(q)
  BY <1>3, <1>8, RankFacts
<1> QED
  BY <1>9 DEF q

(* The reference of the searches: the simple paths of a graph.             *)
IsSearchGraph(g) ==
  /\ g.nodes \in SUBSET Nodes /\ g.starts \subseteq g.nodes
  /\ \/ g.from = Source /\ g.to = Target
     \/ g.from = Target /\ g.to = Source

Origins(g) == {Item(r, r, <<>>) : r \in g.starts}
Extended(g, item, e) == Item(item.root, g.to[e], Append(item.path, e))

LEMMA PathsByLength ==
  ASSUME NEW g, IsSearchGraph(g)
  PROVE  /\ Cardinality(g.nodes) \in Nat
         /\ \E U : /\ U[0] = Origins(g)
                   /\ \A k \in 1..Cardinality(g.nodes) : U[k] = U[k - 1] \cup Longer(g, U[k - 1])
                   /\ PathsOf(g) = U[Cardinality(g.nodes)]
<1> DEFINE N == Cardinality(g.nodes)
           B == Origins(g)
           F(f, n) == [k \in 0..n |-> IF k = 0 THEN B
                                      ELSE LET shorter == f[k - 1] IN shorter \cup Longer(g, shorter)]
           G == {n \in 0..N : \E f : f = F(f, n)}
<1>1. N \in Nat
  <2>1. g.nodes \in SUBSET Nodes /\ IsFiniteSet(Nodes)
    BY GraphAssumption DEF IsSearchGraph
  <2> QED
    BY <2>1, FS_Subset, FS_CardinalityType
<1> HIDE DEF N, B
<1>2. 0 \in G
  <2> DEFINE f == [k \in 0..0 |-> B]
  <2>0. \A k \in 0..0 : k = 0
    OBVIOUS
  <2>1. f = F(f, 0)
    BY <2>0
  <2>2. 0 \in 0..N
    BY <1>1
  <2> QED
    BY <2>1, <2>2
<1>3. ASSUME NEW n \in 0..N, n \in G, n < N PROVE n + 1 \in G
  <2>1. PICK f : f = F(f, n)
    BY <1>3
  <2> DEFINE h == [k \in 0..(n + 1) |-> IF k <= n THEN f[k] ELSE f[n] \cup Longer(g, f[n])]
  <2>2. \A k \in 0..n : f[k] = IF k = 0 THEN B ELSE f[k - 1] \cup Longer(g, f[k - 1])
    <3> TAKE k \in 0..n
    <3>1. F(f, n)[k] = IF k = 0 THEN B ELSE f[k - 1] \cup Longer(g, f[k - 1])
      OBVIOUS
    <3> QED
      BY <2>1, <3>1
  <2>3. \A k \in 0..(n + 1) : h[k] = IF k = 0 THEN B ELSE h[k - 1] \cup Longer(g, h[k - 1])
    <3> TAKE k \in 0..(n + 1)
    <3>1. CASE k = 0
      <4>1. 0 \in 0..n /\ 0 \in 0..(n + 1) /\ 0 <= n
        BY <1>1
      <4>2. f[0] = B
        BY <4>1, <2>2
      <4>3. h[0] = f[0]
        BY <4>1
      <4> QED
        BY <3>1, <4>2, <4>3
    <3>2. CASE k # 0 /\ k <= n
      <4>1. k \in 0..n /\ k - 1 \in 0..(n + 1) /\ k - 1 <= n
        BY <3>2, <1>1
      <4>2. h[k] = f[k] /\ h[k - 1] = f[k - 1]
        BY <3>2, <4>1
      <4> QED
        BY <3>2, <4>1, <4>2, <2>2
    <3>3. CASE k = n + 1
      <4>1. ~(k <= n) /\ k - 1 = n /\ n \in 0..(n + 1) /\ k # 0 /\ n <= n
        BY <3>3, <1>1
      <4>2. h[k] = f[n] \cup Longer(g, f[n]) /\ h[k - 1] = f[n]
        BY <4>1
      <4> QED
        BY <4>1, <4>2
    <3> QED
      BY <3>1, <3>2, <3>3
  <2>4. h = F(h, n + 1)
    <3> HIDE DEF h
    <3>1. h = [k \in 0..(n + 1) |-> h[k]]
      BY DEF h
    <3> QED
      BY <2>3, <3>1
  <2>5. n + 1 \in 0..N
    BY <1>1, <1>3
  <2> QED
    BY <2>4, <2>5
<1>4. N \in G
  <2> HIDE DEF G
  <2>1. 0..N \subseteq G
    BY <1>1, <1>2, <1>3, UpTo
  <2>2. N \in 0..N
    BY <1>1
  <2> QED
    BY <2>1, <2>2
<1> DEFINE U == CHOOSE f : f = F(f, N)
<1>5. U = F(U, N)
  <2>1. \E f : f = F(f, N)
    BY <1>4
  <2> QED
    BY <2>1
<1>6. PathsOf(g) = U[N]
  BY DEF PathsOf, Origins, N, B
<1> HIDE DEF U
<1>7. U[0] = B
  BY <1>1, <1>5
<1>8. \A k \in 1..N : U[k] = U[k - 1] \cup Longer(g, U[k - 1])
  <2> TAKE k \in 1..N
  <2>1. k \in 0..N /\ k # 0
    BY <1>1
  <2>2. F(U, N)[k] = U[k - 1] \cup Longer(g, U[k - 1])
    BY <2>1
  <2> QED
    BY <1>5, <2>2
<1> QED
  BY <1>1, <1>6, <1>7, <1>8 DEF N, B
(* A path of that kind meets no node twice.                                *)
SoundPath(g, p) ==
  /\ p = Item(p.root, p.node, p.path)
  /\ p.root \in g.starts
  /\ p.path \in Seq(g.steps) /\ (p.path = <<>> => p.node = p.root)
  /\ p.node \in PathNodes(p) /\ PathNodes(p) \subseteq g.nodes
  /\ IsFiniteSet(PathNodes(p)) /\ Cardinality(PathNodes(p)) = Len(p.path) + 1

LEMMA OriginsAreSound ==
  ASSUME NEW g, IsSearchGraph(g), NEW p \in Origins(g)
  PROVE  SoundPath(g, p) /\ p.path = <<>>
<1>1. PICK r \in g.starts : p = Item(r, r, <<>>)
  BY DEF Origins
<1>2. p.root = r /\ p.node = r /\ p.path = <<>>
  BY <1>1 DEF Item
<1>3. PathNodes(p) = {r} /\ r \in g.nodes
  BY <1>2, EmptySequence DEF PathNodes, IsSearchGraph
<1>4. IsFiniteSet({r}) /\ Cardinality({r}) = 1
  BY FS_Singleton
<1>5. p = Item(p.root, p.node, p.path)
  BY <1>1, <1>2
<1>6. Len(p.path) + 1 = 1 /\ p.path \in Seq(g.steps)
  BY <1>2, EmptySequence
<1> QED
  BY <1>1, <1>2, <1>3, <1>4, <1>5, <1>6 DEF SoundPath

LEMMA ExtendedPath ==
  ASSUME NEW g, IsSearchGraph(g), NEW E, NEW p, p.path \in Seq(E), NEW e,
         g.from[e] \in PathNodes(p)
  PROVE  /\ Extended(g, p, e) = Item(p.root, g.to[e], Append(p.path, e))
         /\ Extended(g, p, e).root = p.root /\ Extended(g, p, e).node = g.to[e]
         /\ Extended(g, p, e).path = Append(p.path, e)
         /\ Extended(g, p, e).path \in Seq(E \cup {e}) /\ Extended(g, p, e).path # <<>>
         /\ Len(Extended(g, p, e).path) = Len(p.path) + 1 /\ Len(p.path) \in Nat
         /\ PathNodes(Extended(g, p, e)) = PathNodes(p) \cup {g.to[e]}
         /\ Range(Extended(g, p, e).path) = Range(p.path) \cup {e}
<1> DEFINE q == Append(p.path, e)
           n == Extended(g, p, e)
<1>1. /\ n = Item(p.root, g.to[e], q)
      /\ n.root = p.root /\ n.node = g.to[e] /\ n.path = q
  BY DEF Extended, Item
<1>2. p.path \in Seq(E \cup {e}) /\ e \in E \cup {e}
  BY SequenceRange
<1>3. /\ q \in Seq(E \cup {e}) /\ q # <<>>
      /\ Len(q) = Len(p.path) + 1
      /\ Range(q) = Range(p.path) \cup {e}
  BY <1>2, AppendFacts
<1>4. Len(p.path) \in Nat
  OBVIOUS
<1>5. /\ PathNodes(p) = {p.root} \cup {Source[d] : d \in Range(p.path)} \cup {Target[d] : d \in Range(p.path)}
      /\ PathNodes(n) = {p.root} \cup {Source[d] : d \in Range(q)} \cup {Target[d] : d \in Range(q)}
  BY <1>1 DEF PathNodes, Range
<1>6. PathNodes(n) = PathNodes(p) \cup {Source[e], Target[e]}
  BY <1>3, <1>5
<1>7. {Source[e], Target[e]} = {g.from[e], g.to[e]}
  BY DEF IsSearchGraph
<1>8. PathNodes(n) = PathNodes(p) \cup {g.to[e]}
  BY <1>6, <1>7
<1> HIDE DEF q, n
<1> QED
  BY <1>1, <1>3, <1>4, <1>8 DEF n, q

LEMMA StepIsSound ==
  ASSUME NEW g, IsSearchGraph(g), NEW p, SoundPath(g, p), NEW e \in StepsOf(g, p)
  PROVE  /\ SoundPath(g, Extended(g, p, e))
         /\ Len(Extended(g, p, e).path) = Len(p.path) + 1 /\ Len(p.path) \in Nat
         /\ Extended(g, p, e).path # <<>>
<1> DEFINE n == Extended(g, p, e)
<1>1. /\ p.path \in Seq(g.steps) /\ p.node \in PathNodes(p) /\ PathNodes(p) \subseteq g.nodes
      /\ IsFiniteSet(PathNodes(p)) /\ Cardinality(PathNodes(p)) = Len(p.path) + 1
      /\ p.root \in g.starts
  BY DEF SoundPath
<1>2. e \in g.steps /\ g.from[e] = p.node /\ g.to[e] \in g.nodes /\ g.to[e] \notin PathNodes(p)
  BY DEF StepsOf
<1>3. g.steps \cup {e} = g.steps
  BY <1>2
<1>4. /\ n = Item(p.root, g.to[e], Append(p.path, e))
      /\ n.root = p.root /\ n.node = g.to[e] /\ n.path = Append(p.path, e)
      /\ n.path \in Seq(g.steps) /\ n.path # <<>>
      /\ Len(n.path) = Len(p.path) + 1 /\ Len(p.path) \in Nat
      /\ PathNodes(n) = PathNodes(p) \cup {g.to[e]}
  <2>1. g.from[e] \in PathNodes(p)
    BY <1>1, <1>2
  <2> HIDE DEF n
  <2> QED
    BY <1>1, <1>3, <2>1, ExtendedPath DEF n
<1> HIDE DEF n
<1>5. IsFiniteSet(PathNodes(n)) /\ Cardinality(PathNodes(n)) = Cardinality(PathNodes(p)) + 1
  <2> DEFINE P == PathNodes(p)
  <2>1. IsFiniteSet(P) /\ g.to[e] \notin P
    BY <1>1, <1>2
  <2> HIDE DEF P
  <2>2. IsFiniteSet(P \cup {g.to[e]}) /\ Cardinality(P \cup {g.to[e]}) = Cardinality(P) + 1
    BY <2>1, FS_AddElement
  <2> QED
    BY <1>4, <2>2 DEF P
<1> QED
  BY <1>1, <1>2, <1>4, <1>5 DEF SoundPath, n

(* The three facts the searches are compared by.  What starts a path, what *)
(* continues one, and that there is nothing else.                          *)
LEMMA PathsFacts ==
  ASSUME NEW g, IsSearchGraph(g)
  PROVE  /\ Origins(g) \subseteq PathsOf(g)
         /\ \A p \in PathsOf(g) : SoundPath(g, p)
         /\ \A p \in PathsOf(g) : \A e \in StepsOf(g, p) :
              p.node \notin g.last => Extended(g, p, e) \in PathsOf(g)
         /\ \A G : /\ Origins(g) \subseteq G
                   /\ \A p \in PathsOf(g) : \A e \in StepsOf(g, p) :
                        p \in G /\ p.node \notin g.last => Extended(g, p, e) \in G
                   => PathsOf(g) \subseteq G
<1> DEFINE N == Cardinality(g.nodes)
           B == Origins(g)
           W == PathsOf(g)
           L(paths) == Longer(g, paths)
<1>0. N \in Nat /\ IsFiniteSet(g.nodes)
  <2>1. g.nodes \in SUBSET Nodes /\ IsFiniteSet(Nodes)
    BY GraphAssumption DEF IsSearchGraph
  <2> QED
    BY <2>1, FS_Subset, FS_CardinalityType
<1>1. PICK U : U[0] = B /\ (\A k \in 1..N : U[k] = U[k - 1] \cup L(U[k - 1])) /\ W = U[N]
  BY PathsByLength
<1>2. \A paths, q : q \in L(paths) <=>
        \E p \in paths : p.node \notin g.last /\ \E e \in StepsOf(g, p) : q = Extended(g, p, e)
  BY DEF Longer, Extended
<1> HIDE DEF N, B, W, L
<1>3. \A k \in 0..N : k < N => k + 1 \in 1..N /\ (k + 1) - 1 = k
  BY <1>0
<1>4. \A k \in 0..N : k < N => U[k + 1] = U[k] \cup L(U[k])
  BY <1>1, <1>3
<1>5. \A k \in 0..N : U[k] \subseteq W
  <2> DEFINE G == {j \in 0..N : U[N - j] \subseteq W}
  <2>1. 0 \in G
    BY <1>0, <1>1
  <2>2. ASSUME NEW j \in 0..N, j \in G, j < N PROVE j + 1 \in G
    <3>1. /\ N - (j + 1) \in 0..N /\ N - (j + 1) < N /\ (N - (j + 1)) + 1 = N - j /\ j + 1 \in 0..N
      BY <1>0, <2>2
    <3>2. U[N - j] = U[N - (j + 1)] \cup L(U[N - (j + 1)])
      BY <1>4, <3>1
    <3> QED
      BY <2>2, <3>1, <3>2
  <2>3. 0..N \subseteq G
    <3> HIDE DEF G
    <3> QED
      BY <1>0, <2>1, <2>2, UpTo
  <2> TAKE k \in 0..N
  <2>4. N - k \in 0..N /\ N - (N - k) = k
    BY <1>0
  <2>5. N - k \in G
    BY <2>3, <2>4
  <2> QED
    BY <2>4, <2>5
<1>6. ASSUME NEW G, B \subseteq G,
             \A p \in W : \A e \in StepsOf(g, p) :
               p \in G /\ p.node \notin g.last => Extended(g, p, e) \in G
      PROVE  \A k \in 0..N : U[k] \subseteq G
  <2> DEFINE K == {k \in 0..N : U[k] \subseteq G}
  <2>1. 0 \in K
    BY <1>0, <1>1, <1>6
  <2>2. ASSUME NEW k \in 0..N, k \in K, k < N PROVE k + 1 \in K
    <3>1. U[k] \subseteq G /\ U[k] \subseteq W
      BY <1>5, <2>2
    <3>2. L(U[k]) \subseteq G
      BY <1>2, <1>6, <3>1
    <3>3. U[k + 1] \subseteq G /\ k + 1 \in 0..N
      BY <1>0, <1>4, <2>2, <3>1, <3>2
    <3> QED
      BY <3>3
  <2>3. 0..N \subseteq K
    <3> HIDE DEF K
    <3> QED
      BY <1>0, <2>1, <2>2, UpTo
  <2> QED
    BY <2>3
<1>7. \A G : /\ B \subseteq G
             /\ \A p \in W : \A e \in StepsOf(g, p) :
                  p \in G /\ p.node \notin g.last => Extended(g, p, e) \in G
             => W \subseteq G
  <2>1. N \in 0..N
    BY <1>0
  <2> QED
    BY <1>1, <1>6, <2>1
<1>8. \A p \in W : SoundPath(g, p)
  <2>1. \A k \in 0..N : \A p \in U[k] : SoundPath(g, p)
    <3> DEFINE K == {k \in 0..N : \A p \in U[k] : SoundPath(g, p)}
    <3>1. 0 \in K
      BY <1>0, <1>1, OriginsAreSound DEF B
    <3>2. ASSUME NEW k \in 0..N, k \in K, k < N PROVE k + 1 \in K
      <4>1. \A p \in L(U[k]) : SoundPath(g, p)
        BY <1>2, <3>2, StepIsSound
      <4>2. k + 1 \in 0..N
        BY <1>0, <3>2
      <4> QED
        BY <1>4, <3>2, <4>1, <4>2
    <3>3. 0..N \subseteq K
      <4> HIDE DEF K
      <4> QED
        BY <1>0, <3>1, <3>2, UpTo
    <3> QED
      BY <3>3
  <2>2. N \in 0..N
    BY <1>0
  <2> QED
    BY <1>1, <2>1, <2>2
<1>9. B \subseteq W
  <2>1. 0 \in 0..N
    BY <1>0
  <2> QED
    BY <1>1, <1>5, <2>1
<1>10. ASSUME NEW p \in W, NEW e \in StepsOf(g, p), p.node \notin g.last
       PROVE  Extended(g, p, e) \in W
  (* A path of N edges would have more nodes than there are.               *)
  <2>3. \A j \in 0..N : \A q \in U[j] : q \in U[Len(q.path)] /\ Len(q.path) \in 0..j
    <3> DEFINE K == {j \in 0..N : \A q \in U[j] : q \in U[Len(q.path)] /\ Len(q.path) \in 0..j}
    <3>1. 0 \in K
      <4>1. \A q \in B : Len(q.path) = 0
        BY OriginsAreSound, EmptySequence DEF B
      <4>2. 0 \in 0..N /\ 0 \in 0..0
        BY <1>0
      <4> QED
        BY <1>1, <4>1, <4>2
    <3>2. ASSUME NEW j \in 0..N, j \in K, j < N PROVE j + 1 \in K
      <4>1. ASSUME NEW q \in L(U[j]) PROVE q \in U[Len(q.path)] /\ Len(q.path) \in 0..(j + 1)
        <5>1. PICK r \in U[j] : r.node \notin g.last /\ \E d \in StepsOf(g, r) : q = Extended(g, r, d)
          BY <1>2
        <5>2. PICK d \in StepsOf(g, r) : q = Extended(g, r, d)
          BY <5>1
        <5>3. SoundPath(g, r)
          BY <1>5, <1>8
        <5>4. Len(Extended(g, r, d).path) = Len(r.path) + 1
          BY <5>3, StepIsSound
        <5>5. Len(q.path) = Len(r.path) + 1
          BY <5>2, <5>4
        <5>6. r \in U[Len(r.path)] /\ Len(r.path) \in 0..j
          BY <3>2
        <5>7. Len(r.path) \in 0..N /\ Len(r.path) < N /\ Len(r.path) + 1 \in 0..(j + 1)
          BY <1>0, <3>2, <5>6
        <5>8. q \in L(U[Len(r.path)])
          BY <1>2, <5>1, <5>6
        <5>9. q \in U[Len(r.path) + 1]
          BY <1>4, <5>7, <5>8
        <5> QED
          BY <5>5, <5>7, <5>9
      <4>2. ASSUME NEW q \in U[j] PROVE q \in U[Len(q.path)] /\ Len(q.path) \in 0..(j + 1)
        <5>1. q \in U[Len(q.path)] /\ Len(q.path) \in 0..j
          BY <3>2
        <5> QED
          BY <5>1
      <4>3. j + 1 \in 0..N /\ U[j + 1] = U[j] \cup L(U[j])
        BY <1>0, <1>4, <3>2
      <4> QED
        BY <4>1, <4>2, <4>3
    <3>3. 0..N \subseteq K
      <4> HIDE DEF K
      <4> QED
        BY <1>0, <3>1, <3>2, UpTo
    <3> QED
      BY <3>3
  <2>4. p \in U[Len(p.path)] /\ Len(p.path) \in 0..N
    <3>1. N \in 0..N
      BY <1>0
    <3> QED
      BY <1>1, <2>3, <3>1
  <2>5. Len(p.path) < N
    <3>1. SoundPath(g, p)
      BY <1>8
    <3>2. PathNodes(p) \subseteq g.nodes /\ Cardinality(PathNodes(p)) = Len(p.path) + 1
      BY <3>1 DEF SoundPath
    <3>3. Cardinality(PathNodes(p)) <= N
      BY <1>0, <3>2, SubsetSize DEF N
    <3> QED
      BY <1>0, <2>4, <3>2, <3>3
  <2>6. Extended(g, p, e) \in L(U[Len(p.path)])
    BY <1>2, <1>10, <2>4
  <2>7. Extended(g, p, e) \in U[Len(p.path) + 1]
    BY <1>4, <2>4, <2>5, <2>6
  <2>8. Len(p.path) + 1 \in 0..N
    BY <1>0, <2>4, <2>5
  <2> QED
    BY <1>5, <2>7, <2>8
<1> QED
  BY <1>7, <1>8, <1>9, <1>10 DEF B, W

-----------------------------------------------------------------------------
(* The blast radius: the paths against DEPENDS_ON, before those that end   *)
(* at a service are picked.                                                *)
Begun(view, roots) ==
  {Item(r, r, <<>>) : r \in {n \in roots \cap view.nodes : NodeKind[n] = "PackageVersion"}}
Hops(view, item) ==
  {e \in view.edges : /\ EdgeKind[e] = "DEPENDS_ON" /\ Target[e] = item.node
                      /\ Source[e] \in view.nodes \ PathNodes(item)}
Next1(item, e) == Item(item.root, Source[e], Append(item.path, e))
DependencyWays(view, roots) == PathsOf(DependencyGraph(view, roots))

LEMMA PathsAreWays ==
  ASSUME NEW view, NEW roots
  PROVE  DependencyPaths(view, roots) = {i \in DependencyWays(view, roots) : NodeKind[i.node] = "Service"}
BY DEF DependencyPaths, DependencyWays

LEMMA DependencyIsGraph ==
  ASSUME NEW view \in Views, NEW roots
  PROVE  /\ IsSearchGraph(DependencyGraph(view, roots))
         /\ Origins(DependencyGraph(view, roots)) = Begun(view, roots)
         /\ \A p : StepsOf(DependencyGraph(view, roots), p) = Hops(view, p)
         /\ \A p, e : Extended(DependencyGraph(view, roots), p, e) = Next1(p, e)
         /\ \A n \in view.nodes :
              n \in DependencyGraph(view, roots).last <=> NodeKind[n] = "Service"
<1>1. IsSearchGraph(DependencyGraph(view, roots))
  BY DEF IsSearchGraph, DependencyGraph, Views
<1>2. Origins(DependencyGraph(view, roots)) = Begun(view, roots)
  BY DEF Origins, DependencyGraph, Begun
<1>3. \A p : StepsOf(DependencyGraph(view, roots), p) = Hops(view, p)
  BY DEF StepsOf, DependencyGraph, Hops
<1>4. \A p, e : Extended(DependencyGraph(view, roots), p, e) = Next1(p, e)
  BY DEF Extended, DependencyGraph, Next1
<1>5. \A n \in view.nodes : n \in DependencyGraph(view, roots).last <=> NodeKind[n] = "Service"
  BY DEF DependencyGraph
<1> QED
  BY <1>1, <1>2, <1>3, <1>4, <1>5

Hoppable(view) == {e \in view.edges : EdgeKind[e] = "DEPENDS_ON" /\ Source[e] \in view.nodes}
SoundWay(view, roots, p) ==
  /\ p = Item(p.root, p.node, p.path)
  /\ p.root \in roots \cap view.nodes /\ NodeKind[p.root] = "PackageVersion"
  /\ p.path \in Seq(Hoppable(view)) /\ (p.path = <<>> => p.node = p.root)
  /\ p.node \in PathNodes(p) /\ PathNodes(p) \subseteq view.nodes
  /\ IsFiniteSet(PathNodes(p)) /\ Cardinality(PathNodes(p)) = Len(p.path) + 1

LEMMA WaysFacts ==
  ASSUME NEW view \in Views, NEW roots
  PROVE  /\ Begun(view, roots) \subseteq DependencyWays(view, roots)
         /\ \A p \in DependencyWays(view, roots) : SoundWay(view, roots, p)
         /\ \A p \in DependencyWays(view, roots) : \A e \in Hops(view, p) :
              NodeKind[p.node] # "Service" => Next1(p, e) \in DependencyWays(view, roots)
         /\ \A G : /\ Begun(view, roots) \subseteq G
                   /\ \A p \in DependencyWays(view, roots) : \A e \in Hops(view, p) :
                        p \in G /\ NodeKind[p.node] # "Service" => Next1(p, e) \in G
                   => DependencyWays(view, roots) \subseteq G
<1> DEFINE g == DependencyGraph(view, roots)
           W == PathsOf(g)
<1>1. /\ IsSearchGraph(g) /\ Origins(g) = Begun(view, roots)
      /\ \A p : StepsOf(g, p) = Hops(view, p)
      /\ \A p, e : Extended(g, p, e) = Next1(p, e)
      /\ \A n \in view.nodes : n \in g.last <=> NodeKind[n] = "Service"
  BY DependencyIsGraph
<1>2. /\ g.nodes = view.nodes /\ g.steps = {e \in view.edges : EdgeKind[e] = "DEPENDS_ON"}
      /\ g.starts = {n \in roots \cap view.nodes : NodeKind[n] = "PackageVersion"}
  BY DEF DependencyGraph
<1>w. W = DependencyWays(view, roots)
  BY DEF DependencyWays
<1> HIDE DEF g
<1>3. /\ Origins(g) \subseteq W
      /\ \A p \in W : SoundPath(g, p)
      /\ \A p \in W : \A e \in StepsOf(g, p) : p.node \notin g.last => Extended(g, p, e) \in W
      /\ \A G : /\ Origins(g) \subseteq G
                /\ \A p \in W : \A e \in StepsOf(g, p) :
                     p \in G /\ p.node \notin g.last => Extended(g, p, e) \in G
                => W \subseteq G
  BY <1>1, PathsFacts
<1> HIDE DEF W
<1>4. \A p \in W : p.node \in view.nodes
  BY <1>2, <1>3 DEF SoundPath
<1>5. \A p \in W : SoundWay(view, roots, p)
  <2> SUFFICES ASSUME NEW p \in W PROVE SoundWay(view, roots, p)
    OBVIOUS
  <2>1. SoundPath(g, p)
    BY <1>3
  <2>2. p.path \in Seq(Hoppable(view))
    <3>1. p.path \in Seq(g.steps) /\ PathNodes(p) \subseteq view.nodes
      BY <1>2, <2>1 DEF SoundPath
    <3>2. Range(p.path) \subseteq Hoppable(view)
      BY <1>2, <3>1 DEF Range, PathNodes, Hoppable
    <3> QED
      BY <3>1, <3>2, SequenceRange
  <2> QED
    BY <1>2, <2>1, <2>2 DEF SoundPath, SoundWay
<1>6. \A p \in W : \A e \in Hops(view, p) : NodeKind[p.node] # "Service" => Next1(p, e) \in W
  BY <1>1, <1>3, <1>4
<1>7. ASSUME NEW G, Begun(view, roots) \subseteq G,
             \A p \in W : \A e \in Hops(view, p) :
               p \in G /\ NodeKind[p.node] # "Service" => Next1(p, e) \in G
      PROVE  W \subseteq G
  <2>1. \A p \in W : \A e \in StepsOf(g, p) : p \in G /\ p.node \notin g.last => Extended(g, p, e) \in G
    BY <1>1, <1>4, <1>7
  <2> QED
    BY <1>1, <1>3, <1>7, <2>1
<1> QED
  BY <1>1, <1>3, <1>5, <1>6, <1>7, <1>w

(* What hiding nodes and edges of a graph leaves: the paths that meet none *)
(* of them, and only those.                                                *)
Without(g, h, nodes, hops) ==
  /\ h.from = g.from /\ h.to = g.to
  /\ h.nodes = g.nodes \ nodes /\ h.starts = g.starts \ nodes
  /\ \A n \in h.nodes : n \in h.last <=> n \in g.last
  /\ h.steps \subseteq g.steps \ hops
  /\ \A e \in g.steps \ hops : {Source[e], Target[e]} \subseteq h.nodes => e \in h.steps

Intact(p, nodes, hops) == PathNodes(p) \cap nodes = {} /\ Range(p.path) \cap hops = {}

LEMMA ExtendedRange ==
  ASSUME NEW g, NEW p, NEW e \in g.steps, p.path \in Seq(g.steps)
  PROVE  Range(Extended(g, p, e).path) = Range(p.path) \cup {e}
<1> DEFINE E == g.steps
           q == p.path
<1>1. Extended(g, p, e).path = Append(q, e)
  BY DEF Extended, Item
<1>2. e \in E /\ q \in Seq(E)
  OBVIOUS
<1> HIDE DEF E, q
<1>3. Range(Append(q, e)) = Range(q) \cup {e}
  BY <1>2, AppendFacts
<1> QED
  BY <1>1, <1>3 DEF q

LEMMA HidingCuts ==
  ASSUME NEW g, IsSearchGraph(g), NEW h, NEW nodes, NEW hops, Without(g, h, nodes, hops)
  PROVE  PathsOf(h) = {p \in PathsOf(g) : Intact(p, nodes, hops)}
<1>1. IsSearchGraph(h)
  BY DEF IsSearchGraph, Without
<1>2. /\ Origins(g) \subseteq PathsOf(g) /\ Origins(h) \subseteq PathsOf(h)
      /\ \A p \in PathsOf(g) : SoundPath(g, p)
      /\ \A p \in PathsOf(h) : SoundPath(h, p)
      /\ \A p \in PathsOf(g) : \A e \in StepsOf(g, p) :
           p.node \notin g.last => Extended(g, p, e) \in PathsOf(g)
      /\ \A p \in PathsOf(h) : \A e \in StepsOf(h, p) :
           p.node \notin h.last => Extended(h, p, e) \in PathsOf(h)
  BY <1>1, PathsFacts
<1>3. \A p, e : Extended(h, p, e) = Extended(g, p, e)
  BY DEF Extended, Without
<1>4. ASSUME NEW p \in PathsOf(g), NEW e \in StepsOf(g, p)
      PROVE  /\ PathNodes(Extended(g, p, e)) = PathNodes(p) \cup {g.to[e]}
             /\ Range(Extended(g, p, e).path) = Range(p.path) \cup {e}
  <2>1. p.path \in Seq(g.steps) /\ g.from[e] \in PathNodes(p) /\ e \in g.steps
    BY <1>2 DEF SoundPath, StepsOf
  <2>2. g.steps \cup {e} = g.steps
    BY <2>1
  <2>3. PathNodes(Extended(g, p, e)) = PathNodes(p) \cup {g.to[e]}
    BY <2>1, <2>2, ExtendedPath
  <2>4. Range(Extended(g, p, e).path) = Range(p.path) \cup {e}
    BY <2>1, ExtendedRange
  <2> QED
    BY <2>3, <2>4
<1>5. \A r : Item(r, r, <<>>).root = r /\ PathNodes(Item(r, r, <<>>)) = {r} /\ Range(Item(r, r, <<>>).path) = {}
  BY EmptySequence DEF Item, PathNodes
<1>6. PathsOf(h) \subseteq {p \in PathsOf(g) : Intact(p, nodes, hops)}
  <2> DEFINE G == {p \in PathsOf(g) : Intact(p, nodes, hops)}
  <2>1. Origins(h) \subseteq G
    <3> SUFFICES ASSUME NEW r \in h.starts PROVE Item(r, r, <<>>) \in G
      BY DEF Origins
    <3>1. r \in g.starts /\ r \notin nodes
      BY DEF Without
    <3>2. Item(r, r, <<>>) \in PathsOf(g)
      BY <1>2, <3>1 DEF Origins
    <3> QED
      BY <1>5, <3>1, <3>2 DEF Intact
  <2>2. ASSUME NEW p \in PathsOf(h), NEW e \in StepsOf(h, p), p \in G, p.node \notin h.last
        PROVE  Extended(h, p, e) \in G
    <3>1. p.node \in h.nodes
      BY <1>2 DEF SoundPath
    <3>2. e \in StepsOf(g, p) /\ p.node \notin g.last /\ e \notin hops /\ g.to[e] \notin nodes
      BY <2>2, <3>1 DEF StepsOf, Without
    <3>3. Extended(g, p, e) \in PathsOf(g)
      BY <1>2, <2>2, <3>2
    <3>4. /\ PathNodes(Extended(g, p, e)) = PathNodes(p) \cup {g.to[e]}
          /\ Range(Extended(g, p, e).path) = Range(p.path) \cup {e}
      BY <1>4, <2>2, <3>2
    <3>5. Intact(Extended(g, p, e), nodes, hops)
      BY <2>2, <3>2, <3>4 DEF Intact
    <3> QED
      BY <1>3, <3>3, <3>5
  <2>3. \A H : /\ Origins(h) \subseteq H
               /\ \A p \in PathsOf(h) : \A e \in StepsOf(h, p) :
                    p \in H /\ p.node \notin h.last => Extended(h, p, e) \in H
               => PathsOf(h) \subseteq H
    BY <1>1, PathsFacts
  <2> HIDE DEF G
  <2>4. PathsOf(h) \subseteq G
    BY <2>1, <2>2, <2>3
  <2> QED
    BY <2>4 DEF G
<1>7. {p \in PathsOf(g) : Intact(p, nodes, hops)} \subseteq PathsOf(h)
  <2> DEFINE G == {p \in PathsOf(g) : Intact(p, nodes, hops) => p \in PathsOf(h)}
  <2>1. Origins(g) \subseteq G
    <3> SUFFICES ASSUME NEW r \in g.starts, Intact(Item(r, r, <<>>), nodes, hops)
                 PROVE  Item(r, r, <<>>) \in PathsOf(h)
      BY <1>2 DEF Origins
    <3>1. r \in h.starts
      BY <1>5 DEF Intact, Without
    <3> QED
      BY <1>2, <3>1 DEF Origins
  <2>2. ASSUME NEW p \in PathsOf(g), NEW e \in StepsOf(g, p), p \in G, p.node \notin g.last
        PROVE  Extended(g, p, e) \in G
    <3>1. Extended(g, p, e) \in PathsOf(g)
      BY <1>2, <2>2
    <3>2. ASSUME Intact(Extended(g, p, e), nodes, hops) PROVE Extended(g, p, e) \in PathsOf(h)
      <4>1. Intact(p, nodes, hops) /\ e \notin hops /\ g.to[e] \notin nodes
        BY <1>4, <3>2 DEF Intact
      <4>2. p \in PathsOf(h)
        BY <2>2, <4>1
      <4>3. p.node \in h.nodes /\ g.to[e] \in h.nodes /\ g.from[e] = p.node /\ e \in g.steps
            /\ g.to[e] \notin PathNodes(p)
        BY <1>2, <4>1, <4>2 DEF SoundPath, StepsOf, Without
      <4>4. {Source[e], Target[e]} \subseteq h.nodes
        BY <4>3 DEF IsSearchGraph
      <4>5. e \in StepsOf(h, p) /\ p.node \notin h.last
        BY <2>2, <4>1, <4>3, <4>4 DEF StepsOf, Without
      <4> QED
        BY <1>2, <1>3, <4>2, <4>5
    <3> QED
      BY <3>1, <3>2
  <2>3. \A H : /\ Origins(g) \subseteq H
               /\ \A p \in PathsOf(g) : \A e \in StepsOf(g, p) :
                    p \in H /\ p.node \notin g.last => Extended(g, p, e) \in H
               => PathsOf(g) \subseteq H
    BY PathsFacts
  <2> HIDE DEF G
  <2>4. PathsOf(g) \subseteq G
    BY <2>1, <2>2, <2>3
  <2> QED
    BY <2>4 DEF G
<1> QED
  BY <1>6, <1>7

LEMMA WaysGrow ==
  ASSUME NEW v \in Views, NEW w \in Views, NEW R, NEW S,
         v.nodes \subseteq w.nodes, v.edges \subseteq w.edges, R \subseteq S
  PROVE  DependencyWays(v, R) \subseteq DependencyWays(w, S)
<1>1. Begun(v, R) \subseteq Begun(w, S)
  BY DEF Begun
<1>2. \A p : Hops(v, p) \subseteq Hops(w, p)
  BY DEF Hops
<1>3. /\ Begun(w, S) \subseteq DependencyWays(w, S)
      /\ \A p \in DependencyWays(w, S) : \A e \in Hops(w, p) :
           NodeKind[p.node] # "Service" => Next1(p, e) \in DependencyWays(w, S)
  BY WaysFacts
<1>4. \A G : /\ Begun(v, R) \subseteq G
             /\ \A p \in DependencyWays(v, R) : \A e \in Hops(v, p) :
                  p \in G /\ NodeKind[p.node] # "Service" => Next1(p, e) \in G
             => DependencyWays(v, R) \subseteq G
  BY WaysFacts
<1> DEFINE G == DependencyWays(w, S)
<1>5. Begun(v, R) \subseteq G
  BY <1>1, <1>3
<1>6. \A p \in DependencyWays(v, R) : \A e \in Hops(v, p) :
         p \in G /\ NodeKind[p.node] # "Service" => Next1(p, e) \in G
  BY <1>2, <1>3
<1> HIDE DEF G
<1>7. DependencyWays(v, R) \subseteq G
  BY <1>4, <1>5, <1>6
<1> QED
  BY <1>7 DEF G

-----------------------------------------------------------------------------
(* A search in progress.                                                   *)

Fields == {"roots", "queue", "seen", "admitted", "pages", "found", "warnings", "full",
           "truncated", "stop"}
Shaped(t) == DOMAIN t = Fields /\ t = [f \in Fields |-> t[f]]

(* Nothing is seen that is not a path, and the search does not give up     *)
(* silently.                                                               *)
GoodSearch(t, ways, roots) ==
  /\ Shaped(t) /\ t.seen \subseteq ways /\ t.queue \in Seq(t.seen) /\ t.roots \in Seq(roots)
  /\ t.found \subseteq t.seen /\ IsFiniteSet(t.found)
  /\ t.stop => t.truncated
  /\ t.full => t.truncated

(* What a step on the way does not lose.                                   *)
Grows(t, s) ==
  /\ s.roots = t.roots /\ s.pages = t.pages /\ s.found = t.found
  /\ t.seen \subseteq s.seen /\ Range(t.queue) \subseteq Range(s.queue)
  /\ s.seen \subseteq t.seen \cup Range(s.queue)
  /\ t.truncated => s.truncated

(* What a step on the way costs: a path that is put into the queue is one  *)
(* of the states that may be admitted.                                     *)
Pays(t, s, lim) ==
  lim.states \in Nat /\ t.admitted \in 0..lim.states =>
    s.admitted \in 0..lim.states /\ Len(s.queue) + t.admitted = Len(t.queue) + s.admitted

LEMMA PaysFacts ==
  ASSUME NEW lim, NEW t, Len(t.queue) \in Nat
  PROVE  /\ Pays(t, t, lim)
         /\ \A s : s.queue = t.queue /\ s.admitted = t.admitted => Pays(t, s, lim)
         /\ \A s, r : Len(s.queue) \in Nat /\ Len(r.queue) \in Nat /\ Pays(t, s, lim) /\ Pays(s, r, lim)
                     => Pays(t, r, lim)
<1>1. ASSUME NEW s, NEW r, Len(s.queue) \in Nat, Len(r.queue) \in Nat, Pays(t, s, lim), Pays(s, r, lim),
             lim.states \in Nat, t.admitted \in 0..lim.states
      PROVE  r.admitted \in 0..lim.states /\ Len(r.queue) + t.admitted = Len(t.queue) + r.admitted
  <2>1. s.admitted \in 0..lim.states /\ Len(s.queue) + t.admitted = Len(t.queue) + s.admitted
    BY <1>1 DEF Pays
  <2>2. r.admitted \in 0..lim.states /\ Len(r.queue) + s.admitted = Len(s.queue) + r.admitted
    BY <1>1, <2>1 DEF Pays
  <2>3. t.admitted \in Nat /\ s.admitted \in Nat /\ r.admitted \in Nat
    BY <1>1, <2>1, <2>2
  <2> DEFINE a == t.admitted
             b == s.admitted
             c == r.admitted
             x == Len(t.queue)
             y == Len(s.queue)
             z == Len(r.queue)
  <2>4. /\ a \in Nat /\ b \in Nat /\ c \in Nat /\ x \in Nat /\ y \in Nat /\ z \in Nat
        /\ y + a = x + b /\ z + b = y + c
    BY <1>1, <2>1, <2>2, <2>3
  <2> HIDE DEF a, b, c, x, y, z
  <2>5. z + a = x + c
    BY <2>4
  <2> QED
    BY <2>2, <2>5 DEF a, c, x, z
<1> QED
  BY <1>1 DEF Pays

LEMMA GrowsFacts ==
  /\ \A t : Grows(t, t)
  /\ \A t, s, r : Grows(t, s) /\ Grows(s, r) => Grows(t, r)
BY DEF Grows

(* Rewriting a search leaves it one.                                       *)
LEMMA RewrittenSearch ==
  ASSUME NEW t, Shaped(t), NEW x, NEW y, NEW z
  PROVE  /\ Shaped([t EXCEPT !.warnings = x])
         /\ Shaped([t EXCEPT !.truncated = TRUE])
         /\ Shaped([t EXCEPT !.stop = TRUE])
         /\ Shaped([t EXCEPT !.full = TRUE, !.truncated = TRUE, !.stop = TRUE, !.warnings = x])
         /\ Shaped([t EXCEPT !.admitted = x, !.queue = y, !.seen = z])
         /\ Shaped([t EXCEPT !.roots = x])
         /\ Shaped([t EXCEPT !.queue = x])
         /\ Shaped([t EXCEPT !.found = x])
         /\ Shaped([t EXCEPT !.pages = x])
<1>1. Shaped([t EXCEPT !.warnings = x])
  BY DEF Shaped, Fields
<1>2. Shaped([t EXCEPT !.truncated = TRUE])
  BY DEF Shaped, Fields
<1>3. Shaped([t EXCEPT !.stop = TRUE])
  BY DEF Shaped, Fields
<1>4. Shaped([t EXCEPT !.full = TRUE, !.truncated = TRUE, !.stop = TRUE, !.warnings = x])
  BY DEF Shaped, Fields
<1>5. Shaped([t EXCEPT !.admitted = x, !.queue = y, !.seen = z])
  BY DEF Shaped, Fields
<1>6. Shaped([t EXCEPT !.roots = x])
  BY DEF Shaped, Fields
<1>7. Shaped([t EXCEPT !.queue = x])
  BY DEF Shaped, Fields
<1>8. Shaped([t EXCEPT !.found = x])
  BY DEF Shaped, Fields
<1>9. Shaped([t EXCEPT !.pages = x])
  BY DEF Shaped, Fields
<1> QED
  BY <1>1, <1>2, <1>3, <1>4, <1>5, <1>6, <1>7, <1>8, <1>9

LEMMA WarnFacts ==
  ASSUME NEW t, NEW room, NEW warning, NEW ways, NEW roots, GoodSearch(t, ways, roots)
  PROVE  /\ GoodSearch(Warn(t, room, warning), ways, roots) /\ Grows(t, Warn(t, room, warning))
         /\ GoodSearch(WarnTruncated(t, room, warning), ways, roots)
         /\ Grows(t, WarnTruncated(t, room, warning)) /\ WarnTruncated(t, room, warning).truncated
         /\ Warn(t, room, warning).queue = t.queue /\ Warn(t, room, warning).admitted = t.admitted
         /\ WarnTruncated(t, room, warning).queue = t.queue
         /\ WarnTruncated(t, room, warning).admitted = t.admitted
<1> DEFINE Noted(u) == [u EXCEPT !.warnings = @ \cup {warning}]
           Full(u) == [u EXCEPT !.full = TRUE, !.truncated = TRUE, !.stop = TRUE,
                                !.warnings = @ \cup {<<"warning-limit-reached">>}]
           Same(u, s) == /\ s.roots = u.roots /\ s.queue = u.queue /\ s.seen = u.seen
                         /\ s.admitted = u.admitted
                         /\ s.pages = u.pages /\ s.found = u.found
                         /\ (u.truncated => s.truncated) /\ Shaped(s)
                         /\ (s.stop => s.truncated) /\ (s.full => s.truncated)
<1>1. ASSUME NEW u, Shaped(u), u.stop => u.truncated, u.full => u.truncated
      PROVE  Same(u, Warn(u, room, warning))
  <2>0. Shaped(Noted(u))
    BY <1>1, RewrittenSearch
  <2>a. Shaped(Full(u))
    BY <1>1, RewrittenSearch
  <2>1. Same(u, u)
    BY <1>1
  <2>b. /\ Noted(u).roots = u.roots /\ Noted(u).queue = u.queue /\ Noted(u).seen = u.seen
        /\ Noted(u).pages = u.pages /\ Noted(u).found = u.found /\ Noted(u).truncated = u.truncated
        /\ Noted(u).stop = u.stop /\ Noted(u).full = u.full /\ Noted(u).admitted = u.admitted
    BY <1>1 DEF Shaped, Fields
  <2>c. /\ Full(u).roots = u.roots /\ Full(u).queue = u.queue /\ Full(u).seen = u.seen
        /\ Full(u).pages = u.pages /\ Full(u).found = u.found /\ Full(u).truncated
        /\ Full(u).admitted = u.admitted
    BY <1>1 DEF Shaped, Fields
  <2>2. Same(u, Noted(u)) /\ Same(u, Full(u))
    <3> HIDE DEF Noted, Full
    <3> QED
      BY <1>1, <2>0, <2>a, <2>b, <2>c
  <2>3. Warn(u, room, warning) \in {u, Noted(u), Full(u)}
    BY DEF Warn
  <2> QED
    BY <2>1, <2>2, <2>3
<1>2. /\ Shaped(t) /\ (t.stop => t.truncated) /\ (t.full => t.truncated)
      /\ t.queue \in Seq(t.seen)
  BY DEF GoodSearch
<1> DEFINE c == [t EXCEPT !.truncated = TRUE]
<1>3. /\ Shaped(c) /\ c.truncated /\ Same(t, c)
  <2>1. Shaped(c)
    BY <1>2, RewrittenSearch
  <2>2. /\ c.roots = t.roots /\ c.queue = t.queue /\ c.seen = t.seen
        /\ c.pages = t.pages /\ c.found = t.found /\ c.truncated /\ c.admitted = t.admitted
    BY <1>2 DEF Shaped, Fields
  <2> HIDE DEF c
  <2> QED
    BY <2>1, <2>2
<1>4. Same(t, Warn(t, room, warning)) /\ Same(c, Warn(c, room, warning))
  BY <1>1, <1>2, <1>3
<1>5. WarnTruncated(t, room, warning) = Warn(c, room, warning)
  BY DEF WarnTruncated
<1>6. \A s : Same(t, s) => GoodSearch(s, ways, roots) /\ Grows(t, s)
  BY <1>2 DEF GoodSearch, Grows
<1>7. Same(t, Warn(c, room, warning)) /\ Warn(c, room, warning).truncated
  BY <1>3, <1>4
<1> QED
  BY <1>4, <1>5, <1>6, <1>7

LEMMA AdmitFacts ==
  ASSUME NEW t, NEW lim, NEW item, NEW ways, NEW roots, GoodSearch(t, ways, roots), item \in ways
  PROVE  /\ GoodSearch(Admit(t, lim, item), ways, roots) /\ Grows(t, Admit(t, lim, item))
         /\ Pays(t, Admit(t, lim, item), lim)
         /\ ~Admit(t, lim, item).truncated => item \in Admit(t, lim, item).seen
<1> DEFINE a == [t EXCEPT !.admitted = @ + 1, !.queue = Append(@, item), !.seen = @ \cup {item}]
           w == WarnTruncated(t, lim.warnings, <<"traversal-state-limit-reached", item>>)
           b == [w EXCEPT !.stop = TRUE]
<1>1. /\ Shaped(t) /\ t.seen \subseteq ways /\ t.queue \in Seq(t.seen) /\ t.roots \in Seq(roots)
      /\ t.found \subseteq t.seen /\ IsFiniteSet(t.found)
      /\ t.stop => t.truncated
      /\ t.full => t.truncated
  BY DEF GoodSearch
<1>2. /\ a.roots = t.roots /\ a.queue = Append(t.queue, item) /\ a.seen = t.seen \cup {item}
      /\ a.pages = t.pages /\ a.found = t.found /\ a.full = t.full /\ a.truncated = t.truncated
      /\ a.stop = t.stop /\ a.admitted = t.admitted + 1
  BY <1>1 DEF Shaped, Fields
<1>a. Shaped(a)
  BY <1>1, RewrittenSearch
<1>3. t.queue \in Seq(t.seen \cup {item})
  BY <1>1, SequenceRange
<1>4. /\ Append(t.queue, item) \in Seq(t.seen \cup {item}) /\ Range(Append(t.queue, item)) = Range(t.queue) \cup {item}
      /\ Len(Append(t.queue, item)) = Len(t.queue) + 1 /\ Len(t.queue) \in Nat
  BY <1>3, AppendFacts
<1> HIDE DEF a
<1>5. GoodSearch(a, ways, roots) /\ Grows(t, a)
  BY <1>1, <1>2, <1>4, <1>a DEF GoodSearch, Grows
<1>p. t.admitted < lim.states => Pays(t, a, lim)
  <2> DEFINE k == Len(t.queue)
  <2>1. k \in Nat /\ Len(a.queue) = k + 1
    BY <1>2, <1>4
  <2> HIDE DEF k
  <2> SUFFICES ASSUME t.admitted < lim.states, lim.states \in Nat, t.admitted \in 0..lim.states
               PROVE  a.admitted \in 0..lim.states /\ Len(a.queue) + t.admitted = k + a.admitted
    BY DEF Pays, k
  <2> QED
    BY <1>2, <2>1
<1>6. /\ GoodSearch(w, ways, roots) /\ Grows(t, w) /\ w.truncated
      /\ w.queue = t.queue /\ w.admitted = t.admitted
  BY WarnFacts
<1> HIDE DEF w
<1>7. /\ b.roots = w.roots /\ b.queue = w.queue /\ b.seen = w.seen /\ b.pages = w.pages
      /\ b.found = w.found /\ b.full = w.full /\ b.truncated = w.truncated
      /\ b.admitted = w.admitted
  BY <1>6 DEF GoodSearch, Shaped, Fields
<1>b. Shaped(b)
  BY <1>6, RewrittenSearch DEF GoodSearch
<1> HIDE DEF b
<1>8. GoodSearch(b, ways, roots) /\ Grows(t, b) /\ b.truncated
  BY <1>6, <1>7, <1>b DEF GoodSearch, Grows
<1>q. Pays(t, b, lim)
  BY <1>4, <1>6, <1>7, PaysFacts
<1>9. Admit(t, lim, item) = IF t.admitted < lim.states THEN a ELSE b
  BY DEF Admit, a, b, w
<1> QED
  BY <1>2, <1>5, <1>8, <1>9, <1>p, <1>q

(* The hops of a page that can be followed from a node.                    *)
HopsTo(view, n) == {e \in Hoppable(view) : Target[e] = n}

LEMMA FollowFacts ==
  ASSUME NEW view \in Views, NEW roots, NEW room, NEW t, NEW lim, NEW item, NEW edge,
         GoodSearch(t, DependencyWays(view, roots), room), item \in DependencyWays(view, roots),
         NodeKind[item.node] # "Service", edge \in HopsTo(view, item.node)
  PROVE  LET s == Follow(t, lim, item, edge)
         IN  /\ GoodSearch(s, DependencyWays(view, roots), room) /\ Grows(t, s) /\ Pays(t, s, lim)
             /\ ~s.truncated /\ Source[edge] \notin PathNodes(item) => Next1(item, edge) \in s.seen
<1> DEFINE W == DependencyWays(view, roots)
           n == Next1(item, edge)
           s == Follow(t, lim, item, edge)
           c == Warn(t, lim.warnings, <<"cycle-skipped", item, n.node>>)
           d == WarnTruncated(t, lim.warnings, <<"depth-limit-reached", item>>)
           a == Admit(t, lim, n)
<1>1. EdgeKind[edge] = "DEPENDS_ON" /\ Target[edge] = item.node /\ Source[edge] \in view.nodes
      /\ edge \in view.edges
  BY DEF HopsTo, Hoppable
<1>2. n.node = Source[edge]
  BY DEF Next1, Item
<1>3. s = IF t.stop THEN t
          ELSE IF n.node \in PathNodes(item) THEN c
          ELSE IF Len(item.path) >= lim.depth THEN d
          ELSE IF n \in t.seen THEN t ELSE a
  BY <1>1 DEF Follow, Next1
<1>4. n.node \notin PathNodes(item) => n \in W
  <2>1. n.node \notin PathNodes(item) => edge \in Hops(view, item)
    BY <1>1, <1>2 DEF Hops
  <2> QED
    BY <2>1, WaysFacts
<1>5. /\ GoodSearch(c, W, room) /\ Grows(t, c) /\ GoodSearch(d, W, room) /\ Grows(t, d) /\ d.truncated
      /\ c.queue = t.queue /\ c.admitted = t.admitted /\ d.queue = t.queue /\ d.admitted = t.admitted
  BY WarnFacts
<1>6. n \in W => /\ GoodSearch(a, W, room) /\ Grows(t, a) /\ Pays(t, a, lim)
                 /\ ~a.truncated => n \in a.seen
  BY AdmitFacts
<1>7. Grows(t, t) /\ (t.stop => t.truncated) /\ Len(t.queue) \in Nat
  BY GrowsFacts DEF GoodSearch
<1> HIDE DEF W, n, s, c, d, a
<1>p. Pays(t, t, lim) /\ Pays(t, c, lim) /\ Pays(t, d, lim)
  BY <1>5, <1>7, PaysFacts
<1>8. GoodSearch(s, W, room) /\ Grows(t, s) /\ Pays(t, s, lim)
  BY <1>3, <1>4, <1>5, <1>6, <1>7, <1>p DEF W
<1>9. ~s.truncated /\ n.node \notin PathNodes(item) => n \in s.seen
  BY <1>3, <1>4, <1>5, <1>6, <1>7
<1> QED
  BY <1>2, <1>8, <1>9 DEF W, s, n

(* A page is followed hop by hop.                                          *)
HopByHop(after, t, lim, item, page) ==
  /\ after[0] = IF page.truncated
                THEN WarnTruncated(t, lim.warnings, <<"dependents-per-node-limit-reached", item>>)
                ELSE t
  /\ \A i \in 1..Len(page.hops) : after[i] = Follow(after[i - 1], lim, item, page.hops[i])
  /\ Expand(t, lim, item, page) = after[Len(page.hops)]

LEMMA ExpandByHop ==
  ASSUME NEW t, NEW lim, NEW item, NEW page, Len(page.hops) \in Nat
  PROVE  \E after : HopByHop(after, t, lim, item, page)
<1> DEFINE N == Len(page.hops)
           B == IF page.truncated
                THEN WarnTruncated(t, lim.warnings, <<"dependents-per-node-limit-reached", item>>)
                ELSE t
           F(f, n) == [i \in 0..n |-> IF i = 0 THEN B ELSE Follow(f[i - 1], lim, item, page.hops[i])]
           G == {n \in 0..N : \E f : f = F(f, n)}
<1>1. N \in Nat
  OBVIOUS
<1>2. Expand(t, lim, item, page) = (CHOOSE f : f = F(f, N))[N]
  BY DEF Expand
<1> HIDE DEF N, B
<1>3. 0 \in G
  <2> DEFINE f == [i \in 0..0 |-> B]
  <2>0. \A i \in 0..0 : i = 0
    OBVIOUS
  <2>1. f = F(f, 0)
    BY <2>0
  <2>2. 0 \in 0..N
    BY <1>1
  <2> QED
    BY <2>1, <2>2
<1>4. ASSUME NEW n \in 0..N, n \in G, n < N PROVE n + 1 \in G
  <2>1. PICK f : f = F(f, n)
    BY <1>4
  <2> DEFINE g == [i \in 0..(n + 1) |-> IF i <= n THEN f[i]
                                        ELSE Follow(f[n], lim, item, page.hops[n + 1])]
  <2>2. \A i \in 0..n : f[i] = IF i = 0 THEN B ELSE Follow(f[i - 1], lim, item, page.hops[i])
    <3> TAKE i \in 0..n
    <3>1. F(f, n)[i] = IF i = 0 THEN B ELSE Follow(f[i - 1], lim, item, page.hops[i])
      OBVIOUS
    <3> QED
      BY <2>1, <3>1
  <2>3. \A i \in 0..(n + 1) : g[i] = IF i = 0 THEN B ELSE Follow(g[i - 1], lim, item, page.hops[i])
    <3> TAKE i \in 0..(n + 1)
    <3>1. CASE i = 0
      <4>1. 0 \in 0..n /\ 0 \in 0..(n + 1) /\ 0 <= n
        BY <1>1
      <4>2. f[0] = B
        BY <4>1, <2>2
      <4>3. g[0] = f[0]
        BY <4>1
      <4> QED
        BY <3>1, <4>2, <4>3
    <3>2. CASE i # 0 /\ i <= n
      <4>1. i \in 0..n /\ i - 1 \in 0..(n + 1) /\ i - 1 <= n
        BY <3>2, <1>1
      <4>2. g[i] = f[i] /\ g[i - 1] = f[i - 1]
        BY <3>2, <4>1
      <4> QED
        BY <3>2, <4>1, <4>2, <2>2
    <3>3. CASE i = n + 1
      <4>1. ~(i <= n) /\ i - 1 = n /\ n \in 0..(n + 1) /\ i # 0 /\ n <= n
        BY <3>3, <1>1
      <4>2. g[i] = Follow(f[n], lim, item, page.hops[n + 1]) /\ g[i - 1] = f[n]
        BY <4>1
      <4> QED
        BY <3>3, <4>1, <4>2
    <3> QED
      BY <3>1, <3>2, <3>3
  <2>4. g = F(g, n + 1)
    <3> HIDE DEF g
    <3>1. g = [i \in 0..(n + 1) |-> g[i]]
      BY DEF g
    <3> QED
      BY <2>3, <3>1
  <2>5. n + 1 \in 0..N
    BY <1>1, <1>4
  <2> QED
    BY <2>4, <2>5
<1>5. N \in G
  <2> HIDE DEF G
  <2>1. 0..N \subseteq G
    BY <1>1, <1>3, <1>4, UpTo
  <2>2. N \in 0..N
    BY <1>1
  <2> QED
    BY <2>1, <2>2
<1> DEFINE after == CHOOSE f : f = F(f, N)
<1>6. after = F(after, N)
  BY <1>5
<1>7. Expand(t, lim, item, page) = after[N]
  BY <1>2
<1> HIDE DEF after
<1>8. after[0] = B
  BY <1>1, <1>6
<1>9. \A i \in 1..N : after[i] = Follow(after[i - 1], lim, item, page.hops[i])
  <2> TAKE i \in 1..N
  <2>1. i \in 0..N /\ i # 0
    BY <1>1
  <2>2. F(after, N)[i] = Follow(after[i - 1], lim, item, page.hops[i])
    BY <2>1
  <2> QED
    BY <1>6, <2>2
<1> QED
  BY <1>7, <1>8, <1>9 DEF N, B, HopByHop

LEMMA ExpandFacts ==
  ASSUME NEW view \in Views, NEW roots, NEW room, NEW t, NEW lim, NEW item, NEW page,
         GoodSearch(t, DependencyWays(view, roots), room), item \in DependencyWays(view, roots),
         NodeKind[item.node] # "Service", page.hops \in Seq(HopsTo(view, item.node))
  PROVE  LET s == Expand(t, lim, item, page)
         IN  /\ GoodSearch(s, DependencyWays(view, roots), room) /\ Grows(t, s) /\ Pays(t, s, lim)
             /\ ~s.truncated => /\ ~page.truncated
                                /\ \A e \in Range(page.hops) :
                                     Source[e] \notin PathNodes(item) => Next1(item, e) \in s.seen
<1> DEFINE W == DependencyWays(view, roots)
           N == Len(page.hops)
           s == Expand(t, lim, item, page)
           b == WarnTruncated(t, lim.warnings, <<"dependents-per-node-limit-reached", item>>)
<1>1. /\ N \in Nat /\ DOMAIN page.hops = 1..N
      /\ \A i \in 1..N : page.hops[i] \in HopsTo(view, item.node)
  OBVIOUS
<1>0. Len(page.hops) \in Nat
  OBVIOUS
<1>a. PICK after : HopByHop(after, t, lim, item, page)
  BY <1>0, ExpandByHop
<1>2. /\ after[0] = IF page.truncated THEN b ELSE t
      /\ \A i \in 1..N : after[i] = Follow(after[i - 1], lim, item, page.hops[i])
      /\ s = after[N]
  BY <1>a DEF HopByHop
<1>3. GoodSearch(b, W, room) /\ Grows(t, b) /\ b.truncated /\ b.queue = t.queue /\ b.admitted = t.admitted
  BY WarnFacts
<1>c. \A u : GoodSearch(u, W, room) => Len(u.queue) \in Nat
  BY DEF GoodSearch
<1>4. /\ GoodSearch(after[0], W, room) /\ Grows(t, after[0]) /\ Pays(t, after[0], lim)
      /\ ~after[0].truncated => ~page.truncated
  <2>1. Len(t.queue) \in Nat
    BY <1>c
  <2>2. Pays(t, t, lim) /\ Pays(t, b, lim)
    BY <1>3, <2>1, PaysFacts
  <2>3. Grows(t, t)
    BY GrowsFacts
  <2> HIDE DEF b
  <2> QED
    BY <1>2, <1>3, <2>2, <2>3
<1> HIDE DEF b, s, N
<1> DEFINE Followed1(u, k) == \A i \in 1..k : Source[page.hops[i]] \notin PathNodes(item) =>
                                             Next1(item, page.hops[i]) \in u.seen
           K == {k \in 0..N : /\ GoodSearch(after[k], W, room) /\ Grows(t, after[k])
                              /\ Pays(t, after[k], lim)
                              /\ Grows(after[0], after[k])
                              /\ ~after[k].truncated => Followed1(after[k], k)}
<1>5. 0 \in K
  <2>1. 0 \in 0..N /\ 1..0 = {}
    BY <1>1
  <2> QED
    BY <1>4, <2>1, GrowsFacts
<1>6. ASSUME NEW k \in 0..N, k \in K, k < N PROVE k + 1 \in K
  <2>1. k + 1 \in 0..N /\ k + 1 \in 1..N /\ (k + 1) - 1 = k /\ 1..(k + 1) = 1..k \cup {k + 1}
    BY <1>1, <1>6
  <2> DEFINE u == after[k]
             v == after[k + 1]
  <2>2. v = Follow(u, lim, item, page.hops[k + 1]) /\ page.hops[k + 1] \in HopsTo(view, item.node)
    BY <1>1, <1>2, <2>1
  <2>3. /\ GoodSearch(v, W, room) /\ Grows(u, v) /\ Pays(u, v, lim)
        /\ ~v.truncated /\ Source[page.hops[k + 1]] \notin PathNodes(item)
             => Next1(item, page.hops[k + 1]) \in v.seen
    BY <1>6, <2>2, FollowFacts
  <2>4. Grows(t, v) /\ Grows(after[0], v)
    BY <1>6, <2>3, GrowsFacts
  <2>5. ~v.truncated => Followed1(v, k)
    <3>1. ~v.truncated => ~u.truncated /\ u.seen \subseteq v.seen
      BY <2>3 DEF Grows
    <3> QED
      BY <1>6, <3>1
  <2>p. Pays(t, v, lim)
    <3>1. Len(t.queue) \in Nat /\ Len(u.queue) \in Nat /\ Len(v.queue) \in Nat
      BY <1>6, <1>c, <2>3
    <3>2. Pays(t, u, lim) /\ Pays(u, v, lim)
      BY <1>6, <2>3
    <3> HIDE DEF u, v
    <3> QED
      BY <3>1, <3>2, PaysFacts
  <2> HIDE DEF u, v
  <2>6. ~v.truncated => Followed1(v, k + 1)
    BY <2>1, <2>3, <2>5
  <2> QED
    BY <2>1, <2>3, <2>4, <2>6, <2>p DEF v
<1>7. N \in K
  <2> HIDE DEF K
  <2>1. 0..N \subseteq K
    BY <1>1, <1>5, <1>6, UpTo
  <2>2. N \in 0..N
    BY <1>1
  <2> QED
    BY <2>1, <2>2
<1>8. /\ GoodSearch(s, W, room) /\ Grows(t, s) /\ Grows(after[0], s) /\ Pays(t, s, lim)
      /\ ~s.truncated => Followed1(s, N)
  BY <1>2, <1>7
<1>9. ~s.truncated => ~page.truncated
  <2>1. ~s.truncated => ~after[0].truncated
    BY <1>8 DEF Grows
  <2> QED
    BY <1>4, <2>1
<1>10. \A e \in Range(page.hops) : \E i \in 1..N : e = page.hops[i]
  BY <1>1 DEF Range
<1> QED
  BY <1>8, <1>9, <1>10 DEF s, W

-----------------------------------------------------------------------------
(* Turns of a search of a graph that grows: `view` is what can be read,    *)
(* `then` what could be read when it began.                                *)
Older(then, view) == then \in Views /\ view \in Views /\ then.nodes \subseteq view.nodes
Larger(then, view) ==
  /\ then \in Views /\ view \in Views
  /\ then.nodes \subseteq view.nodes /\ then.edges \subseteq view.edges

PagesGood(t, view) == \A n \in DOMAIN t.pages : t.pages[n].hops \in Seq(HopsTo(view, n))
PagesWhole(t, then) ==
  \A n \in DOMAIN t.pages : ~t.pages[n].truncated => HopsTo(then, n) \subseteq Range(t.pages[n].hops)

Done(t, then, p) ==
  IF NodeKind[p.node] = "Service" THEN p \in t.found
  ELSE \A e \in Hops(then, p) : Next1(p, e) \in t.seen

(* What has not been looked at yet is in the queue, unless the result says *)
(* that something was left out.                                            *)
RootsDone(t, then, R) == \A b \in Begun(then, R) : b.root \in Range(t.roots) \/ b \in t.seen
ItemsDone(t, then) == \A p \in t.seen : p \in Range(t.queue) \/ Done(t, then, p)

SearchInv(t, view, then, R) ==
  /\ GoodSearch(t, DependencyWays(view, R), R)
  /\ \A p \in t.found : NodeKind[p.node] = "Service"
  /\ PagesGood(t, view) /\ PagesWhole(t, then)
  /\ ~t.truncated => RootsDone(t, then, R) /\ ItemsDone(t, then)

(* A turn takes a root or an item away and pays for what it admits.        *)
Left(t, lim) == Len(t.roots) + Len(t.queue) + (lim.states - t.admitted)
Shorter(t, s, lim) ==
  lim.states \in Nat /\ t.admitted \in 0..lim.states =>
    s.admitted \in 0..lim.states /\ Left(s, lim) + 1 = Left(t, lim)

LEMMA ShorterFacts ==
  ASSUME NEW lim, NEW t, NEW n, NEW s, Pays(n, s, lim), n.admitted = t.admitted, s.roots = n.roots,
         Len(t.roots) \in Nat, Len(t.queue) \in Nat, Len(n.roots) \in Nat, Len(n.queue) \in Nat,
         Len(s.queue) \in Nat,
         Len(n.roots) + Len(n.queue) + 1 = Len(t.roots) + Len(t.queue)
  PROVE  Shorter(t, s, lim)
<1> SUFFICES ASSUME lim.states \in Nat, t.admitted \in 0..lim.states
             PROVE  s.admitted \in 0..lim.states /\ Left(s, lim) + 1 = Left(t, lim)
  BY DEF Shorter
<1>1. s.admitted \in 0..lim.states /\ Len(s.queue) + t.admitted = Len(n.queue) + s.admitted
  BY DEF Pays
<1>2. s.admitted \in Nat /\ t.admitted \in Nat
  BY <1>1
<1> DEFINE a == Len(t.roots)
           b == Len(t.queue)
           c == Len(n.roots)
           d == Len(n.queue)
           e == Len(s.queue)
           x == t.admitted
           y == s.admitted
           m == lim.states
<1>3. /\ a \in Nat /\ b \in Nat /\ c \in Nat /\ d \in Nat /\ e \in Nat /\ x \in Nat /\ y \in Nat /\ m \in Nat
      /\ c + d + 1 = a + b /\ e + x = d + y
  BY <1>1, <1>2
<1>4. Left(s, lim) = c + e + (m - y) /\ Left(t, lim) = a + b + (m - x)
  BY DEF Left
<1> HIDE DEF a, b, c, d, e, x, y, m
<1>5. c + e + (m - y) + 1 = a + b + (m - x)
  BY <1>3
<1> QED
  BY <1>1, <1>4, <1>5

LEMMA HopsFacts ==
  ASSUME NEW then
  PROVE  /\ \A p : Hops(then, p) \subseteq HopsTo(then, p.node)
         /\ \A p : \A e \in Hops(then, p) : Source[e] \notin PathNodes(p)
BY DEF Hops, HopsTo, Hoppable

LEMMA ViewsGrow ==
  ASSUME NEW then, NEW view, Larger(then, view)
  PROVE  \A n : HopsTo(then, n) \subseteq HopsTo(view, n)
BY DEF Larger, HopsTo, Hoppable

LEMMA DependentsFacts ==
  ASSUME NEW view \in Views, NEW n, NEW limit
  PROVE  LET page == Dependents(view, n, limit)
         IN  /\ page.hops \in Seq(HopsTo(view, n))
             /\ ~page.truncated => Range(page.hops) = HopsTo(view, n)
<1> DEFINE all == HopsTo(view, n)
           bounded == {e \in all : Cardinality({d \in all : d < e}) < limit}
           page == Dependents(view, n, limit)
<1>1. all = {e \in view.edges : EdgeKind[e] = "DEPENDS_ON" /\ Target[e] = n /\ Source[e] \in view.nodes}
  BY DEF HopsTo, Hoppable
<1>2. page.hops = InOrder(bounded) /\ page.truncated = (bounded # all)
  BY <1>1 DEF Dependents
<1>3. bounded \subseteq all /\ all \subseteq Edges
  BY <1>1 DEF Views
<1>4. IsFiniteSet(bounded) /\ bounded \subseteq Nat
  <2> HIDE DEF bounded, all
  <2>1. bounded \subseteq Edges /\ IsFiniteSet(Edges) /\ Edges \subseteq Nat
    BY <1>3, GraphAssumption
  <2> QED
    BY <2>1, SubsetSize
<1> HIDE DEF bounded, all
<1>5. InOrder(bounded) \in Seq(bounded) /\ Range(InOrder(bounded)) = bounded
  BY <1>4, OrderFacts
<1>6. InOrder(bounded) \in Seq(all)
  BY <1>3, <1>5, SequenceRange
<1> QED
  BY <1>2, <1>5, <1>6 DEF all

(* A view that grows takes nothing from a search.                          *)
LEMMA SearchGrows ==
  ASSUME NEW t, NEW v, NEW w, NEW then, NEW R, Larger(v, w), SearchInv(t, v, then, R)
  PROVE  SearchInv(t, w, then, R)
<1>1. DependencyWays(v, R) \subseteq DependencyWays(w, R)
  BY WaysGrow DEF Larger
<1>2. GoodSearch(t, DependencyWays(w, R), R)
  BY <1>1 DEF SearchInv, GoodSearch
<1>3. PagesGood(t, w)
  <2> SUFFICES ASSUME NEW n \in DOMAIN t.pages PROVE t.pages[n].hops \in Seq(HopsTo(w, n))
    BY DEF PagesGood
  <2>1. t.pages[n].hops \in Seq(HopsTo(v, n)) /\ HopsTo(v, n) \subseteq HopsTo(w, n)
    BY ViewsGrow DEF SearchInv, PagesGood
  <2>2. Range(t.pages[n].hops) \subseteq HopsTo(w, n)
    BY <2>1, SequenceRange
  <2> QED
    BY <2>1, <2>2, SequenceRange
<1> QED
  BY <1>2, <1>3 DEF SearchInv

LEMMA BeginRootFacts ==
  ASSUME NEW t, NEW lim, NEW view, NEW then, NEW R, Older(then, view),
         SearchInv(t, view, then, R), t.roots # <<>>
  PROVE  /\ SearchInv(BeginRoot(t, lim, view), view, then, R)
         /\ Shorter(t, BeginRoot(t, lim, view), lim)
<1> DEFINE W == DependencyWays(view, R)
           r == Head(t.roots)
           n == NextRoot(t)
           b == Item(r, r, <<>>)
           s == BeginRoot(t, lim, view)
<1>1. /\ GoodSearch(t, W, R) /\ Shaped(t) /\ t.roots \in Seq(R)
      /\ PagesGood(t, view) /\ PagesWhole(t, then) /\ (\A p \in t.found : NodeKind[p.node] = "Service")
      /\ Len(t.roots) \in Nat /\ Len(t.queue) \in Nat
  BY DEF SearchInv, GoodSearch
<1>2. Shaped(n)
  BY <1>1, RewrittenSearch DEF NextRoot
<1>3. /\ n.roots = Tail(t.roots) /\ n.queue = t.queue /\ n.seen = t.seen /\ n.pages = t.pages
      /\ n.found = t.found /\ n.truncated = t.truncated /\ n.stop = t.stop /\ n.full = t.full
      /\ n.admitted = t.admitted
  BY <1>1 DEF Shaped, Fields, NextRoot
<1>4. /\ Tail(t.roots) \in Seq(R) /\ r \in R /\ Range(t.roots) = {r} \cup Range(n.roots)
      /\ Len(n.roots) \in Nat /\ Len(t.roots) = Len(n.roots) + 1
  BY <1>1, <1>3, TailFacts
<1> HIDE DEF n
<1>5. GoodSearch(n, W, R)
  BY <1>1, <1>2, <1>3, <1>4 DEF GoodSearch
<1>6. \A room, warning : /\ GoodSearch(Warn(n, room, warning), W, R) /\ Grows(n, Warn(n, room, warning))
                         /\ Warn(n, room, warning).queue = n.queue
                         /\ Warn(n, room, warning).admitted = n.admitted
  BY <1>5, WarnFacts
<1>s. \A x : GoodSearch(x, W, R) /\ Grows(n, x) /\ Pays(n, x, lim) => Shorter(t, x, lim)
  <2> SUFFICES ASSUME NEW x, GoodSearch(x, W, R), Grows(n, x), Pays(n, x, lim) PROVE Shorter(t, x, lim)
    OBVIOUS
  <2>1. Len(x.queue) \in Nat /\ x.roots = n.roots
    BY DEF GoodSearch, Grows
  <2>2. Len(n.roots) + Len(n.queue) + 1 = Len(t.roots) + Len(t.queue) /\ Len(n.queue) \in Nat
    <3> DEFINE a == Len(t.roots)
               d == Len(n.roots)
               c == Len(t.queue)
    <3>1. a \in Nat /\ d \in Nat /\ c \in Nat /\ a = d + 1 /\ Len(n.queue) = c
      BY <1>1, <1>3, <1>4
    <3> HIDE DEF a, d, c
    <3>2. d + c + 1 = a + c
      BY <3>1
    <3> QED
      BY <3>1, <3>2 DEF a, d, c
  <2> QED
    BY <1>1, <1>3, <1>4, <2>1, <2>2, ShorterFacts
<1>7. CASE r \notin view.nodes \/ NodeKind[r] # "PackageVersion"
  <2>1. \E room, warning : s = Warn(n, room, warning)
    BY <1>7 DEF BeginRoot, n
  <2>2. GoodSearch(s, W, R) /\ Grows(n, s) /\ s.queue = n.queue /\ s.admitted = n.admitted
    BY <1>6, <2>1
  <2>p. Shorter(t, s, lim)
    BY <1>1, <1>3, <1>s, <2>2, PaysFacts
  <2>3. \A x \in Begun(then, R) : x.root # r
    BY <1>7 DEF Older, Begun, Item
  <2> HIDE DEF s, W
  <2>4. PagesGood(s, view) /\ PagesWhole(s, then)
    BY <1>1, <1>3, <2>2 DEF Grows, PagesGood, PagesWhole
  <2>5. ~s.truncated => RootsDone(s, then, R)
    BY <1>3, <1>4, <2>2, <2>3 DEF Grows, RootsDone, SearchInv
  <2>6. ~s.truncated => ItemsDone(s, then)
    BY <1>3, <2>2 DEF Grows, ItemsDone, SearchInv, Done
  <2>7. \A p \in s.found : NodeKind[p.node] = "Service"
    BY <1>1, <1>3, <2>2 DEF Grows
  <2> QED
    BY <2>2, <2>4, <2>5, <2>6, <2>7, <2>p DEF SearchInv, W, s
<1>8. CASE r \in view.nodes /\ NodeKind[r] = "PackageVersion"
  <2>1. s = Admit(n, lim, b)
    BY <1>8 DEF BeginRoot, n
  <2>2. b \in Begun(view, R) /\ view \in Views
    BY <1>4, <1>8 DEF Begun, Older
  <2>3. b \in W
    BY <2>2, WaysFacts
  <2>4. /\ GoodSearch(s, W, R) /\ Grows(n, s) /\ Pays(n, s, lim)
        /\ ~s.truncated => b \in s.seen
    BY <1>5, <2>1, <2>3, AdmitFacts
  <2>5. \A x \in Begun(then, R) : x.root = r => x = b
    BY DEF Begun, Item
  <2> HIDE DEF s, W, b
  <2>6. PagesGood(s, view) /\ PagesWhole(s, then)
    BY <1>1, <1>3, <2>4 DEF Grows, PagesGood, PagesWhole
  <2>7. ~s.truncated => RootsDone(s, then, R)
    BY <1>3, <1>4, <2>4, <2>5 DEF Grows, RootsDone, SearchInv
  <2>8. ~s.truncated => ItemsDone(s, then)
    BY <1>3, <2>4 DEF Grows, ItemsDone, SearchInv, Done
  <2>9. /\ \A p \in s.found : NodeKind[p.node] = "Service"
        /\ Shorter(t, s, lim)
    BY <1>1, <1>3, <1>s, <2>4 DEF Grows
  <2> QED
    BY <2>4, <2>6, <2>7, <2>8, <2>9 DEF SearchInv, W, s
<1> QED
  BY <1>7, <1>8

(* What is left when the head of the queue has been taken: all that a step *)
(* has to do is to see to that item.                                       *)
Taken(t, rest, view, then, R) ==
  /\ GoodSearch(rest, DependencyWays(view, R), R)
  /\ rest.queue = Tail(t.queue) /\ rest.roots = t.roots /\ rest.seen = t.seen
  /\ rest.found = t.found /\ rest.truncated = t.truncated
  /\ PagesGood(rest, view) /\ PagesWhole(rest, then)
  /\ rest.admitted = t.admitted

LEMMA TakenFacts ==
  ASSUME NEW t, NEW view, NEW then, NEW R, SearchInv(t, view, then, R), t.queue # <<>>
  PROVE  /\ Taken(t, NextItem(t), view, then, R)
         /\ Head(t.queue) \in t.seen /\ Range(t.queue) = {Head(t.queue)} \cup Range(Tail(t.queue))
         /\ Len(t.roots) \in Nat /\ Len(t.queue) \in Nat /\ Len(Tail(t.queue)) \in Nat
         /\ Len(t.queue) = Len(Tail(t.queue)) + 1
<1> DEFINE W == DependencyWays(view, R)
           n == NextItem(t)
<1>1. /\ GoodSearch(t, W, R) /\ Shaped(t) /\ t.queue \in Seq(t.seen)
      /\ PagesGood(t, view) /\ PagesWhole(t, then)
  BY DEF SearchInv, GoodSearch
<1>2. Shaped(n)
  BY <1>1, RewrittenSearch DEF NextItem
<1>3. /\ n.queue = Tail(t.queue) /\ n.roots = t.roots /\ n.seen = t.seen /\ n.pages = t.pages
      /\ n.found = t.found /\ n.truncated = t.truncated /\ n.stop = t.stop /\ n.full = t.full
      /\ n.admitted = t.admitted
  BY <1>1 DEF Shaped, Fields, NextItem
<1>r. /\ Len(t.roots) \in Nat
      /\ Len(t.queue) \in Nat /\ Len(Tail(t.queue)) \in Nat /\ Len(t.queue) = Len(Tail(t.queue)) + 1
  BY <1>1 DEF SearchInv, GoodSearch
<1>4. /\ Tail(t.queue) \in Seq(t.seen) /\ Head(t.queue) \in t.seen
      /\ Range(t.queue) = {Head(t.queue)} \cup Range(Tail(t.queue))
  BY <1>1, TailFacts
<1> HIDE DEF n, W
<1>5. GoodSearch(n, W, R)
  BY <1>1, <1>2, <1>3, <1>4 DEF GoodSearch
<1>6. PagesGood(n, view) /\ PagesWhole(n, then)
  BY <1>1, <1>3 DEF PagesGood, PagesWhole
<1> QED
  BY <1>3, <1>4, <1>5, <1>6, <1>r DEF Taken, W, n

(* What the rest of a turn pays for.                                       *)
LEMMA TurnIsShorter ==
  ASSUME NEW t, NEW view, NEW then, NEW R, SearchInv(t, view, then, R), t.queue # <<>>, NEW lim,
         NEW n, n.queue = Tail(t.queue), n.roots = t.roots, n.admitted = t.admitted,
         NEW s, Pays(n, s, lim), s.roots = n.roots, Len(s.queue) \in Nat
  PROVE  Shorter(t, s, lim)
<1>1. /\ Len(t.roots) \in Nat /\ Len(t.queue) \in Nat /\ Len(Tail(t.queue)) \in Nat
      /\ Len(t.queue) = Len(Tail(t.queue)) + 1
  BY TakenFacts
<1>2. Len(n.roots) + Len(n.queue) + 1 = Len(t.roots) + Len(t.queue)
  <2> DEFINE a == Len(t.roots)
             b == Len(Tail(t.queue))
             c == Len(t.queue)
  <2>1. a \in Nat /\ b \in Nat /\ c \in Nat /\ c = b + 1 /\ Len(n.queue) = b /\ Len(n.roots) = a
    BY <1>1
  <2> HIDE DEF a, b, c
  <2>2. a + b + 1 = a + c
    BY <2>1
  <2> QED
    BY <2>1, <2>2 DEF a, c
<1> QED
  BY <1>1, <1>2, ShorterFacts

(* A step that sees to the item it took keeps the invariant.               *)
LEMMA TurnFacts ==
  ASSUME NEW t, NEW view, NEW then, NEW R, SearchInv(t, view, then, R), t.queue # <<>>,
         NEW s, GoodSearch(s, DependencyWays(view, R), R), PagesGood(s, view), PagesWhole(s, then),
         s.roots = t.roots, t.found \subseteq s.found, t.seen \subseteq s.seen,
         Range(Tail(t.queue)) \subseteq Range(s.queue), s.seen \subseteq t.seen \cup Range(s.queue),
         t.truncated => s.truncated, ~s.truncated => Done(s, then, Head(t.queue)),
         \A p \in s.found : NodeKind[p.node] = "Service"
  PROVE  SearchInv(s, view, then, R)
<1>1. Range(t.queue) = {Head(t.queue)} \cup Range(Tail(t.queue))
  BY TakenFacts
<1>2. ~s.truncated => RootsDone(s, then, R)
  BY DEF SearchInv, RootsDone
<1>3. ASSUME ~s.truncated, NEW p \in s.seen PROVE p \in Range(s.queue) \/ Done(s, then, p)
  <2>1. p \in Range(s.queue) \/ p \in Range(t.queue) \/ Done(t, then, p)
    BY <1>3 DEF SearchInv, ItemsDone
  <2>2. Done(t, then, p) => Done(s, then, p)
    BY DEF Done
  <2> QED
    BY <1>1, <1>3, <2>1, <2>2
<1> QED
  BY <1>2, <1>3 DEF SearchInv, ItemsDone

LEMMA RetainFacts ==
  ASSUME NEW t, NEW lim, NEW view, NEW then, NEW R, Older(then, view),
         SearchInv(t, view, then, R), t.queue # <<>>, NodeKind[Head(t.queue).node] = "Service"
  PROVE  /\ SearchInv(RetainService(NextItem(t), lim, Head(t.queue)), view, then, R)
         /\ Shorter(t, RetainService(NextItem(t), lim, Head(t.queue)), lim)
<1> DEFINE W == DependencyWays(view, R)
           n == NextItem(t)
           item == Head(t.queue)
           s == RetainService(n, lim, item)
           k == [n EXCEPT !.found = n.found \cup {item}]
<1>1. /\ GoodSearch(n, W, R) /\ Shaped(n)
      /\ n.queue = Tail(t.queue) /\ n.roots = t.roots /\ n.seen = t.seen
      /\ n.found = t.found /\ n.truncated = t.truncated /\ n.admitted = t.admitted
      /\ PagesGood(n, view) /\ PagesWhole(n, then)
      /\ item \in n.seen /\ NodeKind[item.node] = "Service"
      /\ \A p \in n.found : NodeKind[p.node] = "Service"
      /\ Len(n.queue) \in Nat
  BY TakenFacts DEF Taken, GoodSearch, SearchInv
<1> HIDE DEF n, W, item
<1>2. /\ Shaped(k) /\ k.queue = n.queue /\ k.roots = n.roots /\ k.seen = n.seen /\ k.pages = n.pages
      /\ k.found = n.found \cup {item} /\ k.truncated = n.truncated /\ k.stop = n.stop /\ k.full = n.full
      /\ k.admitted = n.admitted
  <2>1. Shaped(k)
    BY <1>1, RewrittenSearch
  <2> QED
    BY <1>1, <2>1 DEF Shaped, Fields
<1>3. IsFiniteSet(n.found \cup {item})
  BY <1>1, FS_AddElement DEF GoodSearch
<1>4. GoodSearch(k, W, R) /\ PagesGood(k, view) /\ PagesWhole(k, then)
  <2> HIDE DEF k
  <2> QED
    BY <1>1, <1>2, <1>3 DEF GoodSearch, PagesGood, PagesWhole
<1>s. ASSUME NEW u, u.queue = n.queue, u.roots = n.roots, u.admitted = n.admitted
      PROVE  Shorter(t, u, lim)
  <2>1. Pays(n, u, lim) /\ Len(u.queue) \in Nat
    BY <1>1, <1>s, PaysFacts
  <2> QED
    BY <1>1, <1>s, <2>1, TurnIsShorter
<1>5. ASSUME NEW u, GoodSearch(u, W, R), Grows(n, u), u.truncated
      PROVE  SearchInv(u, view, then, R)
  <2>1. PagesGood(u, view) /\ PagesWhole(u, then)
    BY <1>1, <1>5 DEF Grows, PagesGood, PagesWhole
  <2>2. /\ u.roots = t.roots /\ t.found \subseteq u.found /\ t.seen \subseteq u.seen
        /\ Range(Tail(t.queue)) \subseteq Range(u.queue) /\ u.seen \subseteq t.seen \cup Range(u.queue)
        /\ t.truncated => u.truncated
        /\ \A p \in u.found : NodeKind[p.node] = "Service"
    BY <1>1, <1>5 DEF Grows
  <2> QED
    BY <1>5, <2>1, <2>2, TurnFacts DEF W
<1>6. \A room, warning :
        LET u == WarnTruncated(n, room, warning)
        IN  /\ GoodSearch(u, W, R) /\ Grows(n, u) /\ u.truncated
            /\ u.queue = n.queue /\ u.roots = n.roots /\ u.admitted = n.admitted
  <2> SUFFICES ASSUME NEW room, NEW warning
               PROVE  LET u == WarnTruncated(n, room, warning)
                      IN  /\ GoodSearch(u, W, R) /\ Grows(n, u) /\ u.truncated
                          /\ u.queue = n.queue /\ u.roots = n.roots /\ u.admitted = n.admitted
    OBVIOUS
  <2> DEFINE u == WarnTruncated(n, room, warning)
  <2>1. GoodSearch(u, W, R) /\ Grows(n, u) /\ u.truncated /\ u.queue = n.queue /\ u.admitted = n.admitted
    BY <1>1, WarnFacts
  <2> HIDE DEF u
  <2>2. u.roots = n.roots
    BY <2>1 DEF Grows
  <2> QED
    BY <2>1, <2>2 DEF u
<1>7. \A room, warning :
        LET u == WarnTruncated(n, room, warning)
            q == [u EXCEPT !.stop = TRUE]
        IN  /\ GoodSearch(q, W, R) /\ Grows(n, q) /\ q.truncated
            /\ q.queue = n.queue /\ q.roots = n.roots /\ q.admitted = n.admitted
  <2> SUFFICES ASSUME NEW room, NEW warning
               PROVE  LET u == WarnTruncated(n, room, warning)
                          q == [u EXCEPT !.stop = TRUE]
                      IN  /\ GoodSearch(q, W, R) /\ Grows(n, q) /\ q.truncated
                          /\ q.queue = n.queue /\ q.roots = n.roots /\ q.admitted = n.admitted
    OBVIOUS
  <2> DEFINE u == WarnTruncated(n, room, warning)
             q == [u EXCEPT !.stop = TRUE]
  <2>1. /\ GoodSearch(u, W, R) /\ Grows(n, u) /\ u.truncated /\ Shaped(u)
        /\ u.queue = n.queue /\ u.roots = n.roots /\ u.admitted = n.admitted
    BY <1>6 DEF GoodSearch
  <2> HIDE DEF u
  <2>2. Shaped(q)
    BY <2>1, RewrittenSearch
  <2>3. /\ q.roots = u.roots /\ q.queue = u.queue /\ q.seen = u.seen /\ q.pages = u.pages
        /\ q.found = u.found /\ q.full = u.full /\ q.truncated = u.truncated
        /\ q.admitted = u.admitted
    BY <2>1 DEF Shaped, Fields
  <2> HIDE DEF q
  <2>4. /\ GoodSearch(q, W, R) /\ Grows(n, q) /\ q.truncated
        /\ q.queue = n.queue /\ q.roots = n.roots /\ q.admitted = n.admitted
    BY <2>1, <2>2, <2>3 DEF GoodSearch, Grows
  <2> QED
    BY <2>4 DEF q, u
<1>8. ASSUME NEW u, u = k \/ (u = n /\ item \in n.found)
      PROVE  /\ SearchInv(u, view, then, R)
             /\ u.queue = n.queue /\ u.roots = n.roots /\ u.admitted = n.admitted
  <2>1. /\ GoodSearch(u, W, R) /\ PagesGood(u, view) /\ PagesWhole(u, then)
        /\ u.roots = t.roots /\ t.found \subseteq u.found /\ u.seen = t.seen
        /\ u.queue = Tail(t.queue) /\ u.truncated = t.truncated /\ item \in u.found
        /\ \A p \in u.found : NodeKind[p.node] = "Service"
    <3> HIDE DEF k
    <3> QED
      BY <1>1, <1>2, <1>4, <1>8
  <2>2. Done(u, then, item)
    BY <2>1 DEF Done, item
  <2>3. u.queue = n.queue /\ u.roots = n.roots /\ u.admitted = n.admitted
    BY <1>1, <1>2, <1>8
  <2> HIDE DEF k
  <2>4. SearchInv(u, view, then, R)
    BY <2>1, <2>2, TurnFacts DEF W, item
  <2> QED
    BY <2>3, <2>4
<1>9. \/ s = k \/ (s = n /\ item \in n.found)
      \/ \E room, warning : s = WarnTruncated(n, room, warning)
      \/ \E room, warning : s = [WarnTruncated(n, room, warning) EXCEPT !.stop = TRUE]
  BY DEF RetainService, FoundAt
<1>10. GoodSearch(s, W, R) /\ Grows(n, s) /\ s.truncated => SearchInv(s, view, then, R)
  <2> HIDE DEF s
  <2> QED
    BY <1>5
<1> HIDE DEF s, k
<1>11. SearchInv(s, view, then, R) /\ s.queue = n.queue /\ s.roots = n.roots /\ s.admitted = n.admitted
  <2>1. CASE s = k \/ (s = n /\ item \in n.found)
    BY <1>8, <2>1
  <2>2. CASE \E room, warning : s = WarnTruncated(n, room, warning)
    BY <1>6, <1>10, <2>2
  <2>3. CASE \E room, warning : s = [WarnTruncated(n, room, warning) EXCEPT !.stop = TRUE]
    BY <1>7, <1>10, <2>3
  <2> QED
    BY <1>9, <2>1, <2>2, <2>3
<1> QED
  BY <1>11, <1>s DEF s, n, item

LEMMA ExpandStepFacts ==
  ASSUME NEW t, NEW lim, NEW view, NEW then, NEW R, Older(then, view),
         SearchInv(t, view, then, R), t.queue # <<>>, NodeKind[Head(t.queue).node] # "Service",
         NEW fresh, fresh.hops \in Seq(HopsTo(view, Head(t.queue).node)),
         ~fresh.truncated => HopsTo(then, Head(t.queue).node) \subseteq Range(fresh.hops)
  PROVE  LET read == Cached(NextItem(t), Head(t.queue).node, fresh)
             s == Expand(read, lim, Head(t.queue), read.pages[Head(t.queue).node])
         IN  SearchInv(s, view, then, R) /\ Shorter(t, s, lim)
<1> DEFINE W == DependencyWays(view, R)
           n == NextItem(t)
           item == Head(t.queue)
           read == Cached(n, item.node, fresh)
           page == read.pages[item.node]
           s == Expand(read, lim, item, page)
           pages == [m \in DOMAIN n.pages \cup {item.node} |->
                       IF m = item.node THEN fresh ELSE n.pages[m]]
           c == [n EXCEPT !.pages = pages]
<1>1. /\ GoodSearch(n, W, R) /\ Shaped(n)
      /\ n.queue = Tail(t.queue) /\ n.roots = t.roots /\ n.seen = t.seen
      /\ n.found = t.found /\ n.truncated = t.truncated /\ n.admitted = t.admitted
      /\ PagesGood(n, view) /\ PagesWhole(n, then)
      /\ item \in n.seen
      /\ \A p \in n.found : NodeKind[p.node] = "Service"
  BY TakenFacts DEF Taken, GoodSearch, SearchInv
<1>2. /\ fresh.hops \in Seq(HopsTo(view, item.node))
      /\ ~fresh.truncated => HopsTo(then, item.node) \subseteq Range(fresh.hops)
  OBVIOUS
<1>3. read = IF item.node \in DOMAIN n.pages THEN n ELSE c
  BY DEF Cached
<1> HIDE DEF n, W, item, pages
<1>4. /\ Shaped(c) /\ c.queue = n.queue /\ c.roots = n.roots /\ c.seen = n.seen /\ c.pages = pages
      /\ c.found = n.found /\ c.truncated = n.truncated /\ c.stop = n.stop /\ c.full = n.full
      /\ c.admitted = n.admitted
  <2>1. Shaped(c)
    BY <1>1, RewrittenSearch
  <2> QED
    BY <1>1, <2>1 DEF Shaped, Fields
<1> HIDE DEF c
<1>5. GoodSearch(c, W, R)
  BY <1>1, <1>4 DEF GoodSearch
<1>6. DOMAIN pages = DOMAIN n.pages \cup {item.node}
      /\ \A m \in DOMAIN pages : pages[m] = IF m = item.node THEN fresh ELSE n.pages[m]
  BY DEF pages
<1>7. PagesGood(c, view) /\ PagesWhole(c, then)
  BY <1>1, <1>2, <1>4, <1>6 DEF PagesGood, PagesWhole
<1>8. /\ GoodSearch(read, W, R) /\ PagesGood(read, view) /\ PagesWhole(read, then)
      /\ read.queue = Tail(t.queue) /\ read.roots = t.roots /\ read.seen = t.seen
      /\ read.found = t.found /\ read.truncated = t.truncated /\ read.admitted = t.admitted
      /\ item.node \in DOMAIN read.pages
  BY <1>1, <1>3, <1>4, <1>5, <1>6, <1>7
<1> HIDE DEF read
<1>9. page.hops \in Seq(HopsTo(view, item.node))
      /\ (~page.truncated => HopsTo(then, item.node) \subseteq Range(page.hops))
  BY <1>8 DEF PagesGood, PagesWhole
<1>10. view \in Views /\ item \in W /\ NodeKind[item.node] # "Service"
  BY <1>1 DEF GoodSearch, Older, item
<1> HIDE DEF page
<1>11. /\ GoodSearch(s, W, R) /\ Grows(read, s) /\ Pays(read, s, lim)
       /\ ~s.truncated => /\ ~page.truncated
                          /\ \A e \in Range(page.hops) :
                               Source[e] \notin PathNodes(item) => Next1(item, e) \in s.seen
  BY <1>8, <1>9, <1>10, ExpandFacts DEF W
<1>12. ~s.truncated => Done(s, then, item)
  <2>1. \A e \in Hops(then, item) : e \in HopsTo(then, item.node) /\ Source[e] \notin PathNodes(item)
    BY HopsFacts
  <2> HIDE DEF s
  <2> QED
    BY <1>9, <1>10, <1>11, <2>1 DEF Done
<1> HIDE DEF s
<1>13. PagesGood(s, view) /\ PagesWhole(s, then)
  BY <1>8, <1>11 DEF Grows, PagesGood, PagesWhole
<1>14. /\ s.roots = t.roots /\ t.found \subseteq s.found /\ t.seen \subseteq s.seen
       /\ Range(Tail(t.queue)) \subseteq Range(s.queue) /\ s.seen \subseteq t.seen \cup Range(s.queue)
       /\ t.truncated => s.truncated
       /\ s.roots = read.roots /\ (\A p \in s.found : NodeKind[p.node] = "Service")
  BY <1>1, <1>8, <1>11 DEF Grows
<1>s. Shorter(t, s, lim)
  <2>1. Len(s.queue) \in Nat
    BY <1>11 DEF GoodSearch
  <2> QED
    BY <1>8, <1>11, <1>14, <2>1, TurnIsShorter
<1>15. SearchInv(s, view, then, R)
  BY <1>11, <1>12, <1>13, <1>14, TurnFacts DEF W, item
<1> QED
  BY <1>15, <1>s DEF s, page, read, n, item

(* What is read now shows what there was then, when it is read whole.      *)
LEMMA BlastStepFacts ==
  ASSUME NEW t, NEW lim, NEW view, NEW then, NEW R, Older(then, view),
         SearchInv(t, view, then, R), Searching(t),
         (/\ t.queue # <<>> /\ NodeKind[Head(t.queue).node] # "Service"
          /\ Head(t.queue).node \notin DOMAIN t.pages
          /\ ~Dependents(view, Head(t.queue).node, lim.dependents).truncated)
            => HopsTo(then, Head(t.queue).node) \subseteq HopsTo(view, Head(t.queue).node)
  PROVE  SearchInv(BlastStep(t, lim, view), view, then, R) /\ Shorter(t, BlastStep(t, lim, view), lim)
<1>1. CASE t.queue = <<>>
  <2>1. t.roots # <<>> /\ BlastStep(t, lim, view) = BeginRoot(t, lim, view)
    BY <1>1 DEF BlastStep, Searching
  <2> QED
    BY <2>1, BeginRootFacts
<1>2. CASE t.queue # <<>> /\ NodeKind[Head(t.queue).node] = "Service"
  <2>1. BlastStep(t, lim, view) = RetainService(NextItem(t), lim, Head(t.queue))
    BY <1>2 DEF BlastStep
  <2> QED
    BY <1>2, <2>1, RetainFacts
<1>3. CASE t.queue # <<>> /\ NodeKind[Head(t.queue).node] # "Service"
  <2> DEFINE n == Head(t.queue).node
             fresh == IF n \in DOMAIN t.pages THEN [hops |-> <<>>, truncated |-> TRUE]
                      ELSE Dependents(view, n, lim.dependents)
             read == Cached(NextItem(t), n, fresh)
             s == Expand(read, lim, Head(t.queue), read.pages[n])
  <2>1. DOMAIN NextItem(t).pages = DOMAIN t.pages
    <3>1. Shaped(t)
      BY DEF SearchInv, GoodSearch
    <3> QED
      BY <3>1 DEF Shaped, Fields, NextItem
  <2>2. read = Cached(NextItem(t), n, Dependents(view, n, lim.dependents))
    BY <2>1 DEF Cached
  <2>3. BlastStep(t, lim, view) = s
    BY <1>3, <2>2 DEF BlastStep
  <2>4. /\ fresh.hops \in Seq(HopsTo(view, n))
        /\ ~fresh.truncated => HopsTo(then, n) \subseteq Range(fresh.hops)
    <3>1. CASE n \in DOMAIN t.pages
      <4>1. fresh = [hops |-> <<>>, truncated |-> TRUE]
        BY <3>1
      <4> HIDE DEF fresh
      <4> QED
        BY <4>1, EmptySequence
    <3>2. CASE n \notin DOMAIN t.pages
      <4>1. fresh = Dependents(view, n, lim.dependents)
        BY <3>2
      <4>2. /\ fresh.hops \in Seq(HopsTo(view, n))
            /\ ~fresh.truncated => Range(fresh.hops) = HopsTo(view, n)
        <5> HIDE DEF fresh, n
        <5> QED
          BY <4>1, DependentsFacts DEF Older
      <4> HIDE DEF fresh
      <4> QED
        BY <1>3, <3>2, <4>1, <4>2
    <3> QED
      BY <3>1, <3>2
  <2>5. SearchInv(s, view, then, R) /\ Shorter(t, s, lim)
    <3> HIDE DEF fresh
    <3> QED
      BY <1>3, <2>4, ExpandStepFacts
  <2> QED
    BY <2>3, <2>5
<1> QED
  BY <1>1, <1>2, <1>3

(* How a search begins and what it has found when it ends.                 *)
LEMMA BlastStartFacts ==
  ASSUME NEW view, NEW then, NEW R, R \subseteq Nodes
  PROVE  SearchInv(BlastStart(R), view, then, R)
<1> DEFINE t == BlastStart(R)
<1>1. IsFiniteSet(R) /\ R \subseteq Nat
  BY GraphAssumption, SubsetSize
<1>2. InOrder(R) \in Seq(R) /\ Range(InOrder(R)) = R
  BY <1>1, OrderFacts
<1>3. /\ Shaped(t) /\ t.roots = InOrder(R) /\ t.queue = <<>> /\ t.seen = {} /\ t.pages = <<>> /\ t.found = {}
      /\ ~t.full /\ ~t.truncated /\ ~t.stop
  BY DEF BlastStart, Fresh, Shaped, Fields
<1> HIDE DEF t
<1>4. GoodSearch(t, DependencyWays(view, R), R)
  BY <1>2, <1>3, EmptySequence, FS_EmptySet DEF GoodSearch
<1>5. PagesGood(t, view) /\ PagesWhole(t, then)
  BY <1>3, EmptySequence DEF PagesGood, PagesWhole
<1>6. RootsDone(t, then, R) /\ ItemsDone(t, then)
  <2>1. \A b \in Begun(then, R) : b.root \in R
    BY DEF Begun, Item
  <2> QED
    BY <1>2, <1>3, <2>1 DEF RootsDone, ItemsDone
<1>7. \A p \in t.found : NodeKind[p.node] = "Service"
  BY <1>3
<1> QED
  BY <1>4, <1>5, <1>6, <1>7 DEF SearchInv, t

LEMMA BlastEndFacts ==
  ASSUME NEW t, NEW view, NEW then, NEW R, Older(then, view), SearchInv(t, view, then, R),
         ~Searching(t), ~t.truncated
  PROVE  DependencyPaths(then, R) \subseteq t.found
<1> DEFINE G == t.seen
<1>1. t.queue = <<>> /\ t.roots = <<>>
  BY DEF Searching, SearchInv, GoodSearch
<1>2. Begun(then, R) \subseteq G
  BY <1>1, EmptySequence DEF SearchInv, RootsDone
<1>3. \A p \in G : Done(t, then, p)
  BY <1>1, EmptySequence DEF SearchInv, ItemsDone
<1>4. \A p \in DependencyWays(then, R) : \A e \in Hops(then, p) :
        p \in G /\ NodeKind[p.node] # "Service" => Next1(p, e) \in G
  BY <1>3 DEF Done
<1>5. \A H : /\ Begun(then, R) \subseteq H
             /\ \A p \in DependencyWays(then, R) : \A e \in Hops(then, p) :
                  p \in H /\ NodeKind[p.node] # "Service" => Next1(p, e) \in H
             => DependencyWays(then, R) \subseteq H
  BY WaysFacts DEF Older
<1>6. DependencyWays(then, R) \subseteq G
  <2> HIDE DEF G
  <2> QED
    BY <1>2, <1>4, <1>5
<1> QED
  BY <1>3, <1>6, PathsAreWays DEF Done

LEMMA BlastFoundFacts ==
  ASSUME NEW t, NEW view, NEW then, NEW R, SearchInv(t, view, then, R)
  PROVE  t.found \subseteq DependencyPaths(view, R)
BY PathsAreWays DEF SearchInv, GoodSearch

-----------------------------------------------------------------------------
(* What is stored while a request is served.                               *)
Then == [nodes |-> request.stored.nodes, edges |-> Dependencies(request.stored.edges)]
TargetsIn(rows) == {Target[e] : e \in {d \in rows : EdgeKind[d] = "AFFECTS" /\ Source[d] = Incident}}

GraphInv ==
  /\ request.stored \in Stored /\ request.interval \in [start : Nat, end : Nat \cup {Absent}]
  /\ DOMAIN graph = {"nodes", "edges", "index"}
  /\ graph.nodes \subseteq Written.nodes /\ graph.edges \subseteq Written.edges
  /\ request.stored.nodes \subseteq graph.nodes /\ request.stored.edges \subseteq graph.edges
  /\ Dependencies(request.stored.edges) \subseteq graph.index
  /\ graph.index \subseteq graph.edges
  /\ Supported(graph, EndsOf(graph))

LEMMA GraphInit == LiveInit => GraphInv
<1> SUFFICES ASSUME LiveInit PROVE GraphInv
  OBVIOUS
<1>1. PICK query \in Requests, view \in Stored :
        /\ request = [limits |-> query.limits, maxAffected |-> query.maxAffected,
                      interval |-> query.interval, asOf |-> query.asOf,
                      nullRow |-> query.nullRow, stored |-> view]
        /\ graph = [nodes |-> view.nodes, edges |-> view.edges, index |-> Dependencies(view.edges)]
  BY DEF LiveInit
<1>2. request.stored = view /\ request.interval = query.interval
      /\ graph.nodes = view.nodes /\ graph.edges = view.edges /\ graph.index = Dependencies(view.edges)
      /\ DOMAIN graph = {"nodes", "edges", "index"}
  BY <1>1
<1>3. /\ Supported(view, EndsOf(view)) /\ view.nodes \subseteq Written.nodes
      /\ view.edges \subseteq Written.edges /\ query.interval \in [start : Nat, end : Nat \cup {Absent}]
  BY LiveAssumption
<1>4. Supported(graph, EndsOf(graph))
  BY <1>2, <1>3 DEF Supported, EndsOf
<1>5. Dependencies(view.edges) \subseteq view.edges
  BY DEF Dependencies
<1> QED
  BY <1>2, <1>3, <1>4, <1>5 DEF GraphInv

(* A row that is written keeps what is there, and nodes come before edges. *)
LEMMA GraphStep ==
  ASSUME GraphInv, PersistRow, request' = request
  PROVE  /\ GraphInv'
         /\ graph.nodes \subseteq graph'.nodes /\ graph.edges \subseteq graph'.edges
         /\ graph.index \subseteq graph'.index
<1>0. DOMAIN graph = {"nodes", "edges", "index"}
  BY DEF GraphInv
<1>1. /\ DOMAIN graph' = {"nodes", "edges", "index"}
      /\ graph.nodes \subseteq graph'.nodes /\ graph.edges \subseteq graph'.edges
      /\ graph.index \subseteq graph'.index
      /\ graph'.nodes \subseteq Written.nodes /\ graph'.edges \subseteq Written.edges
      /\ \/ graph'.edges = graph.edges
         \/ graph'.nodes = Written.nodes
      /\ graph'.index \subseteq graph'.edges
  <2>1. CASE WriteNode
    <3>1. PICK n \in NextRow(Written.nodes, graph.nodes) : graph' = [graph EXCEPT !.nodes = @ \cup {n}]
      BY <2>1 DEF WriteNode
    <3>2. n \in Written.nodes
      BY DEF NextRow
    <3> QED
      BY <1>0, <3>1, <3>2 DEF GraphInv
  <2>2. CASE graph.nodes = Written.nodes /\ WriteEdge
    <3>1. PICK e \in NextRow(Written.edges, graph.edges) : graph' = [graph EXCEPT !.edges = @ \cup {e}]
      BY <2>2 DEF WriteEdge
    <3>2. e \in Written.edges
      BY DEF NextRow
    <3> QED
      BY <1>0, <2>2, <3>1, <3>2 DEF GraphInv
  <2>3. CASE graph.nodes = Written.nodes /\ graph.edges = Written.edges /\ WriteIndex
    <3>1. PICK e \in NextRow(Dependencies(Written.edges), graph.index) :
            graph' = [graph EXCEPT !.index = @ \cup {e}]
      BY <2>3 DEF WriteIndex
    <3>2. e \in Written.edges
      BY DEF NextRow, Dependencies
    <3> QED
      BY <1>0, <2>3, <3>1, <3>2 DEF GraphInv
  <2> QED
    BY <2>1, <2>2, <2>3 DEF PersistRow
<1>2. EvidenceNodes(graph.nodes) \subseteq EvidenceNodes(graph'.nodes)
  BY <1>1 DEF EvidenceNodes
<1>3. Supported(graph', EndsOf(graph'))
  <2>1. CASE graph'.edges = graph.edges
    BY <1>1, <1>2, <2>1 DEF GraphInv, Supported, EndsOf
  <2>2. CASE graph'.nodes = Written.nodes
    <3>1. Supported(Written, Written.nodes)
      BY LiveAssumption
    <3> QED
      BY <1>1, <2>2, <3>1 DEF Supported, EndsOf
  <2> QED
    BY <1>1, <2>1, <2>2
<1> QED
  BY <1>1, <1>3 DEF GraphInv

LEMMA GraphViews ==
  ASSUME GraphInv
  PROVE  /\ Older(Then, IndexView) /\ IndexView \in Views /\ IndexView.edges \subseteq graph.edges
         /\ graph.nodes \subseteq Nodes /\ graph.edges \subseteq Edges
<1>1. Written.nodes \subseteq Nodes /\ Written.edges \subseteq Edges
  BY LiveAssumption DEF Views
<1>2. graph.nodes \subseteq Nodes /\ graph.edges \subseteq Edges /\ graph.index \subseteq Edges
      /\ request.stored.nodes \subseteq Nodes /\ Dependencies(request.stored.edges) \subseteq Edges
  BY <1>1 DEF GraphInv
<1> QED
  BY <1>2 DEF GraphInv, Older, Views, Then, IndexView, Paired

(* What a view shows is backed by evidence.                                *)
LEMMA PathsAreBacked ==
  ASSUME GraphInv, NEW R, R \subseteq TargetsIn(graph.edges), NEW p, SoundWay(IndexView, R, p)
  PROVE  /\ EdgesOf(p) \subseteq graph.edges /\ EdgesOf(p) = Range(p.path)
         /\ \A e \in EdgesOf(p) : EdgeEvidence[e] # {} /\ EdgeEvidence[e] \subseteq EvidenceNodes(graph.nodes)
         /\ PathNodes(p) \subseteq EndsOf(graph)
         /\ \A n \in PathNodes(p) : NodeEvidence[n] \subseteq EvidenceNodes(graph.nodes)
         /\ NodeKind[p.node] = "Service" => p.path # <<>>
         /\ p.root \in R /\ p.node \in graph.nodes
<1>1. /\ p.path \in Seq(Hoppable(IndexView)) /\ p.root \in R /\ NodeKind[p.root] = "PackageVersion"
      /\ (p.path = <<>> => p.node = p.root) /\ p.node \in PathNodes(p) /\ PathNodes(p) \subseteq graph.nodes
  BY DEF SoundWay, IndexView
<1>2. EdgesOf(p) = Range(p.path)
  BY DEF EdgesOf, Range
<1>3. Range(p.path) \subseteq Hoppable(IndexView)
  BY <1>1, SequenceRange
<1>4. EdgesOf(p) \subseteq graph.edges
  BY <1>2, <1>3, GraphViews DEF Hoppable
<1>5. \A e \in graph.edges : EdgeEvidence[e] # {} /\ EdgeEvidence[e] \subseteq EvidenceNodes(graph.nodes)
  BY DEF GraphInv, Supported
<1>6. PathNodes(p) = {p.root} \cup {Source[e] : e \in EdgesOf(p)} \cup {Target[e] : e \in EdgesOf(p)}
  BY DEF PathNodes, EdgesOf
<1>7. p.root \in EndsOf(graph)
  BY <1>1 DEF TargetsIn, EndsOf
<1>8. PathNodes(p) \subseteq EndsOf(graph)
  BY <1>4, <1>6, <1>7 DEF EndsOf
<1>9. \A n \in EndsOf(graph) : NodeEvidence[n] \subseteq EvidenceNodes(graph.nodes)
  BY DEF GraphInv, Supported
<1> QED
  BY <1>1, <1>2, <1>4, <1>5, <1>8, <1>9

-----------------------------------------------------------------------------
(* Extremes.                                                               *)
LEMMA GreatestNumber ==
  ASSUME NEW S, IsFiniteSet(S), S \subseteq Nat, S # {}
  PROVE  \E x \in S : \A y \in S : y <= x
<1> DEFINE Above(x) == {y \in S : y > x}
           T == {Cardinality(Above(x)) : x \in S}
<1>1. \A x \in S : IsFiniteSet(Above(x)) /\ Cardinality(Above(x)) \in Nat
  <2> TAKE x \in S
  <2>1. Above(x) \subseteq S
    OBVIOUS
  <2> HIDE DEF Above
  <2> QED
    BY <2>1, SubsetSize
<1>2. T \subseteq Nat /\ T # {}
  BY <1>1
<1>3. PICK k \in T : \A j \in T : k <= j
  <2> HIDE DEF T
  <2> QED
    BY <1>2, LeastNumber
<1>4. PICK x \in S : k = Cardinality(Above(x))
  OBVIOUS
<1>5. ASSUME NEW y \in S, ~(y <= x) PROVE FALSE
  <2>1. y \in Nat /\ x \in Nat /\ y > x
    BY <1>5
  <2>2. Above(y) \subseteq Above(x)
    <3> SUFFICES ASSUME NEW z \in S, z > y PROVE z > x
      OBVIOUS
    <3>1. z \in Nat
      OBVIOUS
    <3> QED
      BY <2>1, <3>1
  <2>3. y \in Above(x) /\ y \notin Above(y)
    BY <2>1
  <2>4. Above(y) # Above(x)
    BY <2>3
  <2>5. IsFiniteSet(Above(x))
    BY <1>1
  <2>6. Cardinality(Above(y)) < Cardinality(Above(x))
    <3> HIDE DEF Above
    <3> QED
      BY <2>2, <2>4, <2>5, SubsetSize
  <2>7. Cardinality(Above(y)) \in T
    OBVIOUS
  <2>8. Cardinality(Above(y)) \in Nat /\ Cardinality(Above(x)) \in Nat
    BY <1>1
  <2> HIDE DEF Above, T
  <2> QED
    BY <1>3, <1>4, <2>6, <2>7, <2>8
<1> QED
  BY <1>5

LEMMA MaxFacts ==
  ASSUME NEW S, IsFiniteSet(S), S \subseteq Nat, S # {}
  PROVE  Max(S) \in S /\ Max(S) \in Nat /\ \A y \in S : y <= Max(S)
<1>1. PICK x \in S : \A y \in S : y <= x
  BY GreatestNumber
<1>2. \A y \in S : x >= y
  BY <1>1
<1> QED
  BY <1>2 DEF Max

LEMMA MinFacts ==
  ASSUME NEW S, S \subseteq Nat, S # {}
  PROVE  Min(S) \in S /\ Min(S) \in Nat /\ \A y \in S : Min(S) <= y
<1>1. PICK x \in S : \A y \in S : x <= y
  BY LeastNumber
<1> QED
  BY <1>1 DEF Min

LEMMA ImageSize ==
  ASSUME NEW S, IsFiniteSet(S), NEW f
  PROVE  IsFiniteSet({f[e] : e \in S})
<1> DEFINE g == [e \in S |-> f[e]]
           T == {f[e] : e \in S}
<1>1. g \in Surjection(S, T)
  BY DEF Surjection
<1> HIDE DEF g, T
<1>2. IsFiniteSet(T)
  BY <1>1, FS_Surjection
<1> QED
  BY <1>2 DEF T

-----------------------------------------------------------------------------
(* The window of a service.                                                *)
LEMMA PathWindowFacts ==
  ASSUME NEW p, IsFiniteSet(Dated(p)), Dated(p) \subseteq Edges, Dated(p) # {}
  PROVE  LET w == PathWindow(p)
         IN  /\ w.from \in Nat /\ w.until \in Nat \cup {Absent}
             /\ \A x \in Nat : InForceAt(p, x) => w.from <= x /\ (w.until = Absent \/ x <= w.until)
<1> DEFINE D == Dated(p)
           closed == {e \in D : ValidUntil[e] # Absent}
           froms == {ValidFrom[e] : e \in D}
           untils == {ValidUntil[e] : e \in closed}
           w == PathWindow(p)
<1>1. \A e \in D : ValidFrom[e] # Absent
  BY DEF Dated
<1>2. froms \subseteq Nat /\ froms # {}
  BY <1>1, WindowAssumption
<1>3. untils \subseteq Nat
  BY WindowAssumption
<1>4. IsFiniteSet(closed)
  BY SubsetSize
<1>5. IsFiniteSet(froms) /\ IsFiniteSet(untils)
  <2> HIDE DEF D, closed
  <2> QED
    BY <1>4, ImageSize DEF D
<1>6. /\ w.from = Max(froms)
      /\ w.until = IF closed = {} THEN Absent ELSE Min(untils)
  BY DEF PathWindow
<1>7. closed # {} => untils # {}
  OBVIOUS
<1>8. /\ Max(froms) \in froms /\ Max(froms) \in Nat
      /\ closed # {} => Min(untils) \in untils /\ Min(untils) \in Nat
  <2> HIDE DEF froms, untils, closed
  <2> QED
    BY <1>2, <1>3, <1>5, <1>7, MaxFacts, MinFacts
<1>9. ASSUME NEW x \in Nat, InForceAt(p, x)
      PROVE  Max(froms) <= x /\ (closed # {} => x <= Min(untils))
  <2>1. \A e \in D : ValidFrom[e] <= x /\ (ValidUntil[e] = Absent \/ x <= ValidUntil[e])
    BY <1>9 DEF InForceAt
  <2> QED
    BY <1>8, <2>1
<1> HIDE DEF w, froms, untils, closed
<1>10. w.from \in Nat /\ w.until \in Nat \cup {Absent}
  BY <1>6, <1>8
<1>11. \A x \in Nat : InForceAt(p, x) => w.from <= x /\ (w.until = Absent \/ x <= w.until)
  BY <1>6, <1>9
<1> QED
  BY <1>10, <1>11 DEF w

(* A path that recorded something, and a set of paths of which some did.   *)
Datable(p) == IsFiniteSet(Dated(p)) /\ Dated(p) \subseteq Edges

LEMMA ServiceWindowFacts ==
  ASSUME NEW paths, IsFiniteSet(paths), \A p \in paths : Datable(p)
  PROVE  LET w == ServiceWindow(paths)
         IN  /\ (\A p \in paths : Dated(p) = {}) => w.from = Absent /\ w.until = Absent
             /\ (\E p \in paths : Dated(p) # {}) => w.from \in Nat /\ w.until \in Nat \cup {Absent}
             /\ \A p \in paths : Dated(p) # {} =>
                  /\ w.from <= PathWindow(p).from
                  /\ w.until = Absent \/ (PathWindow(p).until # Absent /\ PathWindow(p).until <= w.until)
<1> DEFINE recorded == {p \in paths : Dated(p) # {}}
           windows == {PathWindow(p) : p \in recorded}
           froms == {v.from : v \in windows}
           untils == {v.until : v \in windows}
           w == ServiceWindow(paths)
<1>1. CASE recorded = {}
  <2>1. w = [from |-> Absent, until |-> Absent]
    BY <1>1 DEF ServiceWindow
  <2>2. \A p \in paths : Dated(p) = {}
    BY <1>1
  <2> HIDE DEF w
  <2>3. w.from = Absent /\ w.until = Absent
    BY <2>1
  <2> QED
    BY <2>2, <2>3 DEF w
<1>2. CASE recorded # {}
  <2>1. w = WidestWindow(windows)
    BY <1>2 DEF ServiceWindow
  <2>2. w.from = Min(froms) /\ w.until = IF \E v \in windows : v.until = Absent THEN Absent ELSE Max(untils)
    BY <2>1 DEF WidestWindow
  <2>3. \A v \in windows : v.from \in Nat /\ v.until \in Nat \cup {Absent}
    <3>1. \A p \in recorded : PathWindow(p).from \in Nat /\ PathWindow(p).until \in Nat \cup {Absent}
      BY PathWindowFacts DEF Datable
    <3> QED
      BY <3>1
  <2>4. IsFiniteSet(windows) /\ windows # {}
    <3> DEFINE f == [p \in recorded |-> PathWindow(p)]
    <3>1. windows = {f[p] : p \in recorded}
      OBVIOUS
    <3>2. IsFiniteSet(recorded)
      BY SubsetSize
    <3>3. IsFiniteSet({f[p] : p \in recorded})
      <4> HIDE DEF f, recorded
      <4> QED
        BY <3>2, ImageSize
    <3> QED
      BY <1>2, <3>1, <3>3
  <2>5. \A p \in recorded : PathWindow(p) \in windows
    OBVIOUS
  <2>6. IsFiniteSet(untils)
    <3> DEFINE f == [v \in windows |-> v.until]
    <3> HIDE DEF windows
    <3>1. untils = {f[v] : v \in windows}
      OBVIOUS
    <3>2. IsFiniteSet({f[v] : v \in windows})
      <4> HIDE DEF f
      <4> QED
        BY <2>4, ImageSize
    <3> QED
      BY <3>1, <3>2
  <2>7. /\ froms \subseteq Nat /\ froms # {} /\ untils # {}
        /\ (\A v \in windows : v.until # Absent) => untils \subseteq Nat
    <3> HIDE DEF windows
    <3> QED
      BY <2>3, <2>4
  <2>8. /\ \A v \in windows : v.from \in froms /\ v.until \in untils
    OBVIOUS
  <2>9. Min(froms) \in Nat /\ \A x \in froms : Min(froms) <= x
    <3> HIDE DEF froms
    <3> QED
      BY <2>7, MinFacts
  <2>10. (\A v \in windows : v.until # Absent) => Max(untils) \in Nat /\ \A x \in untils : x <= Max(untils)
    <3> HIDE DEF untils, windows
    <3> QED
      BY <2>6, <2>7, MaxFacts
  <2> HIDE DEF windows, froms, untils, w
  <2>11. w.from \in Nat /\ w.until \in Nat \cup {Absent}
    BY <2>2, <2>9, <2>10
  <2>12. \A v \in windows : w.from <= v.from /\ (w.until = Absent \/ (v.until # Absent /\ v.until <= w.until))
    BY <2>2, <2>8, <2>9, <2>10
  <2>13. \A p \in paths : Dated(p) # {} =>
           /\ w.from <= PathWindow(p).from
           /\ w.until = Absent \/ (PathWindow(p).until # Absent /\ PathWindow(p).until <= w.until)
    BY <2>5, <2>12
  <2>14. \E p \in paths : Dated(p) # {}
    BY <1>2
  <2> QED
    BY <2>11, <2>13, <2>14 DEF w
<1> QED
  BY <1>1, <1>2

(* A path in force at some instant of the interval puts the service in it. *)
LEMMA StandingFacts ==
  ASSUME NEW paths, IsFiniteSet(paths), \A p \in paths : Datable(p),
         NEW interval \in [start : Nat, end : Nat \cup {Absent}], ~Refused(paths, interval),
         NEW s \in {p.node : p \in paths}
  PROVE  /\ (\E p \in paths : p.node = s /\ ExposedDuring(p, interval)) =>
              Standing(paths, interval)[s] = "resolved-during-window"
         /\ (\A p \in {q \in paths : q.node = s} : Dated(p) = {}) <=>
              Standing(paths, interval)[s] = "unknown-window"
<1> DEFINE mine == {p \in paths : p.node = s}
           w == ServiceWindow(mine)
           c == Classify(w, interval)
<1>1. Standing(paths, interval)[s] = c
  BY DEF Standing
<1>2. c # "INVALID_RESOLUTION_WINDOW"
  BY <1>1 DEF Refused
<1>3. IsFiniteSet(mine) /\ \A p \in mine : Datable(p)
  BY SubsetSize
<1>4. /\ (\A p \in mine : Dated(p) = {}) => w.from = Absent /\ w.until = Absent
      /\ (\E p \in mine : Dated(p) # {}) => w.from \in Nat /\ w.until \in Nat \cup {Absent}
      /\ \A p \in mine : Dated(p) # {} =>
           /\ w.from <= PathWindow(p).from
           /\ w.until = Absent \/ (PathWindow(p).until # Absent /\ PathWindow(p).until <= w.until)
  <2> HIDE DEF mine
  <2> QED
    BY <1>3, ServiceWindowFacts
<1>5. Absent \notin Nat
  BY WindowAssumption
<1>6. (\A p \in mine : Dated(p) = {}) <=> c = "unknown-window"
  <2>1. (\A p \in mine : Dated(p) = {}) => c = "unknown-window"
    <3> HIDE DEF w, mine
    <3> QED
      BY <1>4 DEF Classify
  <2>2. (\E p \in mine : Dated(p) # {}) => c # "unknown-window"
    <3> HIDE DEF w, mine
    <3> QED
      BY <1>4, <1>5 DEF Classify
  <2> QED
    BY <2>1, <2>2
<1>7. ASSUME NEW p \in paths, p.node = s, ExposedDuring(p, interval) PROVE c = "resolved-during-window"
  <2>1. p \in mine /\ Dated(p) # {}
    BY <1>7 DEF ExposedDuring
  <2>2. PICK x \in Instants(interval) : InForceAt(p, x)
    BY <1>7 DEF ExposedDuring
  <2>3. x \in Nat /\ interval.start <= x /\ (interval.end = Absent \/ x <= interval.end)
    BY DEF Instants
  <2> DEFINE v == PathWindow(p)
  <2>4. /\ v.from \in Nat /\ v.until \in Nat \cup {Absent}
        /\ v.from <= x /\ (v.until = Absent \/ x <= v.until)
    BY <2>1, <2>2, <2>3, PathWindowFacts DEF Datable
  <2>5. /\ w.from \in Nat /\ w.until \in Nat \cup {Absent} /\ w.from <= v.from
        /\ w.until = Absent \/ (v.until # Absent /\ v.until <= w.until)
    BY <1>4, <2>1
  <2>6. interval.start \in Nat /\ interval.end \in Nat \cup {Absent}
    OBVIOUS
  <2> HIDE DEF v, w
  <2>7. w.from <= x /\ (w.until = Absent \/ x <= w.until)
    BY <1>5, <2>3, <2>4, <2>5
  <2>8. Overlap(w, interval)
    BY <1>5, <2>3, <2>5, <2>6, <2>7 DEF Overlap
  <2>9. w.from # Absent
    BY <1>5, <2>5
  <2> QED
    BY <1>2, <2>8, <2>9 DEF Classify
<1> HIDE DEF c
<1> QED
  BY <1>1, <1>6, <1>7

-----------------------------------------------------------------------------
(* What evidence that was read says.                                       *)
Levels == {"unknown", "contextual", "possible", "probable", "strong"}
Strongest(levels) == CHOOSE l \in levels : \A m \in levels : LevelOrder[m] <= LevelOrder[l]

LEMMA LevelFacts ==
  ASSUME NEW levels, levels # {}, levels \subseteq Levels
  PROVE  Strongest(levels) \in levels
<1>2. levels # {} /\ levels \subseteq {"unknown", "contextual", "possible", "probable", "strong"}
  BY DEF Levels
<1>3. /\ LevelOrder["unknown"] = 0 /\ LevelOrder["contextual"] = 1 /\ LevelOrder["possible"] = 2
      /\ LevelOrder["probable"] = 3 /\ LevelOrder["strong"] = 4
  BY DEF LevelOrder
<1>4. \E l \in levels : \A m \in levels : LevelOrder[m] <= LevelOrder[l]
  <2> DEFINE Top(l) == \A m \in levels : LevelOrder[m] <= LevelOrder[l]
  <2>1. CASE "strong" \in levels
    <3>1. Top("strong")
      BY <1>2, <1>3
    <3> QED
      BY <2>1, <3>1
  <2>2. CASE "strong" \notin levels /\ "probable" \in levels
    <3>1. Top("probable")
      BY <1>2, <1>3, <2>2
    <3> QED
      BY <2>2, <3>1
  <2>3. CASE "strong" \notin levels /\ "probable" \notin levels /\ "possible" \in levels
    <3>1. Top("possible")
      BY <1>2, <1>3, <2>3
    <3> QED
      BY <2>3, <3>1
  <2>4. CASE /\ "strong" \notin levels /\ "probable" \notin levels /\ "possible" \notin levels
             /\ "contextual" \in levels
    <3>1. Top("contextual")
      BY <1>2, <1>3, <2>4
    <3> QED
      BY <2>4, <3>1
  <2>5. CASE /\ "strong" \notin levels /\ "probable" \notin levels /\ "possible" \notin levels
             /\ "contextual" \notin levels
    <3>2. \A m \in levels : m = "unknown"
      BY <1>2, <2>5, Zenon
    <3>3. "unknown" \in levels
      BY <1>2, <3>2, Zenon
    <3>1. Top("unknown") /\ "unknown" \in levels
      BY <1>3, <3>2, <3>3
    <3> QED
      BY <3>1
  <2> QED
    BY <2>1, <2>2, <2>3, <2>4, <2>5
<1> QED
  BY <1>4 DEF Strongest

(* The evidence of every hop is there.                                     *)
LEMMA VerifiedFacts ==
  ASSUME NEW paths, NEW read, Referenced(paths) \subseteq read, NEW p \in paths, p.path # <<>>,
         \A e \in EdgesOf(p) : EdgeEvidence[e] # {}
  PROVE  Verified(p, read) /\ \A e \in EdgesOf(p) : EdgeEvidence[e] \subseteq read
<1>1. \A e \in EdgesOf(p) : EdgeEvidence[e] \subseteq Referenced(paths)
  BY DEF Referenced
<1> QED
  BY <1>1 DEF Verified

Evidenced(paths) ==
  \A p \in paths : p.path # <<>> /\ \A e \in EdgesOf(p) : EdgeEvidence[e] # {}
ResolvedBy(p, impact, funnel, catalog) ==
  /\ Verified(p, funnel) /\ (impact.level = "strong" => Confident(p, funnel))
  /\ \A e \in EdgesOf(p) : ExactEvidence(e, catalog) # {}

LEMMA ImpactFacts ==
  ASSUME NEW paths, NEW funnel, NEW catalog,
         IncidentComplete => Referenced(paths) \subseteq funnel, Evidenced(paths),
         NEW s \in DOMAIN Impacts(paths, catalog, IncidentComplete), Impacts(paths, catalog, IncidentComplete)[s].stage = "resolved"
  PROVE  /\ IncidentComplete
         /\ \E p \in paths :
              p.node = s /\ ResolvedBy(p, Impacts(paths, catalog, IncidentComplete)[s], funnel, catalog)
<1> DEFINE mine == {p \in paths : p.node = s}
           exact == {p \in mine : ExactlyResolved(p, catalog, IncidentComplete)}
           levels == {Level(p, catalog, IncidentComplete) : p \in exact}
           best == CHOOSE l \in levels : \A m \in levels : LevelOrder[m] <= LevelOrder[l]
           impact == Impacts(paths, catalog, IncidentComplete)[s]
<1>1. impact = Impact(mine, catalog, IncidentComplete)
  BY DEF Impacts
<1>2. \E p \in mine : ExactlyResolved(p, catalog, IncidentComplete)
  BY <1>1 DEF Impact
<1>3. exact # {} /\ impact.level = best
  BY <1>1, <1>2 DEF Impact
<1>4. best \in levels
  <2>1. levels # {}
    BY <1>3
  <2>2. levels \subseteq Levels
    BY DEF Level, Levels
  <2> HIDE DEF levels
  <2>3. Strongest(levels) \in levels
    BY <2>1, <2>2, LevelFacts
  <2> QED
    BY <2>3 DEF Strongest
<1>5. PICK p \in exact : Level(p, catalog, IncidentComplete) = best
  <2> HIDE DEF exact, best
  <2> QED
    BY <1>4
<1>6. /\ p \in paths /\ p.node = s /\ IncidentComplete
      /\ \A e \in EdgesOf(p) : ExactEvidence(e, catalog) # {}
  BY <1>5 DEF ExactlyResolved, PathComplete
<1>7. Verified(p, funnel) /\ \A e \in EdgesOf(p) : EdgeEvidence[e] \subseteq funnel
  BY <1>6, VerifiedFacts DEF Evidenced
<1>8. best = "strong" => \A e \in EdgesOf(p) : \E n \in ExactEvidence(e, catalog) :
                            EvidenceConfidence[n] >= HighConfidence
  <2> HIDE DEF best
  <2> QED
    BY <1>5 DEF Level
<1>9. best = "strong" => Confident(p, funnel)
  BY <1>7, <1>8 DEF Confident, ExactEvidence
<1> HIDE DEF best, impact, exact
<1> QED
  BY <1>3, <1>6, <1>7, <1>9 DEF impact, ResolvedBy

(* Within the budget nothing is left out.                                  *)
LEMMA BudgetFacts ==
  ASSUME NEW ids, IsFiniteSet(ids), ids \subseteq Nat, Cardinality(ids) <= MaxEvidenceIds
  PROVE  WithinBudget(ids) = ids
<1>1. ASSUME NEW n \in ids PROVE Cardinality({m \in ids : m < n}) < MaxEvidenceIds
  <2> DEFINE below == {m \in ids : m < n}
  <2>1. below \subseteq ids /\ below # ids
    BY <1>1
  <2> HIDE DEF below
  <2>2. /\ Cardinality(below) \in Nat /\ Cardinality(ids) \in Nat
        /\ Cardinality(below) < Cardinality(ids)
    BY <2>1, SubsetSize
  <2>3. Cardinality(below) < MaxEvidenceIds
    BY <2>2, LiveAssumption
  <2> QED
    BY <2>3 DEF below
<1> QED
  BY <1>1 DEF WithinBudget

-----------------------------------------------------------------------------
(* What was found, and what it refers to.                                  *)
FoundInv(R) ==
  /\ R \subseteq TargetsIn(graph.edges)
  /\ SearchInv(search, IndexView, Then, R)

LEMMA FoundFacts ==
  ASSUME GraphInv, NEW R, FoundInv(R)
  PROVE  /\ IsFiniteSet(search.found)
         /\ \A p \in search.found :
              /\ p.path # <<>> /\ Datable(p) /\ p.root \in R /\ p.node \in graph.nodes
              /\ EdgesOf(p) \subseteq graph.edges
              /\ \A e \in EdgesOf(p) : EdgeEvidence[e] # {}
         /\ Referenced(search.found) \subseteq EvidenceNodes(graph.nodes)
         /\ \A n \in R \cup UNION {PathNodes(p) : p \in search.found} :
              NodeEvidence[n] \subseteq EvidenceNodes(graph.nodes)
         /\ search.found \subseteq DependencyPaths(IndexView, R)
<1>1. /\ search.found \subseteq DependencyWays(IndexView, R) /\ IsFiniteSet(search.found)
      /\ \A p \in search.found : NodeKind[p.node] = "Service"
  BY DEF FoundInv, SearchInv, GoodSearch
<1>2. \A p \in search.found : SoundWay(IndexView, R, p)
  BY <1>1, WaysFacts, GraphViews
<1>3. \A p \in search.found :
        /\ EdgesOf(p) \subseteq graph.edges /\ EdgesOf(p) = Range(p.path)
        /\ \A e \in EdgesOf(p) : EdgeEvidence[e] # {} /\ EdgeEvidence[e] \subseteq EvidenceNodes(graph.nodes)
        /\ \A n \in PathNodes(p) : NodeEvidence[n] \subseteq EvidenceNodes(graph.nodes)
        /\ p.path # <<>>
        /\ p.root \in R /\ p.node \in graph.nodes
  BY <1>1, <1>2, PathsAreBacked DEF FoundInv
<1>4. \A p \in search.found : Datable(p)
  <2> TAKE p \in search.found
  <2>1. Dated(p) \subseteq EdgesOf(p)
    BY DEF Dated, EdgesOf
  <2>2. Dated(p) \subseteq Edges /\ IsFiniteSet(Edges)
    BY <1>3, <2>1, GraphViews, GraphAssumption
  <2> QED
    BY <2>2, SubsetSize DEF Datable
<1>5. Referenced(search.found) \subseteq EvidenceNodes(graph.nodes)
  BY <1>3 DEF Referenced
<1>6. \A n \in R : NodeEvidence[n] \subseteq EvidenceNodes(graph.nodes)
  <2>1. R \subseteq EndsOf(graph)
    BY DEF FoundInv, TargetsIn, EndsOf
  <2> QED
    BY <2>1 DEF GraphInv, Supported
<1>7. search.found \subseteq DependencyPaths(IndexView, R)
  BY BlastFoundFacts DEF FoundInv
<1> QED
  BY <1>1, <1>3, <1>4, <1>5, <1>6, <1>7

-----------------------------------------------------------------------------
(* A request: how far it is, and what holds from there on.                 *)
Looking == phase \in {"search", "funnel", "catalog", "composed"} \/ Answered
Searched == phase \in {"funnel", "catalog", "composed"} \/ Answered
Counted == phase \in {"catalog", "composed"} \/ Answered
Composed == phase = "composed" \/ Answered

(* The evidence the incident names was stored when it was asked for.       *)
Named == NodeEvidence[Incident] \subseteq request.stored.nodes
Wanted == Relevant(Incident, affected.versions, affected.evidence, search.found)

SearchedInv ==
  /\ phase = "affected" \/ Looking => Incident \in graph.nodes
  /\ Looking =>
       /\ FoundInv(affected.versions)
       /\ affected.evidence \subseteq EvidenceNodes(graph.nodes)
       /\ ~affected.truncated => TargetsIn(request.stored.edges) \subseteq affected.versions
  /\ Searched => ~Searching(search)

(* What is within the budget is either still asked for or has been read.   *)
ReadInv ==
  /\ evidence \in [{"funnel", "catalog"} -> SUBSET EvidenceNodes(graph.nodes)]
  /\ phase = "funnel" =>
       /\ asked \subseteq Referenced(search.found)
       /\ WithinBudget(Referenced(search.found)) \subseteq asked \cup evidence["funnel"]
  /\ Counted => WithinBudget(Referenced(search.found)) \subseteq evidence["funnel"]
  /\ Named /\ phase = "catalog" =>
       asked \subseteq Wanted /\ WithinBudget(Wanted) \subseteq asked \cup evidence["catalog"]
  /\ Named /\ Composed => WithinBudget(Wanted) \subseteq evidence["catalog"]

AnswerInv ==
  /\ phase \in {"incident", "affected", "search", "funnel", "catalog", "composed", "answered"}
  /\ phase \notin {"composed", "answered"} => answer = [code |-> 0, cause |-> "none"]
  /\ phase \in {"incident", "affected"} => search.queue = <<>>
  /\ Composed => answer = Reply /\ ~Refused(search.found, request.interval)
  /\ answer.cause # "INCONSISTENT_RESPONSE"
  /\ answer.cause = "GRAPH_CORRUPTION" => phase = "answered" /\ (NothingBound \/ NotInForce)

LiveInv == GraphInv /\ SearchedInv /\ ReadInv /\ AnswerInv

LEMMA WantedIsStored ==
  ASSUME LiveInv, Looking
  PROVE  /\ Referenced(search.found) \subseteq Wanted
         /\ Referenced(search.found) \subseteq EvidenceNodes(graph.nodes)
         /\ Named => Wanted \subseteq EvidenceNodes(graph.nodes)
<1>1. FoundInv(affected.versions) /\ affected.evidence \subseteq EvidenceNodes(graph.nodes)
      /\ Incident \in graph.nodes
  BY DEF LiveInv, SearchedInv
<1>2. /\ Referenced(search.found) \subseteq EvidenceNodes(graph.nodes)
      /\ \A n \in affected.versions \cup UNION {PathNodes(p) : p \in search.found} :
           NodeEvidence[n] \subseteq EvidenceNodes(graph.nodes)
  BY <1>1, FoundFacts DEF LiveInv
<1>3. ASSUME Named PROVE NodeEvidence[Incident] \subseteq EvidenceNodes(graph.nodes)
  <2>1. NodeEvidence[Incident] \subseteq graph.nodes
    BY <1>3 DEF Named, LiveInv, GraphInv
  <2>2. Incident \in Written.nodes
    BY <1>1 DEF LiveInv, GraphInv
  <2>3. NodeEvidence[Incident] \subseteq EvidenceNodes(Written.nodes)
    BY <2>2, LiveAssumption DEF Supported
  <2> QED
    BY <2>1, <2>3 DEF EvidenceNodes
<1>4. Wanted = NodeEvidence[Incident] \cup affected.evidence \cup Referenced(search.found)
               \cup UNION {NodeEvidence[n] : n \in affected.versions \cup UNION {PathNodes(p) : p \in search.found}}
  BY DEF Wanted, Relevant
<1> QED
  BY <1>1, <1>2, <1>3, <1>4

LEMMA PublicCodes == \A cause : PublicCode(cause) \in {404, 500, 503}
BY DEF PublicCode

LEMMA LiveBegins == LiveInit => LiveInv
<1> SUFFICES ASSUME LiveInit PROVE LiveInv
  OBVIOUS
<1>1. GraphInv
  BY GraphInit
<1>2. phase = "incident" /\ answer = [code |-> 0, cause |-> "none"] /\ evidence = [funnel |-> {}, catalog |-> {}]
  BY DEF LiveInit
<1>3. ~Answered
  BY <1>2 DEF Answered
<1>4. SearchedInv
  BY <1>2, <1>3 DEF SearchedInv, Looking, Searched
<1>5. ReadInv
  BY <1>2, <1>3 DEF ReadInv, Counted, Composed
<1>6. AnswerInv
  <2>1. search.queue = <<>>
    BY DEF LiveInit, Fresh
  <2> QED
    BY <1>2, <1>3, <2>1 DEF AnswerInv, Composed
<1> QED
  BY <1>1, <1>4, <1>5, <1>6 DEF LiveInv

LEMMA FailureFacts ==
  ASSUME LiveInv, NEW cause, Failed(cause), cause \notin {"GRAPH_CORRUPTION", "INCONSISTENT_RESPONSE"},
         graph' = graph, request' = request, evidence' = evidence
  PROVE  LiveInv'
<1>1. phase' = "answered" /\ answer' = [code |-> PublicCode(cause), cause |-> cause]
  BY DEF Failed, Respond
<1>2. ~Answered'
  BY <1>1, PublicCodes DEF Answered
<1>3. GraphInv'
  BY DEF LiveInv, GraphInv
<1>4. SearchedInv'
  BY <1>1, <1>2 DEF SearchedInv, Looking, Searched
<1>5. ReadInv'
  BY <1>1, <1>2 DEF LiveInv, ReadInv, Counted, Composed
<1>6. AnswerInv'
  BY <1>1, <1>2 DEF AnswerInv, Composed
<1> QED
  BY <1>3, <1>4, <1>5, <1>6 DEF LiveInv

LEMMA CorruptFacts ==
  ASSUME LiveInv, Failed("GRAPH_CORRUPTION"), (NothingBound \/ NotInForce)',
         graph' = graph, request' = request, evidence' = evidence
  PROVE  LiveInv'
<1>1. phase' = "answered" /\ answer' = [code |-> PublicCode("GRAPH_CORRUPTION"), cause |-> "GRAPH_CORRUPTION"]
  BY DEF Failed, Respond
<1>2. ~Answered'
  BY <1>1, PublicCodes DEF Answered
<1>3. GraphInv'
  BY DEF LiveInv, GraphInv
<1>4. SearchedInv'
  BY <1>1, <1>2 DEF SearchedInv, Looking, Searched
<1>5. ReadInv'
  BY <1>1, <1>2 DEF LiveInv, ReadInv, Counted, Composed
<1>6. AnswerInv'
  BY <1>1, <1>2 DEF AnswerInv, Composed
<1> QED
  BY <1>3, <1>4, <1>5, <1>6 DEF LiveInv

(* The writer.                                                             *)
LEMMA PersistKeeps == LiveInv /\ Persist => LiveInv'
<1> SUFFICES ASSUME LiveInv, Persist PROVE LiveInv'
  OBVIOUS
<1>0. /\ phase # "answered" /\ PersistRow /\ request' = request /\ phase' = phase /\ affected' = affected
      /\ search' = search /\ asked' = asked /\ evidence' = evidence /\ answer' = answer
  BY DEF Persist
<1>1. /\ GraphInv' /\ GraphInv
      /\ graph.nodes \subseteq graph'.nodes /\ graph.edges \subseteq graph'.edges
      /\ graph.index \subseteq graph'.index
  BY <1>0, GraphStep DEF LiveInv
<1>2. EvidenceNodes(graph.nodes) \subseteq EvidenceNodes(graph'.nodes)
  BY <1>1 DEF EvidenceNodes
<1>3. TargetsIn(graph.edges) \subseteq TargetsIn(graph'.edges)
  BY <1>1 DEF TargetsIn
<1>4. (Looking' <=> Looking) /\ (Searched' <=> Searched) /\ (Counted' <=> Counted) /\ (Composed' <=> Composed)
  BY <1>0 DEF Looking, Searched, Counted, Composed, Answered
<1>5. (Named' <=> Named) /\ Wanted' = Wanted /\ Then' = Then
  BY <1>0 DEF Named, Wanted, Then
<1>6. Looking => FoundInv(affected.versions)'
  <2> SUFFICES ASSUME Looking PROVE FoundInv(affected.versions)'
    OBVIOUS
  <2>1. FoundInv(affected.versions)
    BY DEF LiveInv, SearchedInv
  <2>2. IndexView \in Views /\ IndexView' \in Views
    <3>1. IndexView \in Views
      BY <1>1, GraphViews
    <3>2. graph'.nodes \subseteq Nodes /\ graph'.index \subseteq Edges
      BY <1>1, LiveAssumption DEF GraphInv, Views
    <3> QED
      BY <3>1, <3>2 DEF Views, IndexView, Paired
  <2>3. Larger(IndexView, IndexView')
    <3>1. Paired \subseteq Paired'
      BY <1>0, <1>1 DEF Paired
    <3> QED
      BY <1>1, <2>2, <3>1 DEF Larger, IndexView
  <2> DEFINE w == IndexView'
             R == affected.versions
  <2>4. SearchInv(search, IndexView, Then, R)
    BY <2>1 DEF FoundInv
  <2>5. SearchInv(search, w, Then, R)
    <3> HIDE DEF w
    <3> QED
      BY <2>3, <2>4, SearchGrows DEF w
  <2>6. R \subseteq TargetsIn(graph.edges)
    BY <2>1 DEF FoundInv
  <2>7. TargetsIn(graph.edges)' = TargetsIn(graph'.edges)
    BY DEF TargetsIn
  <2> QED
    BY <1>0, <1>3, <1>5, <2>5, <2>6, <2>7 DEF FoundInv
<1>7. SearchedInv'
  BY <1>0, <1>1, <1>2, <1>4, <1>6 DEF LiveInv, SearchedInv, TargetsIn, EvidenceNodes
<1>8. ReadInv'
  <2>1. evidence \in [{"funnel", "catalog"} -> SUBSET EvidenceNodes(graph'.nodes)]
    BY <1>2 DEF LiveInv, ReadInv
  <2> QED
    BY <1>0, <1>4, <1>5, <2>1 DEF LiveInv, ReadInv, EvidenceNodes
<1>9. AnswerInv'
  <2>1. Reply' = Reply
    BY <1>0 DEF Reply, Truncated, FunnelRead, IncidentComplete
  <2> QED
    BY <1>0, <1>4, <2>1 DEF LiveInv, AnswerInv
<1> QED
  BY <1>1, <1>7, <1>8, <1>9 DEF LiveInv

(* The reads.                                                              *)
LEMMA ReadIncidentKeeps == LiveInv /\ ReadIncident => LiveInv'
<1> SUFFICES ASSUME LiveInv, ReadIncident PROVE LiveInv'
  OBVIOUS
<1>0. /\ phase = "incident" /\ request' = request /\ graph' = graph /\ affected' = affected
      /\ search' = search /\ asked' = asked /\ evidence' = evidence
  BY DEF ReadIncident
<1>1. CASE Incident \notin graph.nodes
  <2>1. Failed("INCIDENT_NOT_FOUND")
    BY <1>1 DEF ReadIncident
  <2> QED
    BY <1>0, <2>1, FailureFacts
<1>2. CASE Incident \in graph.nodes /\ NodeKind[Incident] # "Incident"
  <2>1. Failed("NODE_KIND_MISMATCH")
    BY <1>2 DEF ReadIncident
  <2> QED
    BY <1>0, <2>1, FailureFacts
<1>3. CASE Incident \in graph.nodes /\ NodeKind[Incident] = "Incident"
  <2>1. phase' = "affected" /\ answer' = answer
    BY <1>3 DEF ReadIncident
  <2>2. ~Answered'
    BY <2>1 DEF Answered
  <2>3. GraphInv'
    BY <1>0 DEF LiveInv, GraphInv
  <2>4. SearchedInv'
    BY <1>0, <1>3, <2>1, <2>2 DEF SearchedInv, Looking, Searched
  <2>5. ReadInv'
    BY <1>0, <2>1, <2>2 DEF LiveInv, ReadInv, Counted, Composed
  <2>6. AnswerInv'
    BY <1>0, <2>1, <2>2 DEF LiveInv, AnswerInv, Composed
  <2> QED
    BY <2>3, <2>4, <2>5, <2>6 DEF LiveInv
<1> QED
  BY <1>1, <1>2, <1>3

LEMMA ReadAffectedKeeps == LiveInv /\ ReadAffected => LiveInv'
<1> SUFFICES ASSUME LiveInv, ReadAffected PROVE LiveInv'
  OBVIOUS
<1>c. CASE request.nullRow /\ AffectsEdges = {}
  <2>1. phase = "affected" /\ Failed("GRAPH_CORRUPTION") /\ UNCHANGED <<request, graph, evidence>>
    BY <1>c DEF ReadAffected
  <2>2. search' = search /\ search.queue = <<>>
    BY <1>c, <2>1 DEF ReadAffected, LiveInv, AnswerInv
  <2>3. NothingBound'
    BY <1>c, <2>1, <2>2 DEF NothingBound, AffectsEdges
  <2> QED
    BY <2>1, <2>3, CorruptFacts
<1>d. SUFFICES ASSUME ~(request.nullRow /\ AffectsEdges = {}) PROVE LiveInv'
  BY <1>c
<1> DEFINE rows == AffectsEdges
           R == Least({Target[e] : e \in rows}, request.maxAffected)
           ids == UNION {EdgeEvidence[e] : e \in {d \in rows : Target[d] \in R}}
<1>0. /\ phase = "affected" /\ phase' = "search" /\ request' = request /\ graph' = graph
      /\ asked' = asked /\ evidence' = evidence /\ answer' = answer
      /\ affected' = [versions |-> R, evidence |-> ids, truncated |-> R # {Target[e] : e \in rows}]
      /\ search' = BlastStart(R)
  BY <1>d DEF ReadAffected
<1>1. GraphInv /\ GraphInv'
  BY <1>0 DEF LiveInv, GraphInv
<1>2. ~Answered'
  BY <1>0 DEF Answered
<1>3. TargetsIn(graph.edges) = {Target[e] : e \in rows}
  BY DEF TargetsIn, AffectsEdges
<1>4. R \subseteq TargetsIn(graph.edges)
  BY <1>3 DEF Least
<1>5. R \subseteq Nodes
  <2>1. rows \subseteq Edges
    BY <1>1, GraphViews DEF AffectsEdges
  <2>2. TargetsIn(graph.edges) \subseteq Nodes
    BY <1>3, <2>1, GraphAssumption
  <2> HIDE DEF R
  <2> QED
    BY <1>4, <2>2
<1>6. ids \subseteq EvidenceNodes(graph.nodes)
  BY <1>1 DEF GraphInv, Supported, AffectsEdges
<1>7. TargetsIn(request.stored.edges) \subseteq TargetsIn(graph.edges)
  BY <1>1 DEF TargetsIn, GraphInv
<1> HIDE DEF R, ids
<1>8. /\ affected'.versions = R /\ affected'.evidence = ids
      /\ affected'.truncated = (R # {Target[e] : e \in rows})
  BY <1>0
<1>9. SearchInv(search', IndexView, Then, R)
  BY <1>0, <1>5, BlastStartFacts
<1>10. IndexView' = IndexView /\ Then' = Then
  BY <1>0 DEF IndexView, Paired, Then
<1>11. FoundInv(affected.versions)'
  <2>1. SearchInv(search', IndexView', Then', affected'.versions)
    BY <1>8, <1>9, <1>10
  <2>2. affected'.versions \subseteq TargetsIn(graph.edges)'
    BY <1>0, <1>4, <1>8 DEF TargetsIn
  <2> QED
    BY <2>1, <2>2 DEF FoundInv
<1>12. SearchedInv'
  <2>1. Incident \in graph.nodes
    BY <1>0 DEF LiveInv, SearchedInv
  <2>2. affected'.evidence \subseteq EvidenceNodes(graph.nodes)'
    BY <1>0, <1>6, <1>8
  <2>3. ~affected'.truncated => TargetsIn(request.stored.edges)' \subseteq affected'.versions
    BY <1>0, <1>3, <1>7, <1>8 DEF TargetsIn
  <2>4. ~Searched'
    BY <1>0, <1>2 DEF Searched
  <2> QED
    BY <1>0, <1>11, <2>1, <2>2, <2>3, <2>4 DEF SearchedInv
<1>13. ReadInv'
  BY <1>0, <1>2 DEF LiveInv, ReadInv, Counted, Composed
<1>14. AnswerInv'
  BY <1>0, <1>2 DEF LiveInv, AnswerInv, Composed
<1> QED
  BY <1>1, <1>12, <1>13, <1>14 DEF LiveInv

(* The index never shows an edge that is not there: a page that is corrupt *)
(* is that for want of a row or because of `asOf`, and one that is read    *)
(* whole shows what there was.                                             *)
LEMMA SearchStepKeeps == LiveInv /\ SearchStep => LiveInv'
<1> SUFFICES ASSUME LiveInv, SearchStep PROVE LiveInv'
  OBVIOUS
<1> DEFINE n == Head(search.queue).node
           reading == /\ search.queue # <<>> /\ NodeKind[n] # "Service" /\ n \notin DOMAIN search.pages
<1>c. CASE reading /\ CorruptPage(n)
  <2>1. /\ phase = "search" /\ Failed("GRAPH_CORRUPTION") /\ search' = search
        /\ UNCHANGED <<request, graph, evidence>>
    BY <1>c DEF SearchStep
  <2>2. graph.index \subseteq graph.edges
    BY DEF LiveInv, GraphInv
  <2>3. NothingBound \/ NotInForce
    <3>1. CASE request.nullRow /\ IndexRows(n) = {}
      BY <1>c, <3>1 DEF NothingBound
    <3>2. CASE ~(IndexRows(n) \subseteq Paired)
      BY <1>c, <2>2, <3>2 DEF NotInForce, Paired, InForce, IndexRows
    <3> QED
      BY <1>c, <3>1, <3>2 DEF CorruptPage
  <2>4. NothingBound' \/ NotInForce'
    BY <2>1, <2>3 DEF NothingBound, NotInForce, AffectsEdges, IndexRows
  <2> QED
    BY <2>1, <2>4, CorruptFacts
<1>d. SUFFICES ASSUME ~(reading /\ CorruptPage(n)) PROVE LiveInv'
  BY <1>c
<1>0. /\ phase = "search" /\ Searching(search) /\ phase' = phase /\ request' = request /\ graph' = graph
      /\ affected' = affected /\ asked' = asked /\ evidence' = evidence /\ answer' = answer
      /\ search' = BlastStep(search, request.limits, IndexView)
  BY <1>d DEF SearchStep
<1>2. GraphInv /\ GraphInv' /\ ~Answered'
  BY <1>0 DEF LiveInv, GraphInv, Answered
<1>3. FoundInv(affected.versions) /\ Looking
  BY <1>0 DEF LiveInv, SearchedInv, Looking
<1>4. SearchInv(search', IndexView, Then, affected.versions)
  <2>1. Older(Then, IndexView)
    BY <1>2, GraphViews
  <2>2. reading /\ ~Dependents(IndexView, n, request.limits.dependents).truncated
          => HopsTo(Then, n) \subseteq HopsTo(IndexView, n)
    <3> SUFFICES ASSUME reading, ~Dependents(IndexView, n, request.limits.dependents).truncated
                 PROVE  HopsTo(Then, n) \subseteq HopsTo(IndexView, n)
      OBVIOUS
    <3>1. IndexRows(n) \subseteq Paired
      BY <1>d DEF CorruptPage
    <3>2. Dependencies(request.stored.edges) \subseteq graph.index /\ request.stored.nodes \subseteq graph.nodes
      BY <1>2 DEF GraphInv
    <3> HIDE DEF n
    <3> QED
      BY <3>1, <3>2 DEF HopsTo, Hoppable, Then, IndexView, IndexRows
  <2>3. SearchInv(search, IndexView, Then, affected.versions) /\ Searching(search)
    BY <1>0, <1>3 DEF FoundInv
  <2> QED
    BY <1>0, <2>1, <2>2, <2>3, BlastStepFacts
<1>5. IndexView' = IndexView /\ Then' = Then
  BY <1>0 DEF IndexView, Paired, Then
<1>6. FoundInv(affected.versions)'
  <2>1. SearchInv(search', IndexView', Then', affected'.versions)
    BY <1>0, <1>4, <1>5
  <2>2. affected'.versions \subseteq TargetsIn(graph.edges)'
    BY <1>0, <1>3 DEF TargetsIn, FoundInv
  <2> QED
    BY <2>1, <2>2 DEF FoundInv
<1>7. SearchedInv'
  <2>1. /\ Incident \in graph.nodes /\ affected.evidence \subseteq EvidenceNodes(graph.nodes)
        /\ ~affected.truncated => TargetsIn(request.stored.edges) \subseteq affected.versions
    BY <1>3 DEF LiveInv, SearchedInv
  <2>2. ~Searched'
    BY <1>0, <1>2 DEF Searched
  <2>3. TargetsIn(request.stored.edges)' = TargetsIn(request.stored.edges)
    BY <1>0 DEF TargetsIn
  <2>4. EvidenceNodes(graph.nodes)' = EvidenceNodes(graph.nodes)
    BY <1>0 DEF EvidenceNodes
  <2> QED
    BY <1>0, <1>6, <2>1, <2>2, <2>3, <2>4 DEF SearchedInv
<1>8. ReadInv'
  BY <1>0, <1>2 DEF LiveInv, ReadInv, Counted, Composed
<1>9. AnswerInv'
  BY <1>0, <1>2 DEF LiveInv, AnswerInv, Composed
<1> QED
  BY <1>2, <1>7, <1>8, <1>9 DEF LiveInv

(* What was searched stays as it is while the evidence is read.            *)
LEMMA SearchedStays ==
  ASSUME LiveInv, Looking, UNCHANGED <<request, graph, affected, search>>,
         Searched' => ~Searching(search)
  PROVE  /\ GraphInv' /\ SearchedInv' /\ Wanted' = Wanted /\ (Named' <=> Named)
         /\ evidence \in [{"funnel", "catalog"} -> SUBSET EvidenceNodes(graph'.nodes)]
<1>1. GraphInv'
  BY DEF LiveInv, GraphInv
<1>2. /\ Incident \in graph.nodes /\ FoundInv(affected.versions)
      /\ affected.evidence \subseteq EvidenceNodes(graph.nodes)
      /\ ~affected.truncated => TargetsIn(request.stored.edges) \subseteq affected.versions
  BY DEF LiveInv, SearchedInv
<1>3. IndexView' = IndexView /\ Then' = Then
  BY DEF IndexView, Paired, Then
<1>4. FoundInv(affected.versions)'
  <2>1. SearchInv(search', IndexView', Then', affected'.versions)
    BY <1>2, <1>3 DEF FoundInv
  <2>2. affected'.versions \subseteq TargetsIn(graph.edges)'
    BY <1>2 DEF TargetsIn, FoundInv
  <2> QED
    BY <2>1, <2>2 DEF FoundInv
<1>5. TargetsIn(request.stored.edges)' = TargetsIn(request.stored.edges)
      /\ EvidenceNodes(graph.nodes)' = EvidenceNodes(graph.nodes)
  BY DEF TargetsIn, EvidenceNodes
<1>6. SearchedInv'
  BY <1>2, <1>4, <1>5 DEF SearchedInv
<1>7. evidence \in [{"funnel", "catalog"} -> SUBSET EvidenceNodes(graph'.nodes)]
  BY DEF LiveInv, ReadInv
<1> QED
  BY <1>1, <1>6, <1>7 DEF Wanted, Named

LEMMA BeginFunnelKeeps == LiveInv /\ BeginFunnel => LiveInv'
<1> SUFFICES ASSUME LiveInv, BeginFunnel PROVE LiveInv'
  OBVIOUS
<1>0. /\ phase = "search" /\ ~Searching(search) /\ phase' = "funnel"
      /\ UNCHANGED <<request, graph, affected, search>> /\ evidence' = evidence /\ answer' = answer
      /\ asked' = WithinBudget(Referenced(search.found))
  BY DEF BeginFunnel
<1>1. ~Answered' /\ Looking
  BY <1>0 DEF Answered, Looking
<1>2. /\ GraphInv' /\ SearchedInv'
      /\ evidence \in [{"funnel", "catalog"} -> SUBSET EvidenceNodes(graph'.nodes)]
  BY <1>0, <1>1, SearchedStays
<1>3. ReadInv'
  <2>1. asked' \subseteq Referenced(search.found)
    BY <1>0 DEF WithinBudget
  <2>2. EvidenceNodes(graph.nodes)' = EvidenceNodes(graph'.nodes)
    BY DEF EvidenceNodes
  <2> QED
    BY <1>0, <1>1, <1>2, <2>1, <2>2 DEF ReadInv, Counted, Composed
<1>4. AnswerInv'
  BY <1>0, <1>1 DEF LiveInv, AnswerInv, Composed
<1> QED
  BY <1>2, <1>3, <1>4 DEF LiveInv

LEMMA BeginCatalogKeeps == LiveInv /\ BeginCatalog => LiveInv'
<1> SUFFICES ASSUME LiveInv, BeginCatalog PROVE LiveInv'
  OBVIOUS
<1>0. /\ phase = "funnel" /\ asked = {} /\ phase' = "catalog"
      /\ UNCHANGED <<request, graph, affected, search>> /\ evidence' = evidence /\ answer' = answer
      /\ asked' = WithinBudget(Wanted)
  BY DEF BeginCatalog, Wanted
<1>1. ~Answered' /\ Looking /\ Searched
  BY <1>0 DEF Answered, Looking, Searched
<1>2. /\ GraphInv' /\ SearchedInv' /\ Wanted' = Wanted
      /\ evidence \in [{"funnel", "catalog"} -> SUBSET EvidenceNodes(graph'.nodes)]
  <2>1. ~Searching(search)
    BY <1>1 DEF LiveInv, SearchedInv
  <2> QED
    BY <1>0, <1>1, <2>1, SearchedStays
<1>3. ReadInv'
  <2>1. asked' \subseteq Wanted
    BY <1>0 DEF WithinBudget
  <2>2. EvidenceNodes(graph.nodes)' = EvidenceNodes(graph'.nodes)
    BY DEF EvidenceNodes
  <2>3. WithinBudget(Referenced(search.found)) \subseteq evidence["funnel"]
    BY <1>0 DEF LiveInv, ReadInv
  <2>4. WithinBudget(Referenced(search.found))' = WithinBudget(Referenced(search.found))
        /\ WithinBudget(Wanted)' = WithinBudget(Wanted)
    BY <1>0, <1>2 DEF WithinBudget, Referenced
  <2> QED
    BY <1>0, <1>1, <1>2, <2>1, <2>2, <2>3, <2>4 DEF ReadInv, Composed
<1>4. AnswerInv'
  BY <1>0, <1>1 DEF LiveInv, AnswerInv, Composed
<1> QED
  BY <1>2, <1>3, <1>4 DEF LiveInv

LEMMA ReadEvidenceKeeps ==
  ASSUME LiveInv, NEW stage \in {"funnel", "catalog"}, ReadEvidence(stage)
  PROVE  LiveInv'
<1>0. PICK n \in Least(asked, 1) :
        /\ asked' = asked \ {n}
        /\ evidence' = IF n \in graph.nodes /\ NodeKind[n] = "Evidence"
                       THEN [evidence EXCEPT ![stage] = @ \cup {n}] ELSE evidence
  BY DEF ReadEvidence
<1>1. /\ phase = stage /\ phase' = phase /\ UNCHANGED <<request, graph, affected, search>> /\ answer' = answer
  BY DEF ReadEvidence
<1>2. ~Answered' /\ ~Answered /\ Looking /\ Searched /\ n \in asked
  BY <1>1 DEF Answered, Looking, Searched, Least
<1>3. /\ GraphInv' /\ SearchedInv' /\ Wanted' = Wanted /\ (Named' <=> Named)
      /\ evidence \in [{"funnel", "catalog"} -> SUBSET EvidenceNodes(graph'.nodes)]
  <2>1. ~Searching(search)
    BY <1>2 DEF LiveInv, SearchedInv
  <2> QED
    BY <1>1, <1>2, <2>1, SearchedStays
<1>4. /\ Referenced(search.found) \subseteq EvidenceNodes(graph.nodes)
      /\ Named => Wanted \subseteq EvidenceNodes(graph.nodes)
  BY <1>2, WantedIsStored
<1>5. /\ evidence' \in [{"funnel", "catalog"} -> SUBSET EvidenceNodes(graph'.nodes)]
      /\ \A x \in {"funnel", "catalog"} : evidence[x] \subseteq evidence'[x]
      /\ n \in EvidenceNodes(graph.nodes) => n \in evidence'[stage]
  <2>1. n \in EvidenceNodes(graph.nodes) <=> n \in graph.nodes /\ NodeKind[n] = "Evidence"
    BY DEF EvidenceNodes
  <2>2. CASE n \in EvidenceNodes(graph.nodes)
    <3>1. evidence' = [evidence EXCEPT ![stage] = @ \cup {n}]
      BY <1>0, <2>1, <2>2
    <3>2. n \in EvidenceNodes(graph'.nodes)
      BY <1>1, <2>2
    <3> QED
      BY <1>3, <3>1, <3>2
  <2>3. CASE n \notin EvidenceNodes(graph.nodes)
    <3>1. evidence' = evidence
      BY <1>0, <2>1, <2>3
    <3> QED
      BY <1>3, <2>3, <3>1
  <2> QED
    BY <2>2, <2>3
<1>6. /\ WithinBudget(Referenced(search.found))' = WithinBudget(Referenced(search.found))
      /\ Referenced(search.found)' = Referenced(search.found)
      /\ WithinBudget(Wanted)' = WithinBudget(Wanted)
      /\ EvidenceNodes(graph.nodes)' = EvidenceNodes(graph'.nodes)
  BY <1>1, <1>3 DEF WithinBudget, Referenced, EvidenceNodes
<1>7. ReadInv'
  <2>1. CASE stage = "funnel"
    <3>1. /\ asked \subseteq Referenced(search.found)
          /\ WithinBudget(Referenced(search.found)) \subseteq asked \cup evidence["funnel"]
      BY <1>1, <2>1 DEF LiveInv, ReadInv
    <3>2. n \in EvidenceNodes(graph.nodes)
      BY <1>2, <1>4, <3>1
    <3>3. /\ asked' \subseteq Referenced(search.found)
          /\ WithinBudget(Referenced(search.found)) \subseteq asked' \cup evidence'["funnel"]
      BY <1>0, <1>5, <2>1, <3>1, <3>2
    <3> QED
      BY <1>1, <1>2, <1>5, <1>6, <2>1, <3>3 DEF ReadInv, Counted, Composed
  <2>2. CASE stage = "catalog"
    <3>1. WithinBudget(Referenced(search.found)) \subseteq evidence["funnel"]
      BY <1>1, <2>2 DEF LiveInv, ReadInv, Counted
    <3>2. ASSUME Named
          PROVE  asked' \subseteq Wanted /\ WithinBudget(Wanted) \subseteq asked' \cup evidence'["catalog"]
      <4>1. asked \subseteq Wanted /\ WithinBudget(Wanted) \subseteq asked \cup evidence["catalog"]
        BY <1>1, <2>2, <3>2 DEF LiveInv, ReadInv
      <4>2. n \in EvidenceNodes(graph.nodes)
        BY <1>2, <1>4, <3>2, <4>1
      <4> QED
        BY <1>0, <1>5, <2>2, <4>1, <4>2
    <3>3. WithinBudget(Referenced(search.found)) \subseteq evidence'["funnel"]
      BY <1>5, <3>1
    <3> QED
      BY <1>1, <1>2, <1>3, <1>5, <1>6, <2>2, <3>2, <3>3 DEF ReadInv, Composed
  <2> QED
    BY <2>1, <2>2
<1>8. AnswerInv'
  BY <1>1, <1>2 DEF LiveInv, AnswerInv, Composed
<1> QED
  BY <1>3, <1>7, <1>8 DEF LiveInv

LEMMA ConcludeKeeps == LiveInv /\ Conclude => LiveInv'
<1> SUFFICES ASSUME LiveInv, Conclude PROVE LiveInv'
  OBVIOUS
<1>0. /\ phase = "catalog" /\ asked = {} /\ asked' = asked /\ evidence' = evidence
      /\ UNCHANGED <<request, graph, affected, search>>
  BY DEF Conclude
<1>1. CASE Refused(search.found, request.interval)
  <2>1. Failed("TEMPORAL_WINDOW")
    BY <1>1 DEF Conclude
  <2> QED
    BY <1>0, <2>1, FailureFacts
<1>2. CASE ~Refused(search.found, request.interval)
  <2>1. phase' = "composed" /\ answer' = Reply
    BY <1>2 DEF Conclude
  <2>2. ~Answered' /\ Looking /\ Searched
    BY <1>0, <2>1 DEF Answered, Looking, Searched
  <2>3. /\ GraphInv' /\ SearchedInv' /\ Wanted' = Wanted /\ (Named' <=> Named)
        /\ evidence \in [{"funnel", "catalog"} -> SUBSET EvidenceNodes(graph'.nodes)]
    <3>1. ~Searching(search)
      BY <2>2 DEF LiveInv, SearchedInv
    <3> QED
      BY <1>0, <2>2, <3>1, SearchedStays
  <2>4. ReadInv'
    <3>1. /\ WithinBudget(Referenced(search.found))' = WithinBudget(Referenced(search.found))
          /\ WithinBudget(Wanted)' = WithinBudget(Wanted)
          /\ EvidenceNodes(graph.nodes)' = EvidenceNodes(graph'.nodes)
      BY <1>0, <2>3 DEF WithinBudget, Referenced, EvidenceNodes
    <3>2. /\ WithinBudget(Referenced(search.found)) \subseteq evidence["funnel"]
          /\ Named => WithinBudget(Wanted) \subseteq evidence["catalog"]
      BY <1>0 DEF LiveInv, ReadInv, Counted
    <3> QED
      BY <1>0, <2>1, <2>2, <2>3, <3>1, <3>2 DEF ReadInv
  <2>5. AnswerInv'
    <3>1. Reply' = Reply /\ Reply.cause = "none"
      BY <1>0 DEF Reply, Truncated, FunnelRead, IncidentComplete
    <3> QED
      BY <1>0, <1>2, <2>1, <3>1 DEF AnswerInv
  <2> QED
    BY <2>3, <2>4, <2>5 DEF LiveInv
<1> QED
  BY <1>1, <1>2

(* What a reply says of itself always passes assertAnalysisResponse.       *)
LEMMA RepliesAreConsistent ==
  ASSUME LiveInv, phase = "composed"
  PROVE  Consistent
<1>1. answer = Reply /\ FoundInv(affected.versions)
  BY DEF LiveInv, AnswerInv, SearchedInv, Composed, Looking
<1>2. /\ IsFiniteSet(search.found)
      /\ \A p \in search.found : p.root \in affected.versions /\ p.node \in graph.nodes
  BY <1>1, FoundFacts DEF LiveInv
<1> DEFINE found == search.found
           verified == {p \in found : Verified(p, evidence.funnel)}
           confident == {p \in found : Confident(p, evidence.funnel)}
           services(paths) == {p.node : p \in paths}
<1>3. /\ answer.found = found /\ answer.funnel.candidates = found
      /\ answer.funnel.verified = verified /\ answer.funnel.confident = confident
      /\ DOMAIN answer.impacts = services(found)
  <2>1. /\ answer.found = found /\ answer.funnel = [FunnelRead EXCEPT !.completeForIncident = IncidentComplete]
        /\ answer.impacts = Impacts(found, evidence.catalog, IncidentComplete)
    BY <1>1 DEF Reply
  <2>2. DOMAIN answer.impacts = services(found)
    BY <2>1 DEF Impacts
  <2>3. /\ answer.funnel.candidates = found /\ answer.funnel.verified = verified
        /\ answer.funnel.confident = confident
    BY <2>1 DEF FunnelRead, Funnel
  <2> QED
    BY <2>1, <2>2, <2>3
<1>4. confident \subseteq verified /\ verified \subseteq found
  BY DEF Confident
<1>5. services(confident) \subseteq services(verified) /\ services(verified) \subseteq services(found)
  BY <1>4
<1>6. IsFiniteSet(services(found))
  <2>1. services(found) \subseteq Nodes
    BY <1>2, GraphViews DEF LiveInv
  <2> HIDE DEF services
  <2> QED
    BY <2>1, SubsetSize, GraphAssumption
<1> HIDE DEF confident, verified, found, services
<1>7. /\ IsFiniteSet(verified) /\ Cardinality(verified) <= Cardinality(found)
      /\ Cardinality(confident) <= Cardinality(verified)
  BY <1>2, <1>4, SubsetSize DEF found
<1>8. /\ IsFiniteSet(services(verified)) /\ Cardinality(services(verified)) <= Cardinality(services(found))
      /\ Cardinality(services(confident)) <= Cardinality(services(verified))
  BY <1>5, <1>6, SubsetSize
<1>9. {p.root : p \in found} \subseteq affected.versions
  BY <1>2 DEF found
<1> QED
  BY <1>3, <1>7, <1>8, <1>9 DEF Consistent, services

LEMMA SendKeeps == LiveInv /\ Send => LiveInv'
<1> SUFFICES ASSUME LiveInv, Send PROVE LiveInv'
  OBVIOUS
<1>0. /\ phase = "composed" /\ asked' = asked /\ evidence' = evidence
      /\ UNCHANGED <<request, graph, affected, search>>
  BY DEF Send
<1>1. Consistent
  BY <1>0, RepliesAreConsistent
<1>2. phase' = "answered" /\ answer' = answer
  BY <1>1 DEF Send, Respond
<1>3. Looking /\ Searched /\ Composed /\ answer = Reply /\ ~Refused(search.found, request.interval)
  BY <1>0 DEF Looking, Searched, Composed, LiveInv, AnswerInv
<1>4. answer'.code = 200 /\ Answered'
  BY <1>2, <1>3 DEF Reply, Answered
<1>5. /\ GraphInv' /\ SearchedInv' /\ Wanted' = Wanted /\ (Named' <=> Named)
      /\ evidence \in [{"funnel", "catalog"} -> SUBSET EvidenceNodes(graph'.nodes)]
  <2>1. ~Searching(search)
    BY <1>3 DEF LiveInv, SearchedInv
  <2> QED
    BY <1>0, <1>3, <2>1, SearchedStays
<1>6. ReadInv'
  <2>1. /\ WithinBudget(Referenced(search.found))' = WithinBudget(Referenced(search.found))
        /\ WithinBudget(Wanted)' = WithinBudget(Wanted)
        /\ EvidenceNodes(graph.nodes)' = EvidenceNodes(graph'.nodes)
    BY <1>0, <1>5 DEF WithinBudget, Referenced, EvidenceNodes
  <2>2. /\ WithinBudget(Referenced(search.found)) \subseteq evidence["funnel"]
        /\ Named => WithinBudget(Wanted) \subseteq evidence["catalog"]
    BY <1>0, <1>3 DEF LiveInv, ReadInv, Counted
  <2> QED
    BY <1>0, <1>2, <1>5, <2>1, <2>2 DEF ReadInv
<1>7. AnswerInv'
  <2>1. Reply' = Reply
    BY <1>0 DEF Reply, Truncated, FunnelRead, IncidentComplete
  <2> QED
    BY <1>0, <1>2, <1>3, <2>1 DEF LiveInv, AnswerInv
<1> QED
  BY <1>5, <1>6, <1>7 DEF LiveInv

LEMMA StutterKeeps == LiveInv /\ UNCHANGED liveVars => LiveInv'
<1> SUFFICES ASSUME LiveInv, UNCHANGED liveVars PROVE LiveInv'
  OBVIOUS
<1>0. UNCHANGED <<request, graph, phase, affected, search, asked, evidence, answer>>
  BY DEF liveVars
<1>1. GraphInv'
  BY <1>0 DEF LiveInv, GraphInv
<1>2. (Looking' <=> Looking) /\ (Searched' <=> Searched) /\ (Counted' <=> Counted) /\ (Composed' <=> Composed)
      /\ (Named' <=> Named) /\ Wanted' = Wanted
  BY <1>0 DEF Looking, Searched, Counted, Composed, Answered, Named, Wanted
<1>3. (FoundInv(affected.versions))' <=> FoundInv(affected.versions)
  BY <1>0 DEF FoundInv, TargetsIn, IndexView, Paired, Then
<1>4. SearchedInv'
  BY <1>0, <1>2, <1>3 DEF LiveInv, SearchedInv, TargetsIn, EvidenceNodes
<1>5. ReadInv'
  BY <1>0, <1>2 DEF LiveInv, ReadInv, EvidenceNodes
<1>6. AnswerInv'
  <2>1. Reply' = Reply
    BY <1>0 DEF Reply, Truncated, FunnelRead, IncidentComplete
  <2> QED
    BY <1>0, <1>2, <2>1 DEF LiveInv, AnswerInv, NothingBound, NotInForce, AffectsEdges, IndexRows
<1> QED
  BY <1>1, <1>4, <1>5, <1>6 DEF LiveInv

LEMMA LiveKeeps == LiveInv /\ [LiveNext]_liveVars => LiveInv'
<1> SUFFICES ASSUME LiveInv, [LiveNext]_liveVars PROVE LiveInv'
  OBVIOUS
<1>1. CASE ReadIncident BY <1>1, ReadIncidentKeeps
<1>2. CASE ReadAffected BY <1>2, ReadAffectedKeeps
<1>3. CASE SearchStep BY <1>3, SearchStepKeeps
<1>4. CASE BeginFunnel BY <1>4, BeginFunnelKeeps
<1>5. CASE ReadEvidence("funnel") BY <1>5, ReadEvidenceKeeps
<1>6. CASE BeginCatalog BY <1>6, BeginCatalogKeeps
<1>7. CASE ReadEvidence("catalog") BY <1>7, ReadEvidenceKeeps
<1>8. CASE Conclude BY <1>8, ConcludeKeeps
<1>9. CASE Send BY <1>9, SendKeeps
<1>10. CASE StatementFails
  <2>1. PICK cause \in {"INVALID_EVIDENCE_RESULT", "DATABASE_QUERY_FAILED"} : Failed(cause)
    BY <1>10 DEF StatementFails
  <2> QED
    BY <1>10, <2>1, FailureFacts DEF StatementFails
<1>11. CASE Persist BY <1>11, PersistKeeps
<1>12. CASE UNCHANGED liveVars BY <1>12, StutterKeeps
<1> QED
  BY <1>1, <1>2, <1>3, <1>4, <1>5, <1>6, <1>7, <1>8, <1>9, <1>10, <1>11, <1>12
  DEF LiveNext, ReadStep

-----------------------------------------------------------------------------
(* What an answer says.                                                    *)
LEMMA AnsweredFacts ==
  ASSUME LiveInv, Answered
  PROVE  /\ answer.found = search.found /\ answer.truncated = Truncated
         /\ answer.funnel = [FunnelRead EXCEPT !.completeForIncident = IncidentComplete]
         /\ answer.standing = Standing(search.found, request.interval)
         /\ answer.history = HistoryComplete(search.found, Truncated)
         /\ answer.impacts = Impacts(search.found, evidence.catalog, IncidentComplete)
         /\ ~Refused(search.found, request.interval) /\ ~Searching(search)
         /\ FoundInv(affected.versions) /\ Looking /\ Composed /\ Counted
<1>1. Composed /\ Looking /\ Searched /\ Counted
  BY DEF Composed, Looking, Searched, Counted
<1>2. answer = Reply /\ ~Refused(search.found, request.interval) /\ ~Searching(search)
      /\ FoundInv(affected.versions)
  BY <1>1 DEF LiveInv, AnswerInv, SearchedInv
<1> QED
  BY <1>1, <1>2 DEF Reply

LEMMA CandidatesFollow == LiveInv => CandidatesAreReachable
<1> SUFFICES ASSUME LiveInv, Answered
             PROVE  /\ answer.found \subseteq PathsNow
                    /\ ~answer.truncated => PathsThen \subseteq answer.found
  BY DEF CandidatesAreReachable
<1> DEFINE R == affected.versions
<1>1. /\ answer.found = search.found /\ answer.truncated = Truncated /\ ~Searching(search)
      /\ R \subseteq TargetsIn(graph.edges) /\ SearchInv(search, IndexView, Then, R)
      /\ ~affected.truncated => TargetsIn(request.stored.edges) \subseteq R
      /\ FoundInv(R)
  BY AnsweredFacts DEF FoundInv, LiveInv, SearchedInv
<1>2. PathsNow = DependencyPaths(IndexView, TargetsIn(graph.edges))
      /\ PathsThen = DependencyPaths(Then, TargetsIn(request.stored.edges))
  BY DEF PathsNow, PathsThen, Then, TargetsIn, AffectsEdges
<1>3. Older(Then, IndexView) /\ IndexView \in Views /\ Then \in Views
  BY GraphViews DEF LiveInv, Older
<1> HIDE DEF R
<1>4. \A v \in Views : \A S, Q : S \subseteq Q => DependencyPaths(v, S) \subseteq DependencyPaths(v, Q)
  <2> SUFFICES ASSUME NEW v \in Views, NEW S, NEW Q, S \subseteq Q
               PROVE  DependencyPaths(v, S) \subseteq DependencyPaths(v, Q)
    OBVIOUS
  <2>1. DependencyWays(v, S) \subseteq DependencyWays(v, Q)
    BY WaysGrow
  <2> QED
    BY <2>1, PathsAreWays
<1>5. search.found \subseteq DependencyPaths(IndexView, R)
  BY <1>1, FoundFacts DEF LiveInv
<1>6. ~Truncated => DependencyPaths(Then, R) \subseteq search.found
  <2>1. ~Truncated => ~search.truncated
    BY DEF Truncated
  <2> QED
    BY <1>1, <1>3, <2>1, BlastEndFacts
<1>7. ~Truncated => ~affected.truncated
  BY DEF Truncated
<1> QED
  BY <1>1, <1>2, <1>3, <1>4, <1>5, <1>6, <1>7

LEMMA OutsideFollows == LiveInv => OutsideIsOutside
<1> SUFFICES ASSUME LiveInv, Answered, NEW s \in DOMAIN answer.standing
             PROVE  LET paths == {p \in answer.found : p.node = s}
                    IN  /\ (\E p \in paths : ExposedDuring(p, request.interval)) =>
                             answer.standing[s] = "resolved-during-window"
                        /\ (\A p \in paths : Dated(p) = {}) <=> answer.standing[s] = "unknown-window"
                        /\ answer.history => answer.standing[s] # "unknown-window" /\ ~answer.truncated
  BY DEF OutsideIsOutside
<1>1. /\ answer.found = search.found /\ answer.truncated = Truncated
      /\ answer.standing = Standing(search.found, request.interval)
      /\ answer.history = HistoryComplete(search.found, Truncated)
      /\ ~Refused(search.found, request.interval) /\ FoundInv(affected.versions)
  BY AnsweredFacts
<1>2. IsFiniteSet(search.found) /\ \A p \in search.found : Datable(p)
  BY <1>1, FoundFacts DEF LiveInv
<1>3. s \in {p.node : p \in search.found}
  BY <1>1 DEF Standing
<1>4. request.interval \in [start : Nat, end : Nat \cup {Absent}]
  BY DEF LiveInv, GraphInv
<1>5. /\ (\E p \in search.found : p.node = s /\ ExposedDuring(p, request.interval)) =>
           answer.standing[s] = "resolved-during-window"
      /\ (\A p \in {q \in search.found : q.node = s} : Dated(p) = {}) <=>
           answer.standing[s] = "unknown-window"
  BY <1>1, <1>2, <1>3, <1>4, StandingFacts
<1>6. answer.history => ~Truncated /\ \A p \in search.found : Dated(p) # {}
  BY <1>1 DEF HistoryComplete
<1> QED
  BY <1>1, <1>3, <1>5, <1>6

LEMMA CompleteFacts ==
  ASSUME LiveInv, Answered, IncidentComplete
  PROVE  /\ ~Truncated
         /\ Referenced(search.found) \subseteq evidence.funnel
         /\ Referenced(search.found) \subseteq evidence.catalog
<1>1. /\ LookupComplete(Referenced(search.found), evidence.funnel) /\ ~Truncated
      /\ LookupComplete(Wanted, evidence.catalog)
  BY DEF IncidentComplete, FunnelRead, Funnel, Wanted
<1>2. Referenced(search.found) \subseteq Wanted
  BY AnsweredFacts, WantedIsStored
<1> QED
  BY <1>1, <1>2 DEF LookupComplete

LEMMA ResolvedFollows == LiveInv => ResolvedIsBacked
<1> SUFFICES ASSUME LiveInv, Answered
             PROVE  /\ \A s \in DOMAIN answer.impacts : answer.impacts[s].stage = "resolved" =>
                         /\ ~answer.truncated /\ answer.funnel.completeForIncident
                         /\ \E p \in answer.found :
                              /\ p.node = s /\ p \in answer.funnel.verified
                              /\ answer.impacts[s].level = "strong" => p \in answer.funnel.confident
                              /\ \A e \in EdgesOf(p) : ExactEvidence(e, graph.nodes) # {}
                    /\ answer.funnel.completeForIncident =>
                         /\ answer.funnel.verified = answer.found
                         /\ Referenced(answer.found) \subseteq evidence.funnel \cap evidence.catalog
  BY DEF ResolvedIsBacked
<1> DEFINE found == search.found
           verified == {p \in found : Verified(p, evidence.funnel)}
           confident == {p \in found : Confident(p, evidence.funnel)}
<1>1. /\ answer.found = found /\ answer.truncated = Truncated
      /\ answer.impacts = Impacts(found, evidence.catalog, IncidentComplete)
      /\ FoundInv(affected.versions)
  BY AnsweredFacts
<1>2. answer.funnel.verified = verified /\ answer.funnel.confident = confident
      /\ (answer.funnel.completeForIncident <=> IncidentComplete)
  <2>1. answer.funnel = [FunnelRead EXCEPT !.completeForIncident = IncidentComplete]
    BY AnsweredFacts
  <2> QED
    BY <2>1 DEF FunnelRead, Funnel
<1>3. \A p \in found : p.path # <<>> /\ \A e \in EdgesOf(p) : EdgeEvidence[e] # {}
  BY <1>1, FoundFacts DEF LiveInv
<1>4. IncidentComplete => /\ ~Truncated /\ Referenced(found) \subseteq evidence.funnel
                          /\ Referenced(found) \subseteq evidence.catalog
  BY CompleteFacts
<1>6. evidence.catalog \subseteq graph.nodes
  BY DEF LiveInv, ReadInv, EvidenceNodes
<1>7. IncidentComplete => verified = found
  BY <1>3, <1>4, VerifiedFacts
<1>8. ASSUME NEW s \in DOMAIN answer.impacts, answer.impacts[s].stage = "resolved"
      PROVE  /\ ~answer.truncated /\ IncidentComplete
             /\ \E p \in found :
                  /\ p.node = s /\ p \in verified
                  /\ answer.impacts[s].level = "strong" => p \in confident
                  /\ \A e \in EdgesOf(p) : ExactEvidence(e, graph.nodes) # {}
  <2>1. s \in DOMAIN Impacts(found, evidence.catalog, IncidentComplete)
    BY <1>1
  <2>a. Evidenced(found) /\ (IncidentComplete => Referenced(found) \subseteq evidence.funnel)
    BY <1>3, <1>4 DEF Evidenced
  <2>2. Impacts(found, evidence.catalog, IncidentComplete)[s].stage = "resolved"
    BY <1>1, <1>8
  <2> HIDE DEF found
  <2>3. /\ IncidentComplete
        /\ \E p \in found :
             /\ p.node = s
             /\ ResolvedBy(p, Impacts(found, evidence.catalog, IncidentComplete)[s],
                           evidence.funnel, evidence.catalog)
    BY <2>a, <2>1, <2>2, ImpactFacts
  <2>4. \A e : ExactEvidence(e, evidence.catalog) \subseteq ExactEvidence(e, graph.nodes)
    BY <1>6 DEF ExactEvidence
  <2> QED
    BY <1>1, <1>4, <2>3, <2>4 DEF ResolvedBy
<1> HIDE DEF verified, confident
<1> QED
  BY <1>1, <1>2, <1>4, <1>7, <1>8

LEMMA WritingFollows == LiveInv => WritingIsNotCorruption
<1> SUFFICES ASSUME LiveInv PROVE WritingIsNotCorruption
  OBVIOUS
<1>1. /\ answer.cause # "INCONSISTENT_RESPONSE"
      /\ answer.cause = "GRAPH_CORRUPTION" => NothingBound \/ NotInForce
  BY DEF LiveInv, AnswerInv
<1>2. ASSUME Answered, ~answer.truncated, Named,
             Cardinality(Relevant(Incident, affected.versions, affected.evidence, answer.found)) <= MaxEvidenceIds
      PROVE  answer.funnel.completeForIncident
  <2> DEFINE refs == Referenced(search.found)
  <2>1. /\ answer.found = search.found /\ ~Truncated /\ Looking /\ Composed /\ Counted
        /\ answer.funnel = [FunnelRead EXCEPT !.completeForIncident = IncidentComplete]
    BY <1>2, AnsweredFacts
  <2>2. Cardinality(Wanted) <= MaxEvidenceIds
    BY <1>2, <2>1 DEF Wanted
  <2>3. refs \subseteq Wanted /\ Wanted \subseteq EvidenceNodes(graph.nodes)
    BY <1>2, <2>1, WantedIsStored
  <2>4. Wanted \subseteq Nodes /\ Nodes \subseteq Nat /\ IsFiniteSet(Nodes)
    BY <2>3, GraphViews, GraphAssumption DEF LiveInv, EvidenceNodes
  <2>5. IsFiniteSet(Wanted) /\ Wanted \subseteq Nat /\ refs \subseteq Nat
    BY <2>3, <2>4, SubsetSize
  <2> HIDE DEF refs
  <2>6. IsFiniteSet(refs) /\ Cardinality(refs) <= MaxEvidenceIds
    <3>1. /\ IsFiniteSet(refs) /\ Cardinality(refs) \in Nat /\ Cardinality(Wanted) \in Nat
          /\ Cardinality(refs) <= Cardinality(Wanted)
      BY <2>3, <2>5, SubsetSize
    <3>2. MaxEvidenceIds \in Nat
      BY LiveAssumption
    <3> QED
      BY <2>2, <3>1, <3>2
  <2>7. WithinBudget(refs) = refs /\ WithinBudget(Wanted) = Wanted
    BY <2>2, <2>5, <2>6, BudgetFacts
  <2>8. refs \subseteq evidence.funnel /\ Wanted \subseteq evidence.catalog
    BY <1>2, <2>1, <2>7 DEF LiveInv, ReadInv, refs
  <2>9. LookupComplete(refs, evidence.funnel) /\ LookupComplete(Wanted, evidence.catalog)
    BY <2>7, <2>8 DEF LookupComplete
  <2>10. IncidentComplete
    BY <2>1, <2>9 DEF IncidentComplete, FunnelRead, Funnel, Wanted, refs
  <2> QED
    BY <2>1, <2>10 DEF FunnelRead, Funnel
<1> QED
  BY <1>1, <1>2 DEF WritingIsNotCorruption, Named

-----------------------------------------------------------------------------
(* A search of a batch, from its first turn to its last.  The recursive    *)
(* functions of the model are of one form, a rewriting that is repeated;   *)
(* `how` says which.                                                       *)
Rewritten(how, i, s) ==
  CASE how.of = "blast" -> IF Searching(s) THEN BlastStep(s, how.lim, how.view) ELSE s
    [] how.of = "overlay" -> IF Searching(s) THEN OverlayStep(s, how.lim, how.view, how.hidden) ELSE s
    [] how.of = "authority" -> IF Searching(s) THEN AuthorityStep(s, how.lim, how.view, how.seeds) ELSE s
    [] how.of = "hops" -> FollowAuthority(s, how.lim, how.item, how.hops[i])
    [] how.of = "trace" -> FollowHop(s, how.way, how.hops[i])

Repeats(f, N, B, how) == f = [i \in 0..N |-> IF i = 0 THEN B ELSE Rewritten(how, i, f[i - 1])]

LEMMA Repeated ==
  ASSUME NEW N \in Nat, NEW B, NEW how
  PROVE  \E f : Repeats(f, N, B, how)
<1> DEFINE F(f, n) == [i \in 0..n |-> IF i = 0 THEN B ELSE Rewritten(how, i, f[i - 1])]
           G == {n \in 0..N : \E f : f = F(f, n)}
<1>1. 0 \in G
  <2> DEFINE f == [i \in 0..0 |-> B]
  <2>0. \A i \in 0..0 : i = 0
    OBVIOUS
  <2>1. f = F(f, 0)
    BY <2>0
  <2>2. 0 \in 0..N
    OBVIOUS
  <2> QED
    BY <2>1, <2>2
<1>2. ASSUME NEW n \in 0..N, n \in G, n < N PROVE n + 1 \in G
  <2>1. PICK f : f = F(f, n)
    BY <1>2
  <2> DEFINE h == [i \in 0..(n + 1) |-> IF i <= n THEN f[i] ELSE Rewritten(how, n + 1, f[n])]
  <2>2. \A i \in 0..n : f[i] = IF i = 0 THEN B ELSE Rewritten(how, i, f[i - 1])
    <3> TAKE i \in 0..n
    <3>1. F(f, n)[i] = IF i = 0 THEN B ELSE Rewritten(how, i, f[i - 1])
      OBVIOUS
    <3> QED
      BY <2>1, <3>1
  <2>3. \A i \in 0..(n + 1) : h[i] = IF i = 0 THEN B ELSE Rewritten(how, i, h[i - 1])
    <3> TAKE i \in 0..(n + 1)
    <3>1. CASE i = 0
      <4>1. 0 \in 0..n /\ 0 \in 0..(n + 1) /\ 0 <= n
        OBVIOUS
      <4>2. f[0] = B
        BY <4>1, <2>2
      <4>3. h[0] = f[0]
        BY <4>1
      <4> QED
        BY <3>1, <4>2, <4>3
    <3>2. CASE i # 0 /\ i <= n
      <4>1. i \in 0..n /\ i - 1 \in 0..(n + 1) /\ i - 1 <= n
        BY <3>2
      <4>2. h[i] = f[i] /\ h[i - 1] = f[i - 1]
        BY <3>2, <4>1
      <4> QED
        BY <3>2, <4>1, <4>2, <2>2
    <3>3. CASE i = n + 1
      <4>1. ~(i <= n) /\ i - 1 = n /\ n \in 0..(n + 1) /\ i # 0 /\ n <= n
        BY <3>3
      <4>2. h[i] = Rewritten(how, n + 1, f[n]) /\ h[i - 1] = f[n]
        BY <4>1
      <4> QED
        BY <3>3, <4>1, <4>2
    <3> QED
      BY <3>1, <3>2, <3>3
  <2>4. h = F(h, n + 1)
    <3> HIDE DEF h
    <3>1. h = [i \in 0..(n + 1) |-> h[i]]
      BY DEF h
    <3> QED
      BY <2>3, <3>1
  <2>5. n + 1 \in 0..N
    BY <1>2
  <2> QED
    BY <2>4, <2>5
<1>3. N \in G
  <2> HIDE DEF G
  <2>1. 0..N \subseteq G
    BY <1>1, <1>2, UpTo
  <2> QED
    BY <2>1
<1> QED
  BY <1>3 DEF Repeats

(* A function that the model defines in this way takes these values.       *)
Unrolls(f, N, B, how) == f[0] = B /\ \A i \in 1..N : f[i] = Rewritten(how, i, f[i - 1])

LEMMA RepeatsUnrolls ==
  ASSUME NEW N \in Nat, NEW B, NEW how, NEW f, Repeats(f, N, B, how)
  PROVE  Unrolls(f, N, B, how)
<1> DEFINE F == [i \in 0..N |-> IF i = 0 THEN B ELSE Rewritten(how, i, f[i - 1])]
<1>1. f = F
  BY DEF Repeats
<1>2. F[0] = B
  OBVIOUS
<1>3. \A i \in 1..N : F[i] = Rewritten(how, i, f[i - 1])
  <2> TAKE i \in 1..N
  <2>1. i \in 0..N /\ i # 0
    OBVIOUS
  <2> QED
    BY <2>1
<1> HIDE DEF F
<1> QED
  BY <1>1, <1>2, <1>3 DEF Unrolls

BlastHow(view, lim) == [of |-> "blast", lim |-> lim, view |-> view]
OverlayHow(view, hidden, lim) == [of |-> "overlay", lim |-> lim, view |-> view, hidden |-> hidden]
AuthorityHow(view, seeds, lim) == [of |-> "authority", lim |-> lim, view |-> view, seeds |-> seeds]
HopsHow(lim, item, hops) == [of |-> "hops", lim |-> lim, item |-> item, hops |-> hops]
TraceHow(way, hops) == [of |-> "trace", way |-> way, hops |-> hops]

LEMMA HowFacts ==
  /\ \A view, lim, i, s : Rewritten(BlastHow(view, lim), i, s)
       = IF Searching(s) THEN BlastStep(s, lim, view) ELSE s
  /\ \A view, hidden, lim, i, s : Rewritten(OverlayHow(view, hidden, lim), i, s)
       = IF Searching(s) THEN OverlayStep(s, lim, view, hidden) ELSE s
  /\ \A view, seeds, lim, i, s : Rewritten(AuthorityHow(view, seeds, lim), i, s)
       = IF Searching(s) THEN AuthorityStep(s, lim, view, seeds) ELSE s
  /\ \A lim, item, hops, i, s : Rewritten(HopsHow(lim, item, hops), i, s)
       = FollowAuthority(s, lim, item, hops[i])
  /\ \A way, hops, i, s : Rewritten(TraceHow(way, hops), i, s) = FollowHop(s, way, hops[i])
BY DEF Rewritten, BlastHow, OverlayHow, AuthorityHow, HopsHow, TraceHow

LEMMA BlastRuns ==
  ASSUME NEW view, NEW roots, NEW lim, lim.states + Len(BlastStart(roots).roots) \in Nat
  PROVE  \E after : /\ Unrolls(after, lim.states + Len(BlastStart(roots).roots), BlastStart(roots), BlastHow(view, lim))
                    /\ BlastRadius(view, roots, lim) = after[lim.states + Len(BlastStart(roots).roots)]
<1> DEFINE t == BlastStart(roots)
           N == lim.states + Len(t.roots)
           how == BlastHow(view, lim)
           F(f) == [i \in 0..N |-> IF i = 0 THEN t
                                   ELSE LET s == f[i - 1] IN IF Searching(s) THEN BlastStep(s, lim, view) ELSE s]
           after == CHOOSE f : f = F(f)
<1>1. BlastRadius(view, roots, lim) = after[N]
  BY DEF BlastRadius, RunToEnd
<1>2. N \in Nat
  OBVIOUS
<1> HIDE DEF N, t, how
<1>3. \A f : f = F(f) <=> Repeats(f, N, t, how)
  BY HowFacts DEF Repeats, how
<1>4. \E f : f = F(f)
  BY <1>2, <1>3, Repeated
<1>5. after = F(after)
  BY <1>4
<1>6. Repeats(after, N, t, how)
  BY <1>3, <1>5
<1> HIDE DEF after
<1>7. Unrolls(after, N, t, how)
  BY <1>2, <1>6, RepeatsUnrolls
<1> QED
  BY <1>1, <1>7 DEF N, t, how

LEMMA OverlayRuns ==
  ASSUME NEW view, NEW hidden, NEW p,
         p.blast.states + Len(BlastStart(p.affected).roots) \in Nat
  PROVE  \E after : /\ Unrolls(after, p.blast.states + Len(BlastStart(p.affected).roots), BlastStart(p.affected),
                               OverlayHow(view, hidden, p.blast))
                    /\ BlastBehind(view, hidden, p) = after[p.blast.states + Len(BlastStart(p.affected).roots)]
<1> DEFINE t == BlastStart(p.affected)
           N == p.blast.states + Len(t.roots)
           how == OverlayHow(view, hidden, p.blast)
           F(f) == [i \in 0..N |-> IF i = 0 THEN t
                                   ELSE LET s == f[i - 1]
                                        IN  IF Searching(s) THEN OverlayStep(s, p.blast, view, hidden) ELSE s]
           after == CHOOSE f : f = F(f)
<1>1. BlastBehind(view, hidden, p) = after[N]
  BY DEF BlastBehind, RunToEnd
<1>2. N \in Nat
  OBVIOUS
<1> HIDE DEF N, t, how
<1>3. \A f : f = F(f) <=> Repeats(f, N, t, how)
  BY HowFacts DEF Repeats, how
<1>4. \E f : f = F(f)
  BY <1>2, <1>3, Repeated
<1>5. after = F(after)
  BY <1>4
<1>6. Repeats(after, N, t, how)
  BY <1>3, <1>5
<1> HIDE DEF after
<1>7. Unrolls(after, N, t, how)
  BY <1>2, <1>6, RepeatsUnrolls
<1> QED
  BY <1>1, <1>7 DEF N, t, how

LEMMA AuthorityRuns ==
  ASSUME NEW view, NEW seeds, NEW lim, lim.states + Len(AuthorityStart(seeds).roots) \in Nat
  PROVE  \E after : /\ Unrolls(after, lim.states + Len(AuthorityStart(seeds).roots), AuthorityStart(seeds),
                               AuthorityHow(view, seeds, lim))
                    /\ Authority(view, seeds, lim) = after[lim.states + Len(AuthorityStart(seeds).roots)]
<1> DEFINE t == AuthorityStart(seeds)
           N == lim.states + Len(t.roots)
           how == AuthorityHow(view, seeds, lim)
           F(f) == [i \in 0..N |-> IF i = 0 THEN t
                                   ELSE LET s == f[i - 1]
                                        IN  IF Searching(s) THEN AuthorityStep(s, lim, view, seeds) ELSE s]
           after == CHOOSE f : f = F(f)
<1>1. Authority(view, seeds, lim) = after[N]
  BY DEF Authority, RunToEnd
<1>2. N \in Nat
  OBVIOUS
<1> HIDE DEF N, t, how
<1>3. \A f : f = F(f) <=> Repeats(f, N, t, how)
  BY HowFacts DEF Repeats, how
<1>4. \E f : f = F(f)
  BY <1>2, <1>3, Repeated
<1>5. after = F(after)
  BY <1>4
<1>6. Repeats(after, N, t, how)
  BY <1>3, <1>5
<1> HIDE DEF after
<1>7. Unrolls(after, N, t, how)
  BY <1>2, <1>6, RepeatsUnrolls
<1> QED
  BY <1>1, <1>7 DEF N, t, how

(* Every turn takes something away, so that there are turns enough.        *)
LEMMA RunEnds ==
  ASSUME NEW N \in Nat, NEW lim, lim.states \in Nat, NEW G, NEW after,
         after[0] \in G, after[0].admitted = 0, Left(after[0], lim) = N,
         \A s \in G : Len(s.roots) \in Nat /\ Len(s.queue) \in Nat
                      /\ (Len(s.roots) = 0 => s.roots = <<>>) /\ (Len(s.queue) = 0 => s.queue = <<>>),
         \A k \in 1..N : after[k - 1] \in G =>
           IF Searching(after[k - 1]) THEN after[k] \in G /\ Shorter(after[k - 1], after[k], lim)
           ELSE after[k] = after[k - 1]
  PROVE  after[N] \in G /\ ~Searching(after[N])
<1> DEFINE Going(s, k) == s.admitted \in 0..lim.states /\ (Searching(s) => Left(s, lim) + k = N)
           K == {k \in 0..N : after[k] \in G /\ Going(after[k], k)}
<1>1. 0 \in K
  <2>1. Left(after[0], lim) + 0 = N
    OBVIOUS
  <2>2. 0 \in 0..N /\ 0 \in 0..lim.states
    OBVIOUS
  <2> QED
    BY <2>1, <2>2
<1>2. ASSUME NEW k \in 0..N, k \in K, k < N PROVE k + 1 \in K
  <2> DEFINE s == after[k]
             r == after[k + 1]
  <2>1. k + 1 \in 1..N /\ k + 1 \in 0..N /\ (k + 1) - 1 = k
    BY <1>2
  <2>2. s \in G /\ Going(s, k)
    BY <1>2
  <2>3. IF Searching(s) THEN r \in G /\ Shorter(s, r, lim) ELSE r = s
    BY <2>1, <2>2
  <2>4. CASE ~Searching(s)
    BY <2>1, <2>2, <2>3, <2>4
  <2>5. CASE Searching(s)
    <3>1. r \in G /\ r.admitted \in 0..lim.states /\ Left(r, lim) + 1 = Left(s, lim)
      BY <2>2, <2>3, <2>5 DEF Shorter
    <3>2. Left(s, lim) + k = N
      BY <2>2, <2>5
    <3>3. Left(r, lim) + (k + 1) = N
      <4>1. Left(r, lim) \in Int
        <5> DEFINE a == Len(r.roots)
                   b == Len(r.queue)
                   c == r.admitted
                   d == lim.states
        <5>1. a \in Nat /\ b \in Nat /\ c \in Nat /\ d \in Nat
          BY <3>1
        <5>2. Left(r, lim) = a + b + (d - c)
          BY DEF Left
        <5> HIDE DEF a, b, c, d, r
        <5> QED
          BY <5>1, <5>2
      <4> DEFINE x == Left(r, lim)
                 y == Left(s, lim)
      <4>2. x \in Int /\ x + 1 = y /\ y + k = N
        BY <3>1, <3>2, <4>1
      <4> HIDE DEF x, y
      <4>3. x + (k + 1) = N
        BY <4>2
      <4> QED
        BY <4>3 DEF x
    <3> QED
      BY <2>1, <3>1, <3>3
  <2> QED
    BY <2>4, <2>5
<1>3. N \in K
  <2> HIDE DEF K
  <2>1. 0..N \subseteq K
    BY <1>1, <1>2, UpTo
  <2> QED
    BY <2>1
<1>4. ASSUME Searching(after[N]) PROVE FALSE
  <2> DEFINE s == after[N]
             a == Len(s.roots)
             b == Len(s.queue)
             c == s.admitted
             d == lim.states
  <2>1. s \in G /\ c \in 0..d /\ Left(s, lim) + N = N
    BY <1>3, <1>4
  <2>2. a \in Nat /\ b \in Nat /\ d \in Nat /\ Left(s, lim) = a + b + (d - c)
    BY <2>1 DEF Left
  <2>3. (a = 0 => s.roots = <<>>) /\ (b = 0 => s.queue = <<>>)
    BY <2>1
  <2>4. s.roots # <<>> \/ s.queue # <<>>
    BY <1>4 DEF Searching
  <2> HIDE DEF a, b, c, d, s
  <2>5. (a + b + (d - c)) + N = N
    BY <2>1, <2>2
  <2>6. a = 0 /\ b = 0
    BY <2>1, <2>2, <2>5
  <2> QED
    BY <2>3, <2>4, <2>6
<1> QED
  BY <1>3, <1>4

(* A search that has ended and left nothing out has found every path.      *)
LEMMA StartIsCounted ==
  ASSUME NEW R, IsFiniteSet(R), R \subseteq Nat, NEW lim, lim.states \in Nat
  PROVE  /\ Len(Fresh(InOrder(R)).roots) \in Nat
         /\ lim.states + Len(Fresh(InOrder(R)).roots) \in Nat
         /\ Fresh(InOrder(R)).admitted = 0
         /\ Left(Fresh(InOrder(R)), lim) = lim.states + Len(Fresh(InOrder(R)).roots)
<1> DEFINE t == Fresh(InOrder(R))
           k == Len(t.roots)
           n == lim.states
<1>1. t.roots = InOrder(R) /\ t.queue = <<>> /\ t.admitted = 0
  BY DEF Fresh
<1>2. InOrder(R) \in Seq(R)
  BY OrderFacts
<1>3. k \in Nat /\ Len(t.queue) = 0
  BY <1>1, <1>2, EmptySequence
<1>4. Left(t, lim) = k + 0 + (n - 0)
  BY <1>1, <1>3 DEF Left
<1>5. n \in Nat
  OBVIOUS
<1> HIDE DEF k, n, t
<1>6. k + 0 + (n - 0) = n + k /\ n + k \in Nat
  BY <1>3, <1>5
<1> QED
  BY <1>1, <1>3, <1>4, <1>6 DEF k, n, t

LEMMA Lengths ==
  ASSUME NEW t, NEW ways, NEW roots, GoodSearch(t, ways, roots)
  PROVE  /\ Len(t.roots) \in Nat /\ Len(t.queue) \in Nat
         /\ Len(t.roots) = 0 => t.roots = <<>>
         /\ Len(t.queue) = 0 => t.queue = <<>>
BY DEF GoodSearch

(* analyzeBlastRadius of a batch, and of an overlay of it.                 *)
LEMMA SearchOfBatch ==
  ASSUME NEW view \in Views, NEW R, R \subseteq Nodes, NEW lim, lim.states \in Nat,
         NEW how, NEW after, Unrolls(after, lim.states + Len(BlastStart(R).roots), BlastStart(R), how),
         \A i, s : SearchInv(s, view, view, R) =>
           IF Searching(s) THEN /\ SearchInv(Rewritten(how, i, s), view, view, R)
                                /\ Shorter(s, Rewritten(how, i, s), lim)
           ELSE Rewritten(how, i, s) = s
  PROVE  LET t == after[lim.states + Len(BlastStart(R).roots)]
         IN  /\ t.found \subseteq DependencyPaths(view, R)
             /\ ~t.truncated => t.found = DependencyPaths(view, R)
<1> DEFINE b == BlastStart(R)
           N == lim.states + Len(b.roots)
           G == {s \in {after[k] : k \in 0..N} : SearchInv(s, view, view, R)}
<1>1. IsFiniteSet(R) /\ R \subseteq Nat
  BY GraphAssumption, SubsetSize
<1>2. N \in Nat /\ b.admitted = 0 /\ Left(b, lim) = N
  BY <1>1, StartIsCounted DEF BlastStart
<1>3. SearchInv(b, view, view, R)
  BY BlastStartFacts
<1> HIDE DEF N, b
<1>4. after[0] = b /\ \A k \in 1..N : after[k] = Rewritten(how, k, after[k - 1])
  BY DEF Unrolls, N, b
<1>5. after[0] \in G
  BY <1>2, <1>3, <1>4
<1>6. \A s \in G : Len(s.roots) \in Nat /\ Len(s.queue) \in Nat
                   /\ (Len(s.roots) = 0 => s.roots = <<>>) /\ (Len(s.queue) = 0 => s.queue = <<>>)
  BY Lengths DEF SearchInv
<1>7. ASSUME NEW k \in 1..N, after[k - 1] \in G
      PROVE  IF Searching(after[k - 1]) THEN after[k] \in G /\ Shorter(after[k - 1], after[k], lim)
             ELSE after[k] = after[k - 1]
  <2>1. after[k] = Rewritten(how, k, after[k - 1]) /\ SearchInv(after[k - 1], view, view, R)
    BY <1>4, <1>7
  <2>2. after[k] \in {after[j] : j \in 0..N}
    BY <1>2
  <2> QED
    BY <2>1, <2>2
<1> DEFINE t == after[N]
<1> HIDE DEF G
<1>8. t \in G /\ ~Searching(t)
  BY <1>2, <1>4, <1>5, <1>6, <1>7, RunEnds
<1>9. SearchInv(t, view, view, R)
  BY <1>8 DEF G
<1> HIDE DEF t
<1>10. t.found \subseteq DependencyPaths(view, R)
  BY <1>9, BlastFoundFacts
<1>11. ~t.truncated => DependencyPaths(view, R) \subseteq t.found
  BY <1>8, <1>9, BlastEndFacts DEF Older
<1> QED
  BY <1>10, <1>11 DEF t, N, b

LEMMA BlastRadiusFacts ==
  ASSUME NEW view \in Views, NEW R, R \subseteq Nodes, NEW lim, lim.states \in Nat
  PROVE  /\ BlastRadius(view, R, lim).found \subseteq DependencyPaths(view, R)
         /\ ~BlastRadius(view, R, lim).truncated => BlastRadius(view, R, lim).found = DependencyPaths(view, R)
<1> DEFINE N == lim.states + Len(BlastStart(R).roots)
           how == BlastHow(view, lim)
<1>1. IsFiniteSet(R) /\ R \subseteq Nat
  BY GraphAssumption, SubsetSize
<1>2. N \in Nat
  BY <1>1, StartIsCounted DEF BlastStart
<1>3. PICK after : Unrolls(after, N, BlastStart(R), how) /\ BlastRadius(view, R, lim) = after[N]
  BY <1>2, BlastRuns
<1>4. \A i, s : SearchInv(s, view, view, R) =>
           IF Searching(s) THEN /\ SearchInv(Rewritten(how, i, s), view, view, R)
                                /\ Shorter(s, Rewritten(how, i, s), lim)
           ELSE Rewritten(how, i, s) = s
  <2> SUFFICES ASSUME NEW i, NEW s, SearchInv(s, view, view, R)
               PROVE  IF Searching(s) THEN /\ SearchInv(Rewritten(how, i, s), view, view, R)
                                           /\ Shorter(s, Rewritten(how, i, s), lim)
                      ELSE Rewritten(how, i, s) = s
    OBVIOUS
  <2>1. Rewritten(how, i, s) = IF Searching(s) THEN BlastStep(s, lim, view) ELSE s
    BY HowFacts
  <2>2. Searching(s) => /\ SearchInv(BlastStep(s, lim, view), view, view, R)
                        /\ Shorter(s, BlastStep(s, lim, view), lim)
    BY BlastStepFacts DEF Older
  <2> QED
    BY <2>1, <2>2
<1> HIDE DEF how
<1> QED
  BY <1>3, <1>4, SearchOfBatch

(* createReadersFromOverlay: what the overlay shows of a batch.            *)
LEMMA OverlayFacts ==
  ASSUME NEW view \in Views, NEW p, NEW actions
  PROVE  /\ Overlay(view, p, actions) \in Views
         /\ Overlay(view, p, actions).nodes = view.nodes \ HiddenNodes(p, actions)
         /\ Overlay(view, p, actions).edges =
              {e \in view.edges \ HiddenEdges(p, actions) :
                 {Source[e], Target[e]} \subseteq view.nodes \ HiddenNodes(p, actions)}
<1> DEFINE o == Overlay(view, p, actions)
<1>1. o = [nodes |-> view.nodes \ HiddenNodes(p, actions),
           edges |-> {e \in view.edges \ HiddenEdges(p, actions) :
                        Source[e] \in view.nodes \ HiddenNodes(p, actions)
                        /\ Target[e] \in view.nodes \ HiddenNodes(p, actions)}]
  BY DEF Overlay
<1> HIDE DEF o
<1>2. /\ o.nodes = view.nodes \ HiddenNodes(p, actions)
      /\ o.edges = {e \in view.edges \ HiddenEdges(p, actions) :
                      {Source[e], Target[e]} \subseteq view.nodes \ HiddenNodes(p, actions)}
      /\ o = [nodes |-> o.nodes, edges |-> o.edges]
  BY <1>1
<1>3. view.nodes \subseteq Nodes /\ view.edges \subseteq Edges
  BY DEF Views
<1>4. o \in Views
  BY <1>2, <1>3 DEF Views
<1> QED
  BY <1>2, <1>4 DEF o

LEMMA OverlayPageFacts ==
  ASSUME NEW view \in Views, NEW hidden \in Views, hidden.nodes \subseteq view.nodes,
         hidden.edges \subseteq view.edges, \A e \in hidden.edges : Source[e] \in hidden.nodes,
         NEW n, NEW limit
  PROVE  LET page == OverlayPage(view, hidden, n, limit)
         IN  /\ page.hops \in Seq(HopsTo(hidden, n))
             /\ ~page.truncated => HopsTo(hidden, n) \subseteq Range(page.hops)
<1> DEFINE read == Dependents(view, n, limit)
           kept == Range(read.hops) \cap hidden.edges
           page == OverlayPage(view, hidden, n, limit)
<1>1. read.hops \in Seq(HopsTo(view, n)) /\ (~read.truncated => HopsTo(view, n) \subseteq Range(read.hops))
  BY DependentsFacts
<1>2. page.hops = InOrder(kept) /\ page.truncated = read.truncated
  BY DEF OverlayPage
<1> HIDE DEF read, page
<1>3. Range(read.hops) \subseteq HopsTo(view, n)
  BY <1>1, SequenceRange
<1>4. kept \subseteq HopsTo(hidden, n) /\ kept \subseteq Edges
  BY <1>3 DEF HopsTo, Hoppable, Views
<1>5. HopsTo(hidden, n) \subseteq HopsTo(view, n) /\ HopsTo(hidden, n) \subseteq hidden.edges
  BY DEF HopsTo, Hoppable
<1> HIDE DEF kept
<1>6. IsFiniteSet(kept) /\ kept \subseteq Nat
  BY <1>4, GraphAssumption, SubsetSize
<1>7. InOrder(kept) \in Seq(kept) /\ Range(InOrder(kept)) = kept
  BY <1>6, OrderFacts
<1>8. InOrder(kept) \in Seq(HopsTo(hidden, n))
  BY <1>4, <1>7, SequenceRange
<1>9. ~page.truncated => HopsTo(hidden, n) \subseteq kept
  BY <1>1, <1>2, <1>5 DEF kept
<1> QED
  BY <1>2, <1>7, <1>8, <1>9 DEF page

LEMMA OverlayStepFacts ==
  ASSUME NEW t, NEW lim, NEW view \in Views, NEW p, NEW actions, NEW R,
         SearchInv(t, Overlay(view, p, actions), Overlay(view, p, actions), R), Searching(t)
  PROVE  /\ SearchInv(OverlayStep(t, lim, view, Overlay(view, p, actions)),
                      Overlay(view, p, actions), Overlay(view, p, actions), R)
         /\ Shorter(t, OverlayStep(t, lim, view, Overlay(view, p, actions)), lim)
<1> DEFINE hidden == Overlay(view, p, actions)
<1>1. /\ hidden \in Views /\ hidden.nodes \subseteq view.nodes
      /\ hidden.edges \subseteq view.edges /\ \A e \in hidden.edges : Source[e] \in hidden.nodes
  <2>1. /\ hidden \in Views
        /\ hidden.nodes = view.nodes \ HiddenNodes(p, actions)
        /\ hidden.edges = {e \in view.edges \ HiddenEdges(p, actions) :
                             {Source[e], Target[e]} \subseteq view.nodes \ HiddenNodes(p, actions)}
    BY OverlayFacts
  <2> HIDE DEF hidden
  <2> QED
    BY <2>1
<1>a. SearchInv(t, hidden, hidden, R)
  OBVIOUS
<1> HIDE DEF hidden
<1>b. Older(hidden, hidden)
  BY <1>1 DEF Older
<1>2. CASE t.queue = <<>>
  <2>1. t.roots # <<>> /\ OverlayStep(t, lim, view, hidden) = BeginRoot(t, lim, hidden)
    BY <1>2 DEF OverlayStep, Searching
  <2>2. SearchInv(BeginRoot(t, lim, hidden), hidden, hidden, R) /\ Shorter(t, BeginRoot(t, lim, hidden), lim)
    BY <1>a, <1>b, <2>1, BeginRootFacts
  <2> QED
    BY <2>1, <2>2 DEF hidden
<1>3. CASE t.queue # <<>> /\ NodeKind[Head(t.queue).node] = "Service"
  <2>1. OverlayStep(t, lim, view, hidden) = RetainService(NextItem(t), lim, Head(t.queue))
    BY <1>3 DEF OverlayStep
  <2>2. /\ SearchInv(RetainService(NextItem(t), lim, Head(t.queue)), hidden, hidden, R)
        /\ Shorter(t, RetainService(NextItem(t), lim, Head(t.queue)), lim)
    BY <1>3, <1>a, <1>b, RetainFacts
  <2> QED
    BY <2>1, <2>2 DEF hidden
<1>4. CASE t.queue # <<>> /\ NodeKind[Head(t.queue).node] # "Service"
  <2> DEFINE fresh == OverlayPage(view, hidden, Head(t.queue).node, lim.dependents)
             read == Cached(NextItem(t), Head(t.queue).node, fresh)
             s == Expand(read, lim, Head(t.queue), read.pages[Head(t.queue).node])
  <2>1. OverlayStep(t, lim, view, hidden) = s
    BY <1>4 DEF OverlayStep
  <2>2. /\ fresh.hops \in Seq(HopsTo(hidden, Head(t.queue).node))
        /\ ~fresh.truncated => HopsTo(hidden, Head(t.queue).node) \subseteq Range(fresh.hops)
    BY <1>1, OverlayPageFacts
  <2>3. SearchInv(s, hidden, hidden, R) /\ Shorter(t, s, lim)
    <3> HIDE DEF fresh
    <3> QED
      BY <1>4, <1>a, <1>b, <2>2, ExpandStepFacts
  <2> QED
    BY <2>1, <2>3 DEF hidden
<1> QED
  BY <1>2, <1>3, <1>4

LEMMA BlastBehindFacts ==
  ASSUME NEW view \in Views, NEW p, NEW actions, p.affected \subseteq Nodes, p.blast.states \in Nat
  PROVE  LET hidden == Overlay(view, p, actions)
             t == BlastBehind(view, hidden, p)
         IN  /\ t.found \subseteq DependencyPaths(hidden, p.affected)
             /\ ~t.truncated => t.found = DependencyPaths(hidden, p.affected)
<1> DEFINE hidden == Overlay(view, p, actions)
           lim == p.blast
           R == p.affected
           N == lim.states + Len(BlastStart(R).roots)
           how == OverlayHow(view, hidden, lim)
<1>1. IsFiniteSet(R) /\ R \subseteq Nat
  BY GraphAssumption, SubsetSize
<1>2. N \in Nat
  <2> HIDE DEF R, lim
  <2>1. lim.states \in Nat
    BY DEF lim
  <2> QED
    BY <1>1, <2>1, StartIsCounted DEF BlastStart
<1>3. PICK after : Unrolls(after, N, BlastStart(R), how) /\ BlastBehind(view, hidden, p) = after[N]
  BY <1>2, OverlayRuns
<1>4. \A i, s : SearchInv(s, hidden, hidden, R) =>
           IF Searching(s) THEN /\ SearchInv(Rewritten(how, i, s), hidden, hidden, R)
                                /\ Shorter(s, Rewritten(how, i, s), lim)
           ELSE Rewritten(how, i, s) = s
  <2> SUFFICES ASSUME NEW i, NEW s, SearchInv(s, hidden, hidden, R)
               PROVE  IF Searching(s) THEN /\ SearchInv(Rewritten(how, i, s), hidden, hidden, R)
                                           /\ Shorter(s, Rewritten(how, i, s), lim)
                      ELSE Rewritten(how, i, s) = s
    OBVIOUS
  <2>1. Rewritten(how, i, s) = IF Searching(s) THEN OverlayStep(s, lim, view, hidden) ELSE s
    BY HowFacts
  <2>2. Searching(s) => /\ SearchInv(OverlayStep(s, lim, view, hidden), hidden, hidden, R)
                        /\ Shorter(s, OverlayStep(s, lim, view, hidden), lim)
    BY OverlayStepFacts
  <2> QED
    BY <2>1, <2>2
<1>5. hidden \in Views
  BY OverlayFacts
<1>6. R \subseteq Nodes /\ lim.states \in Nat
  OBVIOUS
<1> HIDE DEF how, hidden, lim, R
<1>7. /\ after[N].found \subseteq DependencyPaths(hidden, R)
      /\ ~after[N].truncated => after[N].found = DependencyPaths(hidden, R)
  BY <1>3, <1>4, <1>5, <1>6, SearchOfBatch
<1> QED
  BY <1>3, <1>7 DEF hidden, R

-----------------------------------------------------------------------------
(* analyzeWave2Authority: the same way through the graph of authority,     *)
(* where every node but the seed is a target and no kind ends a path.      *)
AuthorityWays(view, seeds) == PathsOf(AuthorityGraph(view, seeds))
AuthorityHops(view, n) ==
  {e \in view.edges : /\ EdgeKind[e] \in {k[2] : k \in Transitions}
                      /\ Source[e] = n /\ Target[e] \in view.nodes}
NextAuth(item, e) == Item(item.root, Target[e], Append(item.path, e))
SeedNodes(seeds) == {s.node : s \in seeds}

LEMMA AuthorityIsGraph ==
  ASSUME NEW view \in Views, NEW seeds
  PROVE  /\ IsSearchGraph(AuthorityGraph(view, seeds))
         /\ \A p, e : Extended(AuthorityGraph(view, seeds), p, e) = NextAuth(p, e)
         /\ \A p : StepsOf(AuthorityGraph(view, seeds), p) =
              {e \in view.edges : /\ ValidTransition(e) /\ Source[e] = p.node
                                  /\ Target[e] \in view.nodes \ PathNodes(p)}
         /\ AuthorityGraph(view, seeds).starts =
              {n \in view.nodes : SeedEvidence(seeds, n) # {} /\ NodeKind[n] \in SeedKinds}
         /\ AuthorityGraph(view, seeds).last = {}
         /\ AuthorityGraph(view, seeds).nodes = view.nodes
         /\ AuthorityGraph(view, seeds).steps = {e \in view.edges : ValidTransition(e)}
<1>1. IsSearchGraph(AuthorityGraph(view, seeds))
  BY DEF IsSearchGraph, AuthorityGraph, Views
<1>2. \A p, e : Extended(AuthorityGraph(view, seeds), p, e) = NextAuth(p, e)
  BY DEF Extended, AuthorityGraph, NextAuth
<1>3. \A p : StepsOf(AuthorityGraph(view, seeds), p) =
              {e \in view.edges : /\ ValidTransition(e) /\ Source[e] = p.node
                                  /\ Target[e] \in view.nodes \ PathNodes(p)}
  BY DEF StepsOf, AuthorityGraph
<1> QED
  BY <1>1, <1>2, <1>3 DEF AuthorityGraph

(* Every valid step leaves by one of the hops that are read.               *)
LEMMA ValidHops ==
  ASSUME NEW view, NEW seeds, NEW p, NEW e \in view.edges, ValidTransition(e), Source[e] = p.node,
         Target[e] \in view.nodes
  PROVE  e \in AuthorityHops(view, p.node)
<1>1. <<NodeKind[Source[e]], EdgeKind[e], NodeKind[Target[e]]>> \in Transitions
  BY DEF ValidTransition
<1>2. EdgeKind[e] \in {k[2] : k \in Transitions}
  <2> DEFINE k == <<NodeKind[Source[e]], EdgeKind[e], NodeKind[Target[e]]>>
  <2>1. k[2] = EdgeKind[e]
    OBVIOUS
  <2> QED
    BY <1>1, <2>1
<1> QED
  BY <1>2 DEF AuthorityHops

AuthDone(t, g, p) == (p.path # <<>> => p \in t.found) /\ \A e \in StepsOf(g, p) : Extended(g, p, e) \in t.seen
SeedsDone(t, g) == \A b \in Origins(g) : b.root \in Range(t.roots) \/ b \in t.seen
AuthItemsDone(t, g) == \A p \in t.seen : p \in Range(t.queue) \/ AuthDone(t, g, p)

AuthInv(t, view, seeds) ==
  /\ GoodSearch(t, AuthorityWays(view, seeds), SeedNodes(seeds))
  /\ \A p \in t.found : p.path # <<>>
  /\ \A n \in DOMAIN t.pages : t.pages[n] = Outgoing(view, n)
  /\ ~t.truncated => SeedsDone(t, AuthorityGraph(view, seeds)) /\ AuthItemsDone(t, AuthorityGraph(view, seeds))

LEMMA OutgoingFacts ==
  ASSUME NEW view \in Views, NEW n
  PROVE  Outgoing(view, n) \in Seq(AuthorityHops(view, n)) /\ Range(Outgoing(view, n)) = AuthorityHops(view, n)
<1>1. Outgoing(view, n) = InOrder(AuthorityHops(view, n))
  BY DEF Outgoing, AuthorityHops
<1>2. AuthorityHops(view, n) \subseteq Edges
  BY DEF AuthorityHops, Views
<1>3. IsFiniteSet(AuthorityHops(view, n)) /\ AuthorityHops(view, n) \subseteq Nat
  BY <1>2, GraphAssumption, SubsetSize
<1> QED
  BY <1>1, <1>3, OrderFacts

LEMMA BeginSeedFacts ==
  ASSUME NEW t, NEW lim, NEW view \in Views, NEW seeds, AuthInv(t, view, seeds), t.roots # <<>>
  PROVE  /\ AuthInv(BeginSeed(t, lim, view, seeds), view, seeds)
         /\ Shorter(t, BeginSeed(t, lim, view, seeds), lim)
<1> DEFINE W == AuthorityWays(view, seeds)
           R == SeedNodes(seeds)
           G == AuthorityGraph(view, seeds)
           r == Head(t.roots)
           n == NextRoot(t)
           b == Item(r, r, <<>>)
           s == BeginSeed(t, lim, view, seeds)
<1>1. /\ GoodSearch(t, W, R) /\ Shaped(t) /\ t.roots \in Seq(R)
      /\ \A m \in DOMAIN t.pages : t.pages[m] = Outgoing(view, m)
      /\ \A p \in t.found : p.path # <<>>
      /\ Len(t.roots) \in Nat /\ Len(t.queue) \in Nat
      /\ ~t.truncated => SeedsDone(t, G) /\ AuthItemsDone(t, G)
  BY DEF AuthInv, GoodSearch
<1>2. Shaped(n)
  BY <1>1, RewrittenSearch DEF NextRoot
<1>3. /\ n.roots = Tail(t.roots) /\ n.queue = t.queue /\ n.seen = t.seen /\ n.pages = t.pages
      /\ n.found = t.found /\ n.truncated = t.truncated /\ n.stop = t.stop /\ n.full = t.full
      /\ n.admitted = t.admitted
  BY <1>1 DEF Shaped, Fields, NextRoot
<1>4. /\ Tail(t.roots) \in Seq(R) /\ r \in R /\ Range(t.roots) = {r} \cup Range(n.roots)
      /\ Len(n.roots) \in Nat /\ Len(t.roots) = Len(n.roots) + 1
  BY <1>1, <1>3, TailFacts
<1>g. /\ \A x \in Origins(G) : x.root = r => x = b
      /\ \A x \in Origins(G) : x.root \in view.nodes /\ SeedEvidence(seeds, x.root) # {} /\ NodeKind[x.root] \in SeedKinds
      /\ r \in view.nodes /\ SeedEvidence(seeds, r) # {} /\ NodeKind[r] \in SeedKinds => b \in W
  <2>1. G.starts = {m \in view.nodes : SeedEvidence(seeds, m) # {} /\ NodeKind[m] \in SeedKinds}
    BY AuthorityIsGraph
  <2>2. IsSearchGraph(G)
    BY AuthorityIsGraph
  <2>3. Origins(G) \subseteq W
    BY <2>2, PathsFacts DEF AuthorityWays
  <2> HIDE DEF G, W
  <2> QED
    BY <2>1, <2>3 DEF Origins, Item
<1> HIDE DEF n, G
<1>5. GoodSearch(n, W, R)
  BY <1>1, <1>2, <1>3, <1>4 DEF GoodSearch
<1>6. \A room, warning : /\ GoodSearch(Warn(n, room, warning), W, R) /\ Grows(n, Warn(n, room, warning))
                         /\ Warn(n, room, warning).queue = n.queue
                         /\ Warn(n, room, warning).admitted = n.admitted
  BY <1>5, WarnFacts
<1>s. \A x : GoodSearch(x, W, R) /\ Grows(n, x) /\ Pays(n, x, lim) => Shorter(t, x, lim)
  <2> SUFFICES ASSUME NEW x, GoodSearch(x, W, R), Grows(n, x), Pays(n, x, lim) PROVE Shorter(t, x, lim)
    OBVIOUS
  <2>1. Len(x.queue) \in Nat /\ x.roots = n.roots
    BY DEF GoodSearch, Grows
  <2>2. Len(n.roots) + Len(n.queue) + 1 = Len(t.roots) + Len(t.queue) /\ Len(n.queue) \in Nat
    <3> DEFINE h == Len(t.roots)
               i == Len(n.roots)
               j == Len(t.queue)
    <3>1. h \in Nat /\ i \in Nat /\ j \in Nat /\ h = i + 1 /\ Len(n.queue) = j
      BY <1>1, <1>3, <1>4
    <3> HIDE DEF h, i, j
    <3>2. i + j + 1 = h + j
      BY <3>1
    <3> QED
      BY <3>1, <3>2 DEF h, i, j
  <2> QED
    BY <1>1, <1>3, <1>4, <2>1, <2>2, ShorterFacts
<1>7. CASE ~(SeedEvidence(seeds, r) # {} /\ r \in view.nodes /\ NodeKind[r] \in SeedKinds)
  <2>1. \E room, warning : s = Warn(n, room, warning)
    BY <1>7 DEF BeginSeed, n
  <2>2. GoodSearch(s, W, R) /\ Grows(n, s) /\ s.queue = n.queue /\ s.admitted = n.admitted
    BY <1>6, <2>1
  <2>p. Shorter(t, s, lim)
    BY <1>1, <1>3, <1>s, <2>2, PaysFacts
  <2>3. \A x \in Origins(G) : x.root # r
    BY <1>7, <1>g
  <2> HIDE DEF s, W
  <2>4. \A m \in DOMAIN s.pages : s.pages[m] = Outgoing(view, m)
    BY <1>1, <1>3, <2>2 DEF Grows
  <2>5. ~s.truncated => SeedsDone(s, G)
    BY <1>1, <1>3, <1>4, <2>2, <2>3 DEF Grows, SeedsDone
  <2>6. ~s.truncated => AuthItemsDone(s, G)
    BY <1>1, <1>3, <2>2 DEF Grows, AuthItemsDone, AuthDone
  <2>7. \A p \in s.found : p.path # <<>>
    BY <1>1, <1>3, <2>2 DEF Grows
  <2> QED
    BY <2>2, <2>4, <2>5, <2>6, <2>7, <2>p DEF AuthInv, W, s, G
<1>8. CASE SeedEvidence(seeds, r) # {} /\ r \in view.nodes /\ NodeKind[r] \in SeedKinds
  <2>1. s = Admit(n, lim, b)
    BY <1>8 DEF BeginSeed, n
  <2>3. b \in W
    BY <1>8, <1>g
  <2>4. /\ GoodSearch(s, W, R) /\ Grows(n, s) /\ Pays(n, s, lim)
        /\ ~s.truncated => b \in s.seen
    BY <1>5, <2>1, <2>3, AdmitFacts
  <2>5. \A x \in Origins(G) : x.root = r => x = b
    BY <1>g
  <2> HIDE DEF s, W, b
  <2>6. \A m \in DOMAIN s.pages : s.pages[m] = Outgoing(view, m)
    BY <1>1, <1>3, <2>4 DEF Grows
  <2>7. ~s.truncated => SeedsDone(s, G)
    BY <1>1, <1>3, <1>4, <2>4, <2>5 DEF Grows, SeedsDone
  <2>8. ~s.truncated => AuthItemsDone(s, G)
    BY <1>1, <1>3, <2>4 DEF Grows, AuthItemsDone, AuthDone
  <2>9. /\ \A p \in s.found : p.path # <<>>
        /\ Shorter(t, s, lim)
    BY <1>1, <1>3, <1>s, <2>4 DEF Grows
  <2> QED
    BY <2>4, <2>6, <2>7, <2>8, <2>9 DEF AuthInv, W, s, G
<1> QED
  BY <1>7, <1>8

LEMMA FollowAuthorityFacts ==
  ASSUME NEW view \in Views, NEW seeds, NEW room, NEW t, NEW lim, NEW item, NEW edge,
         GoodSearch(t, AuthorityWays(view, seeds), room), item \in AuthorityWays(view, seeds),
         edge \in AuthorityHops(view, item.node)
  PROVE  LET s == FollowAuthority(t, lim, item, edge)
         IN  /\ GoodSearch(s, AuthorityWays(view, seeds), room) /\ Grows(t, s) /\ Pays(t, s, lim)
             /\ ~s.truncated /\ edge \in StepsOf(AuthorityGraph(view, seeds), item) => NextAuth(item, edge) \in s.seen
<1> DEFINE W == AuthorityWays(view, seeds)
           G == AuthorityGraph(view, seeds)
           n == NextAuth(item, edge)
           s == FollowAuthority(t, lim, item, edge)
           i == Warn(t, lim.warnings, <<"invalid-authority-hop", item, edge>>)
           c == Warn(t, lim.warnings, <<"cycle-skipped", item, edge>>)
           a == Admit(t, lim, n)
           step == edge \in StepsOf(G, item)
<1>1. Source[edge] = item.node /\ Target[edge] \in view.nodes /\ edge \in view.edges
  BY DEF AuthorityHops
<1>2. n.node = Target[edge]
  BY DEF NextAuth, Item
<1>3. s = IF t.stop THEN t
          ELSE IF ~ValidTransition(edge) THEN i
          ELSE IF n.node \in PathNodes(item) THEN c
          ELSE IF n \in t.seen THEN t ELSE a
  BY DEF FollowAuthority, NextAuth
<1>4. step <=> ValidTransition(edge) /\ n.node \notin PathNodes(item)
  BY <1>1, <1>2, AuthorityIsGraph
<1>5. step => n \in W
  <2>1. IsSearchGraph(G) /\ (\A p, e : Extended(G, p, e) = NextAuth(p, e)) /\ G.last = {}
    BY AuthorityIsGraph
  <2>2. \A p \in PathsOf(G) : \A e \in StepsOf(G, p) : p.node \notin G.last => Extended(G, p, e) \in PathsOf(G)
    BY <2>1, PathsFacts
  <2> HIDE DEF G
  <2> QED
    BY <2>1, <2>2 DEF G, AuthorityWays
<1>6. /\ GoodSearch(i, W, room) /\ Grows(t, i) /\ GoodSearch(c, W, room) /\ Grows(t, c)
      /\ i.queue = t.queue /\ i.admitted = t.admitted /\ c.queue = t.queue /\ c.admitted = t.admitted
  BY WarnFacts
<1>7. n \in W => /\ GoodSearch(a, W, room) /\ Grows(t, a) /\ Pays(t, a, lim)
                 /\ ~a.truncated => n \in a.seen
  BY AdmitFacts
<1>8. Grows(t, t) /\ (t.stop => t.truncated) /\ Len(t.queue) \in Nat /\ GoodSearch(t, W, room)
  BY GrowsFacts DEF GoodSearch
<1> HIDE DEF W, G, n, s, i, c, a, step
<1>p. Pays(t, t, lim) /\ Pays(t, i, lim) /\ Pays(t, c, lim)
  BY <1>6, <1>8, PaysFacts
<1>9. GoodSearch(s, W, room) /\ Grows(t, s) /\ Pays(t, s, lim)
  BY <1>3, <1>4, <1>5, <1>6, <1>7, <1>8, <1>p
<1>10. ~s.truncated /\ step => n \in s.seen
  BY <1>3, <1>4, <1>5, <1>7, <1>8
<1> QED
  BY <1>9, <1>10 DEF W, s, n, step, G

(* What is cut of a page is said to be cut.                                *)
CutOf(t, lim, item, all) ==
  IF Len(all) > lim.outgoing
  THEN WarnTruncated(t, lim.warnings, <<"outgoing-edge-limit-reached", item>>)
  ELSE t
KeptOf(lim, all) == SubSeq(all, 1, IF Len(all) > lim.outgoing THEN lim.outgoing ELSE Len(all))

LEMMA KeptFacts ==
  ASSUME NEW E, NEW all \in Seq(E), NEW lim, lim.outgoing \in Nat
  PROVE  /\ KeptOf(lim, all) \in Seq(E) /\ Len(KeptOf(lim, all)) \in Nat
         /\ ~(Len(all) > lim.outgoing) => Range(KeptOf(lim, all)) = Range(all)
<1> DEFINE n == IF Len(all) > lim.outgoing THEN lim.outgoing ELSE Len(all)
           h == KeptOf(lim, all)
<1>1. Len(all) \in Nat /\ n \in Nat /\ n <= Len(all)
  OBVIOUS
<1>2. h = SubSeq(all, 1, n)
  BY DEF KeptOf
<1>3. ~(Len(all) > lim.outgoing) => n = Len(all)
  OBVIOUS
<1> HIDE DEF n, h
<1>4. h \in Seq(E) /\ Len(h) = n /\ \A i \in 1..n : h[i] = all[i]
  BY <1>1, <1>2
<1>5. DOMAIN h = 1..n /\ DOMAIN all = 1..Len(all)
  BY <1>1, <1>4
<1>6. ~(Len(all) > lim.outgoing) => Range(h) = Range(all)
  BY <1>3, <1>4, <1>5 DEF Range
<1> QED
  BY <1>1, <1>4, <1>6 DEF h

LEMMA AuthorityByHop ==
  ASSUME NEW t, NEW lim, NEW item, NEW all, Len(KeptOf(lim, all)) \in Nat
  PROVE  \E after :
           /\ Unrolls(after, Len(KeptOf(lim, all)), CutOf(t, lim, item, all), HopsHow(lim, item, KeptOf(lim, all)))
           /\ ExpandAuthority(t, lim, item, all) =
                IF CutOf(t, lim, item, all).stop THEN CutOf(t, lim, item, all)
                ELSE IF Len(item.path) >= lim.depth
                THEN IF KeptOf(lim, all) = <<>> THEN CutOf(t, lim, item, all)
                     ELSE WarnTruncated(CutOf(t, lim, item, all), lim.warnings, <<"depth-limit-reached", item>>)
                ELSE after[Len(KeptOf(lim, all))]
<1> DEFINE cut == CutOf(t, lim, item, all)
           hops == KeptOf(lim, all)
           N == Len(hops)
           how == HopsHow(lim, item, hops)
           F(f) == [i \in 0..N |-> IF i = 0 THEN cut ELSE FollowAuthority(f[i - 1], lim, item, hops[i])]
           after == CHOOSE f : f = F(f)
<1>1. ExpandAuthority(t, lim, item, all) =
        IF cut.stop THEN cut
        ELSE IF Len(item.path) >= lim.depth
        THEN IF hops = <<>> THEN cut ELSE WarnTruncated(cut, lim.warnings, <<"depth-limit-reached", item>>)
        ELSE after[N]
  BY DEF ExpandAuthority, CutOf, KeptOf
<1>2. N \in Nat
  OBVIOUS
<1> HIDE DEF N, cut, how
<1>3. \A f : f = F(f) <=> Repeats(f, N, cut, how)
  BY HowFacts DEF Repeats, how
<1>4. \E f : f = F(f)
  BY <1>2, <1>3, Repeated
<1>5. after = F(after)
  BY <1>4
<1>6. Repeats(after, N, cut, how)
  BY <1>3, <1>5
<1> HIDE DEF after
<1>7. Unrolls(after, N, cut, how)
  BY <1>2, <1>6, RepeatsUnrolls
<1> QED
  BY <1>1, <1>7 DEF N, cut, how

LEMMA ExpandAuthorityFacts ==
  ASSUME NEW view \in Views, NEW seeds, NEW room, NEW t, NEW lim, lim.outgoing \in Nat, NEW item, NEW all,
         GoodSearch(t, AuthorityWays(view, seeds), room), item \in AuthorityWays(view, seeds),
         all \in Seq(AuthorityHops(view, item.node)), Range(all) = AuthorityHops(view, item.node)
  PROVE  LET s == ExpandAuthority(t, lim, item, all)
         IN  /\ GoodSearch(s, AuthorityWays(view, seeds), room) /\ Grows(t, s) /\ Pays(t, s, lim)
             /\ ~s.truncated => \A e \in StepsOf(AuthorityGraph(view, seeds), item) : NextAuth(item, e) \in s.seen
<1> DEFINE W == AuthorityWays(view, seeds)
           G == AuthorityGraph(view, seeds)
           cut == CutOf(t, lim, item, all)
           hops == KeptOf(lim, all)
           N == Len(hops)
           s == ExpandAuthority(t, lim, item, all)
           d == WarnTruncated(cut, lim.warnings, <<"depth-limit-reached", item>>)
           E == AuthorityHops(view, item.node)
<1>1. /\ hops \in Seq(E) /\ N \in Nat
      /\ ~(Len(all) > lim.outgoing) => Range(hops) = Range(all)
  BY KeptFacts
<1>2. PICK after :
        /\ Unrolls(after, N, cut, HopsHow(lim, item, hops))
        /\ s = IF cut.stop THEN cut
               ELSE IF Len(item.path) >= lim.depth THEN IF hops = <<>> THEN cut ELSE d
               ELSE after[N]
  BY <1>1, AuthorityByHop
<1>c. \A u : GoodSearch(u, W, room) => Len(u.queue) \in Nat
  BY DEF GoodSearch
<1>3. /\ GoodSearch(cut, W, room) /\ Grows(t, cut) /\ Pays(t, cut, lim)
      /\ ~cut.truncated => Range(hops) = E
  <2> DEFINE w == WarnTruncated(t, lim.warnings, <<"outgoing-edge-limit-reached", item>>)
  <2>1. GoodSearch(w, W, room) /\ Grows(t, w) /\ w.truncated /\ w.queue = t.queue /\ w.admitted = t.admitted
    BY WarnFacts
  <2>2. cut = IF Len(all) > lim.outgoing THEN w ELSE t
    BY DEF CutOf
  <2>3. Len(t.queue) \in Nat
    BY <1>c
  <2>4. Pays(t, t, lim) /\ Pays(t, w, lim) /\ Grows(t, t)
    BY <2>1, <2>3, PaysFacts, GrowsFacts
  <2> HIDE DEF w, cut, hops, E
  <2> QED
    BY <1>1, <2>1, <2>2, <2>4 DEF E
<1>4. after[0] = cut /\ \A i \in 1..N : after[i] = FollowAuthority(after[i - 1], lim, item, hops[i])
  BY <1>2, HowFacts DEF Unrolls
<1>5. \A i \in 1..N : hops[i] \in E
  BY <1>1
<1>6. Range(hops) = {hops[i] : i \in 1..N}
  BY <1>1 DEF Range
<1>d. /\ GoodSearch(d, W, room) /\ Grows(cut, d) /\ d.truncated /\ d.queue = cut.queue /\ d.admitted = cut.admitted
  BY <1>3, WarnFacts
<1> HIDE DEF cut, hops, N, d, E, s
<1> DEFINE Walked(u, k) == \A i \in 1..k : hops[i] \in StepsOf(G, item) => NextAuth(item, hops[i]) \in u.seen
           K == {k \in 0..N : /\ GoodSearch(after[k], W, room) /\ Grows(t, after[k])
                              /\ Pays(t, after[k], lim) /\ Grows(cut, after[k])
                              /\ ~after[k].truncated => Walked(after[k], k)}
<1>7. 0 \in K
  <2>1. 0 \in 0..N /\ 1..0 = {}
    BY <1>1
  <2> QED
    BY <1>3, <1>4, <2>1, GrowsFacts
<1>8. ASSUME NEW k \in 0..N, k \in K, k < N PROVE k + 1 \in K
  <2>1. k + 1 \in 0..N /\ k + 1 \in 1..N /\ (k + 1) - 1 = k /\ 1..(k + 1) = 1..k \cup {k + 1}
    BY <1>1, <1>8
  <2> DEFINE u == after[k]
             v == after[k + 1]
  <2>2. v = FollowAuthority(u, lim, item, hops[k + 1]) /\ hops[k + 1] \in E
    BY <1>4, <1>5, <2>1
  <2>3. /\ GoodSearch(v, W, room) /\ Grows(u, v) /\ Pays(u, v, lim)
        /\ ~v.truncated /\ hops[k + 1] \in StepsOf(G, item) => NextAuth(item, hops[k + 1]) \in v.seen
    BY <1>8, <2>2, FollowAuthorityFacts DEF E
  <2>4. Grows(t, v) /\ Grows(cut, v)
    BY <1>8, <2>3, GrowsFacts
  <2>5. ~v.truncated => Walked(v, k)
    <3>1. ~v.truncated => ~u.truncated /\ u.seen \subseteq v.seen
      BY <2>3 DEF Grows
    <3> QED
      BY <1>8, <3>1
  <2>p. Pays(t, v, lim)
    <3>1. Len(t.queue) \in Nat /\ Len(u.queue) \in Nat /\ Len(v.queue) \in Nat
      BY <1>8, <1>c, <2>3
    <3>2. Pays(t, u, lim) /\ Pays(u, v, lim)
      BY <1>8, <2>3
    <3> HIDE DEF u, v
    <3> QED
      BY <3>1, <3>2, PaysFacts
  <2> HIDE DEF u, v
  <2>6. ~v.truncated => Walked(v, k + 1)
    BY <2>1, <2>3, <2>5
  <2> QED
    BY <2>1, <2>3, <2>4, <2>6, <2>p DEF v
<1>9. N \in K
  <2> HIDE DEF K
  <2>1. 0..N \subseteq K
    BY <1>1, <1>7, <1>8, UpTo
  <2>2. N \in 0..N
    BY <1>1
  <2> QED
    BY <2>1, <2>2
<1>10. /\ GoodSearch(after[N], W, room) /\ Grows(t, after[N]) /\ Grows(cut, after[N]) /\ Pays(t, after[N], lim)
       /\ ~after[N].truncated => Walked(after[N], N)
  BY <1>9
<1> HIDE DEF K
<1>11. \A e \in StepsOf(G, item) : e \in E
  <2> SUFFICES ASSUME NEW e \in StepsOf(G, item) PROVE e \in E
    OBVIOUS
  <2>1. e \in view.edges /\ ValidTransition(e) /\ Source[e] = item.node /\ Target[e] \in view.nodes
    BY AuthorityIsGraph
  <2> QED
    BY <2>1, ValidHops DEF E
<1>12. ASSUME ~after[N].truncated PROVE \A e \in StepsOf(G, item) : NextAuth(item, e) \in after[N].seen
  <2>1. ~cut.truncated
    BY <1>10, <1>12 DEF Grows
  <2>2. Range(hops) = E /\ Walked(after[N], N)
    BY <1>3, <1>10, <1>12, <2>1
  <2> QED
    BY <1>6, <1>11, <2>2
<1>13. ASSUME ~cut.truncated, hops = <<>> PROVE StepsOf(G, item) = {}
  BY <1>3, <1>11, <1>13, EmptySequence
<1>14. cut.stop => cut.truncated
  BY <1>3 DEF GoodSearch
<1>15. Grows(t, d) /\ Pays(t, d, lim)
  <2>1. Len(t.queue) \in Nat /\ Len(cut.queue) \in Nat /\ Len(d.queue) \in Nat
    BY <1>3, <1>c, <1>d
  <2>2. Pays(cut, d, lim)
    BY <1>d, <2>1, PaysFacts
  <2>3. Pays(t, d, lim)
    BY <1>3, <2>1, <2>2, PaysFacts
  <2> QED
    BY <1>3, <1>d, <2>3, GrowsFacts
<1>16. GoodSearch(s, W, room) /\ Grows(t, s) /\ Pays(t, s, lim)
  <2> HIDE DEF W
  <2> QED
    BY <1>2, <1>3, <1>10, <1>15, <1>d
<1>17. ~s.truncated => \A e \in StepsOf(G, item) : NextAuth(item, e) \in s.seen
  <2> HIDE DEF W, G
  <2> QED
    BY <1>2, <1>12, <1>13, <1>14, <1>d
<1> QED
  BY <1>16, <1>17 DEF s

(* What taking the head of the queue leaves, as far as that item has been  *)
(* seen to.                                                                *)
AuthTaken(t, u, view, seeds) ==
  /\ GoodSearch(u, AuthorityWays(view, seeds), SeedNodes(seeds))
  /\ u.queue = Tail(t.queue) /\ u.roots = t.roots /\ u.seen = t.seen /\ u.admitted = t.admitted
  /\ t.found \subseteq u.found
  /\ t.truncated => u.truncated
  /\ \A p \in u.found : p.path # <<>>
  /\ \A n \in DOMAIN u.pages : u.pages[n] = Outgoing(view, n)

LEMMA AuthTakenFacts ==
  ASSUME NEW t, NEW view, NEW seeds, AuthInv(t, view, seeds), t.queue # <<>>
  PROVE  /\ AuthTaken(t, NextItem(t), view, seeds)
         /\ Head(t.queue) \in t.seen /\ Range(t.queue) = {Head(t.queue)} \cup Range(Tail(t.queue))
         /\ Len(t.roots) \in Nat /\ Len(t.queue) \in Nat /\ Len(Tail(t.queue)) \in Nat
         /\ Len(t.queue) = Len(Tail(t.queue)) + 1
<1> DEFINE W == AuthorityWays(view, seeds)
           R == SeedNodes(seeds)
           n == NextItem(t)
<1>1. /\ GoodSearch(t, W, R) /\ Shaped(t) /\ t.queue \in Seq(t.seen)
      /\ \A p \in t.found : p.path # <<>>
      /\ \A m \in DOMAIN t.pages : t.pages[m] = Outgoing(view, m)
  BY DEF AuthInv, GoodSearch
<1>2. Shaped(n)
  BY <1>1, RewrittenSearch DEF NextItem
<1>3. /\ n.queue = Tail(t.queue) /\ n.roots = t.roots /\ n.seen = t.seen /\ n.pages = t.pages
      /\ n.found = t.found /\ n.truncated = t.truncated /\ n.stop = t.stop /\ n.full = t.full
      /\ n.admitted = t.admitted
  BY <1>1 DEF Shaped, Fields, NextItem
<1>4. /\ Len(t.roots) \in Nat
      /\ Len(t.queue) \in Nat /\ Len(Tail(t.queue)) \in Nat /\ Len(t.queue) = Len(Tail(t.queue)) + 1
  BY <1>1 DEF GoodSearch
<1>5. /\ Tail(t.queue) \in Seq(t.seen) /\ Head(t.queue) \in t.seen
      /\ Range(t.queue) = {Head(t.queue)} \cup Range(Tail(t.queue))
  BY <1>1, TailFacts
<1> HIDE DEF n, W, R
<1>6. GoodSearch(n, W, R)
  BY <1>1, <1>2, <1>3, <1>5 DEF GoodSearch
<1> QED
  BY <1>1, <1>3, <1>4, <1>5, <1>6 DEF AuthTaken, W, R, n

LEMMA RetainTargetFacts ==
  ASSUME NEW t, NEW lim, NEW view, NEW seeds, AuthInv(t, view, seeds), t.queue # <<>>
  PROVE  LET u == RetainTarget(NextItem(t), lim, Head(t.queue))
         IN  /\ AuthTaken(t, u, view, seeds)
             /\ ~u.truncated => (Head(t.queue).path # <<>> => Head(t.queue) \in u.found)
<1> DEFINE W == AuthorityWays(view, seeds)
           R == SeedNodes(seeds)
           n == NextItem(t)
           item == Head(t.queue)
           u == RetainTarget(n, lim, item)
           k == [n EXCEPT !.found = n.found \cup {item}]
           Kept(x) == AuthTaken(t, x, view, seeds) /\ (~x.truncated => (item.path # <<>> => item \in x.found))
<1>1. AuthTaken(t, n, view, seeds) /\ item \in t.seen
  BY AuthTakenFacts
<1>2. GoodSearch(n, W, R) /\ Shaped(n) /\ item \in n.seen
  BY <1>1 DEF AuthTaken, GoodSearch
<1> HIDE DEF n, item, W, R, k
<1>3. /\ Shaped(k) /\ k.queue = n.queue /\ k.roots = n.roots /\ k.seen = n.seen /\ k.pages = n.pages
      /\ k.found = n.found \cup {item} /\ k.truncated = n.truncated /\ k.stop = n.stop /\ k.full = n.full
      /\ k.admitted = n.admitted
  <2>1. Shaped(k)
    BY <1>2, RewrittenSearch DEF k
  <2> QED
    BY <1>2, <2>1 DEF Shaped, Fields, k
<1>4. IsFiniteSet(n.found \cup {item})
  BY <1>2, FS_AddElement DEF GoodSearch
<1>5. GoodSearch(k, W, R)
  BY <1>2, <1>3, <1>4 DEF GoodSearch
<1>6. item.path # <<>> => Kept(k)
  BY <1>1, <1>3, <1>5 DEF AuthTaken, W, R
<1>7. item.path = <<>> \/ item \in n.found => Kept(n)
  BY <1>1
<1>8. ASSUME NEW x, GoodSearch(x, W, R), x.truncated, x.roots = n.roots, x.queue = n.queue, x.seen = n.seen,
             x.pages = n.pages, x.found = n.found, x.admitted = n.admitted
      PROVE  Kept(x)
  BY <1>1, <1>8 DEF AuthTaken, W, R
<1>9. ASSUME NEW room, NEW warning
      PROVE  /\ Kept(WarnTruncated(n, room, warning))
             /\ Kept([WarnTruncated(n, room, warning) EXCEPT !.stop = TRUE])
  <2> DEFINE x == WarnTruncated(n, room, warning)
             y == [x EXCEPT !.stop = TRUE]
  <2>1. GoodSearch(x, W, R) /\ x.truncated /\ Grows(n, x) /\ x.queue = n.queue /\ x.admitted = n.admitted
    BY <1>2, WarnFacts
  <2>a. Shaped(x)
    BY <2>1 DEF GoodSearch
  <2>2. x.roots = n.roots /\ x.pages = n.pages /\ x.found = n.found /\ n.seen \subseteq x.seen
    BY <2>1 DEF Grows
  <2>3. x.seen = n.seen
    <3>1. x.seen \subseteq n.seen \cup Range(n.queue)
      BY <2>1 DEF Grows
    <3>2. Range(n.queue) \subseteq n.seen
      BY <1>2, SequenceRange DEF GoodSearch
    <3> QED
      BY <2>2, <3>1, <3>2
  <2> HIDE DEF x
  <2>4. Shaped(y)
    BY <2>a, RewrittenSearch
  <2>5. /\ y.roots = x.roots /\ y.queue = x.queue /\ y.seen = x.seen /\ y.pages = x.pages
        /\ y.found = x.found /\ y.full = x.full /\ y.truncated = x.truncated /\ y.admitted = x.admitted
    BY <2>a DEF Shaped, Fields
  <2> HIDE DEF y
  <2>6. GoodSearch(y, W, R)
    BY <2>1, <2>4, <2>5 DEF GoodSearch
  <2>7. Kept(x)
    BY <1>8, <2>1, <2>2, <2>3
  <2>8. Kept(y)
    BY <1>8, <2>1, <2>2, <2>3, <2>5, <2>6
  <2> QED
    BY <2>7, <2>8 DEF x, y
<1>10. \/ u = n /\ (item.path = <<>> \/ item \in n.found)
       \/ u = k /\ item.path # <<>>
       \/ \E room, warning : u = WarnTruncated(n, room, warning)
       \/ \E room, warning : u = [WarnTruncated(n, room, warning) EXCEPT !.stop = TRUE]
  BY DEF RetainTarget, FoundAt, k
<1> HIDE DEF u, Kept
<1>11. Kept(u)
  <2>1. CASE \E room, warning : u = WarnTruncated(n, room, warning)
    BY <1>9, <2>1
  <2>2. CASE \E room, warning : u = [WarnTruncated(n, room, warning) EXCEPT !.stop = TRUE]
    BY <1>9, <2>2
  <2> QED
    BY <1>6, <1>7, <1>10, <2>1, <2>2
<1> QED
  BY <1>11 DEF Kept, u, n, item

LEMMA AuthorityTurnFacts ==
  ASSUME NEW t, NEW view, NEW seeds, AuthInv(t, view, seeds), t.queue # <<>>,
         NEW s, GoodSearch(s, AuthorityWays(view, seeds), SeedNodes(seeds)),
         \A n \in DOMAIN s.pages : s.pages[n] = Outgoing(view, n),
         \A p \in s.found : p.path # <<>>,
         s.roots = t.roots, t.found \subseteq s.found, t.seen \subseteq s.seen,
         Range(Tail(t.queue)) \subseteq Range(s.queue), s.seen \subseteq t.seen \cup Range(s.queue),
         t.truncated => s.truncated,
         ~s.truncated => AuthDone(s, AuthorityGraph(view, seeds), Head(t.queue))
  PROVE  AuthInv(s, view, seeds)
<1> DEFINE G == AuthorityGraph(view, seeds)
<1>1. Range(t.queue) = {Head(t.queue)} \cup Range(Tail(t.queue))
  BY AuthTakenFacts
<1>2. ~s.truncated => SeedsDone(s, G)
  BY DEF AuthInv, SeedsDone
<1>3. ASSUME ~s.truncated, NEW p \in s.seen PROVE p \in Range(s.queue) \/ AuthDone(s, G, p)
  <2>1. p \in Range(s.queue) \/ p \in Range(t.queue) \/ AuthDone(t, G, p)
    BY <1>3 DEF AuthInv, AuthItemsDone
  <2>2. AuthDone(t, G, p) => AuthDone(s, G, p)
    BY DEF AuthDone
  <2> QED
    BY <1>1, <1>3, <2>1, <2>2
<1> QED
  BY <1>2, <1>3 DEF AuthInv, AuthItemsDone

LEMMA AuthTurnIsShorter ==
  ASSUME NEW t, NEW view, NEW seeds, AuthInv(t, view, seeds), t.queue # <<>>, NEW lim,
         NEW n, n.queue = Tail(t.queue), n.roots = t.roots, n.admitted = t.admitted,
         NEW s, Pays(n, s, lim), s.roots = n.roots, Len(s.queue) \in Nat
  PROVE  Shorter(t, s, lim)
<1>1. /\ Len(t.roots) \in Nat /\ Len(t.queue) \in Nat /\ Len(Tail(t.queue)) \in Nat
      /\ Len(t.queue) = Len(Tail(t.queue)) + 1
  BY AuthTakenFacts
<1>2. Len(n.roots) + Len(n.queue) + 1 = Len(t.roots) + Len(t.queue)
  <2> DEFINE a == Len(t.roots)
             b == Len(Tail(t.queue))
             c == Len(t.queue)
  <2>1. a \in Nat /\ b \in Nat /\ c \in Nat /\ c = b + 1 /\ Len(n.queue) = b /\ Len(n.roots) = a
    BY <1>1
  <2> HIDE DEF a, b, c
  <2>2. a + b + 1 = a + c
    BY <2>1
  <2> QED
    BY <2>1, <2>2 DEF a, c
<1> QED
  BY <1>1, <1>2, ShorterFacts

LEMMA AuthorityStepFacts ==
  ASSUME NEW t, NEW lim, lim.outgoing \in Nat, NEW view \in Views, NEW seeds,
         AuthInv(t, view, seeds), Searching(t)
  PROVE  /\ AuthInv(AuthorityStep(t, lim, view, seeds), view, seeds)
         /\ Shorter(t, AuthorityStep(t, lim, view, seeds), lim)
<1>1. CASE t.queue = <<>>
  <2>1. t.roots # <<>> /\ AuthorityStep(t, lim, view, seeds) = BeginSeed(t, lim, view, seeds)
    BY <1>1 DEF AuthorityStep, Searching
  <2> QED
    BY <2>1, BeginSeedFacts
<1>2. CASE t.queue # <<>>
  <2> DEFINE W == AuthorityWays(view, seeds)
             R == SeedNodes(seeds)
             G == AuthorityGraph(view, seeds)
             item == Head(t.queue)
             kept == RetainTarget(NextItem(t), lim, item)
             pages == [m \in DOMAIN kept.pages \cup {item.node} |->
                         IF m = item.node THEN Outgoing(view, item.node) ELSE kept.pages[m]]
             c == [kept EXCEPT !.pages = pages]
             read == Cached(kept, item.node, Outgoing(view, item.node))
             x == ExpandAuthority(read, lim, item, read.pages[item.node])
             s == AuthorityStep(t, lim, view, seeds)
  <2>1. s = IF kept.stop THEN kept ELSE x
    BY <1>2 DEF AuthorityStep
  <2>2. /\ AuthTaken(t, kept, view, seeds)
        /\ ~kept.truncated => (item.path # <<>> => item \in kept.found)
    BY <1>2, RetainTargetFacts
  <2>3. read = IF item.node \in DOMAIN kept.pages THEN kept ELSE c
    BY DEF Cached
  <2>4. GoodSearch(kept, W, R) /\ Shaped(kept)
    BY <2>2 DEF AuthTaken, GoodSearch
  <2>i. item \in t.seen /\ Len(Tail(t.queue)) \in Nat
    BY <1>2, AuthTakenFacts
  <2>j. item \in W
    BY <2>i DEF AuthInv, GoodSearch
  <2> HIDE DEF W, R, G, item, kept, pages
  <2>5. /\ Shaped(c) /\ c.queue = kept.queue /\ c.roots = kept.roots /\ c.seen = kept.seen /\ c.pages = pages
        /\ c.found = kept.found /\ c.truncated = kept.truncated /\ c.stop = kept.stop /\ c.full = kept.full
        /\ c.admitted = kept.admitted
    <3>1. Shaped(c)
      BY <2>4, RewrittenSearch
    <3> QED
      BY <2>4, <3>1 DEF Shaped, Fields
  <2> HIDE DEF c
  <2>6. DOMAIN pages = DOMAIN kept.pages \cup {item.node}
        /\ \A m \in DOMAIN pages : pages[m] = IF m = item.node THEN Outgoing(view, item.node) ELSE kept.pages[m]
    BY DEF pages
  <2>7. GoodSearch(c, W, R)
    BY <2>4, <2>5 DEF GoodSearch
  <2>8. /\ AuthTaken(t, c, view, seeds)
        /\ ~c.truncated => (item.path # <<>> => item \in c.found)
        /\ item.node \in DOMAIN c.pages
    BY <2>2, <2>5, <2>6, <2>7 DEF AuthTaken, W, R
  <2>9. /\ AuthTaken(t, read, view, seeds)
        /\ ~read.truncated => (item.path # <<>> => item \in read.found)
        /\ item.node \in DOMAIN read.pages
    BY <2>2, <2>3, <2>8
  <2> HIDE DEF read
  <2>10. read.pages[item.node] = Outgoing(view, item.node) /\ GoodSearch(read, W, R)
    BY <2>9 DEF AuthTaken, W, R
  <2>11. /\ Outgoing(view, item.node) \in Seq(AuthorityHops(view, item.node))
         /\ Range(Outgoing(view, item.node)) = AuthorityHops(view, item.node)
    BY OutgoingFacts
  <2>12. /\ GoodSearch(x, W, R) /\ Grows(read, x) /\ Pays(read, x, lim)
         /\ ~x.truncated => \A e \in StepsOf(G, item) : NextAuth(item, e) \in x.seen
    BY <2>10, <2>11, <2>j, ExpandAuthorityFacts DEF W, G
  <2>13. \A p, e : Extended(G, p, e) = NextAuth(p, e)
    BY AuthorityIsGraph DEF G
  <2> HIDE DEF x
  <2>14. CASE ~kept.stop
    <3>1. s = x
      BY <2>1, <2>14
    <3>2. /\ x.roots = t.roots /\ t.found \subseteq x.found /\ t.seen \subseteq x.seen
          /\ Range(Tail(t.queue)) \subseteq Range(x.queue) /\ x.seen \subseteq t.seen \cup Range(x.queue)
          /\ t.truncated => x.truncated
          /\ \A p \in x.found : p.path # <<>>
          /\ \A n \in DOMAIN x.pages : x.pages[n] = Outgoing(view, n)
      BY <2>9, <2>12 DEF AuthTaken, Grows
    <3>3. ~x.truncated => AuthDone(x, G, item)
      BY <2>9, <2>12, <2>13 DEF AuthDone, Grows
    <3>4. AuthInv(x, view, seeds)
      BY <1>2, <2>12, <3>2, <3>3, AuthorityTurnFacts DEF W, R, G, item
    <3>5. Shorter(t, x, lim)
      <4>1. Len(x.queue) \in Nat
        BY <2>12 DEF GoodSearch
      <4>2. x.roots = read.roots
        BY <2>12 DEF Grows
      <4>3. read.queue = Tail(t.queue) /\ read.roots = t.roots /\ read.admitted = t.admitted
        BY <2>9 DEF AuthTaken
      <4> QED
        BY <1>2, <2>12, <4>1, <4>2, <4>3, AuthTurnIsShorter
    <3> HIDE DEF s
    <3> QED
      BY <3>1, <3>4, <3>5 DEF s
  <2>15. CASE kept.stop
    <3>1. s = kept
      BY <2>1, <2>15
    <3>2. kept.truncated
      BY <2>4, <2>15 DEF GoodSearch
    <3>3. /\ kept.roots = t.roots /\ t.found \subseteq kept.found /\ t.seen \subseteq kept.seen
          /\ Range(Tail(t.queue)) \subseteq Range(kept.queue) /\ kept.seen \subseteq t.seen \cup Range(kept.queue)
          /\ t.truncated => kept.truncated
          /\ \A p \in kept.found : p.path # <<>>
          /\ \A n \in DOMAIN kept.pages : kept.pages[n] = Outgoing(view, n)
      BY <2>2 DEF AuthTaken
    <3>4. AuthInv(kept, view, seeds)
      BY <1>2, <2>4, <3>2, <3>3, AuthorityTurnFacts DEF W, R
    <3>5. Shorter(t, kept, lim)
      <4>1. kept.queue = Tail(t.queue) /\ kept.roots = t.roots /\ kept.admitted = t.admitted
        BY <2>2 DEF AuthTaken
      <4>2. Len(kept.queue) \in Nat
        BY <2>i, <4>1
      <4>3. Pays(kept, kept, lim)
        BY <4>2, PaysFacts
      <4> QED
        BY <1>2, <4>1, <4>2, <4>3, AuthTurnIsShorter
    <3> HIDE DEF s
    <3> QED
      BY <3>1, <3>4, <3>5 DEF s
  <2> QED
    BY <2>14, <2>15
<1> QED
  BY <1>1, <1>2

LEMMA AuthorityStartFacts ==
  ASSUME NEW view \in Views, NEW seeds, IsFiniteSet(SeedNodes(seeds)), SeedNodes(seeds) \subseteq Nat
  PROVE  AuthInv(AuthorityStart(seeds), view, seeds)
<1> DEFINE t == AuthorityStart(seeds)
           R == SeedNodes(seeds)
           G == AuthorityGraph(view, seeds)
<1>1. t = Fresh(InOrder(R))
  BY DEF AuthorityStart, SeedNodes
<1>2. InOrder(R) \in Seq(R) /\ Range(InOrder(R)) = R
  BY OrderFacts
<1>3. /\ Shaped(t) /\ t.roots = InOrder(R) /\ t.queue = <<>> /\ t.seen = {} /\ t.pages = <<>> /\ t.found = {}
      /\ ~t.full /\ ~t.truncated /\ ~t.stop
  <2> HIDE DEF R, t
  <2> QED
    BY <1>1 DEF Fresh, Shaped, Fields
<1>4. \A b \in Origins(G) : b.root \in R
  <2> SUFFICES ASSUME NEW b \in Origins(G) PROVE b.root \in R
    OBVIOUS
  <2>1. PICK n \in G.starts : b = Item(n, n, <<>>)
    BY DEF Origins
  <2>2. SeedEvidence(seeds, n) # {}
    BY AuthorityIsGraph
  <2>3. n \in R
    BY <2>2 DEF SeedEvidence, SeedNodes
  <2> QED
    BY <2>1, <2>3 DEF Item
<1> HIDE DEF t, R, G
<1>5. GoodSearch(t, AuthorityWays(view, seeds), R)
  BY <1>2, <1>3, EmptySequence, FS_EmptySet DEF GoodSearch
<1>6. \A n \in DOMAIN t.pages : t.pages[n] = Outgoing(view, n)
  BY <1>3, EmptySequence
<1>7. SeedsDone(t, G) /\ AuthItemsDone(t, G)
  BY <1>2, <1>3, <1>4 DEF SeedsDone, AuthItemsDone
<1>8. \A p \in t.found : p.path # <<>>
  BY <1>3
<1> QED
  BY <1>5, <1>6, <1>7, <1>8 DEF AuthInv, t, R, G

(* runWave2Authority: what is found is authority, and all of it unless the *)
(* result says that something was left out.                                *)
LEMMA AuthorityFacts ==
  ASSUME NEW view \in Views, NEW seeds, IsFiniteSet(SeedNodes(seeds)), SeedNodes(seeds) \subseteq Nat,
         NEW lim, lim.states \in Nat, lim.outgoing \in Nat
  PROVE  LET t == Authority(view, seeds, lim)
         IN  /\ t.found \subseteq AuthorityPaths(view, seeds)
             /\ ~t.truncated => t.found = AuthorityPaths(view, seeds)
<1> DEFINE b == AuthorityStart(seeds)
           N == lim.states + Len(b.roots)
           how == AuthorityHow(view, seeds, lim)
           W == AuthorityWays(view, seeds)
           g == AuthorityGraph(view, seeds)
<1>1. b = Fresh(InOrder(SeedNodes(seeds)))
  BY DEF AuthorityStart, SeedNodes
<1>2. N \in Nat /\ b.admitted = 0 /\ Left(b, lim) = N
  BY <1>1, StartIsCounted
<1>3. AuthInv(b, view, seeds)
  BY AuthorityStartFacts
<1>4. PICK after : Unrolls(after, N, b, how) /\ Authority(view, seeds, lim) = after[N]
  BY <1>2, AuthorityRuns
<1> DEFINE G == {s \in {after[k] : k \in 0..N} : AuthInv(s, view, seeds)}
<1> HIDE DEF N, b, how
<1>5. after[0] = b /\ \A k \in 1..N : after[k] = Rewritten(how, k, after[k - 1])
  BY <1>4 DEF Unrolls
<1>6. after[0] \in G
  BY <1>2, <1>3, <1>5
<1>7. \A s \in G : Len(s.roots) \in Nat /\ Len(s.queue) \in Nat
                   /\ (Len(s.roots) = 0 => s.roots = <<>>) /\ (Len(s.queue) = 0 => s.queue = <<>>)
  BY Lengths DEF AuthInv
<1>8. ASSUME NEW k \in 1..N, after[k - 1] \in G
      PROVE  IF Searching(after[k - 1]) THEN after[k] \in G /\ Shorter(after[k - 1], after[k], lim)
             ELSE after[k] = after[k - 1]
  <2> DEFINE s == after[k - 1]
  <2>1. after[k] = IF Searching(s) THEN AuthorityStep(s, lim, view, seeds) ELSE s
    BY <1>5, HowFacts DEF how
  <2>2. after[k] \in {after[j] : j \in 0..N}
    BY <1>2
  <2>3. AuthInv(s, view, seeds)
    BY <1>8
  <2> HIDE DEF s
  <2>4. Searching(s) => /\ AuthInv(AuthorityStep(s, lim, view, seeds), view, seeds)
                        /\ Shorter(s, AuthorityStep(s, lim, view, seeds), lim)
    BY <2>3, AuthorityStepFacts
  <2> QED
    BY <2>1, <2>2, <2>4 DEF s
<1> DEFINE t == after[N]
<1> HIDE DEF G
<1>9. t \in G /\ ~Searching(t)
  BY <1>2, <1>5, <1>6, <1>7, <1>8, RunEnds
<1>10. AuthInv(t, view, seeds)
  BY <1>9 DEF G
<1> HIDE DEF t
<1>11. AuthorityPaths(view, seeds) = {p \in W : p.path # <<>>}
  BY DEF AuthorityPaths, AuthorityWays
<1>12. t.found \subseteq AuthorityPaths(view, seeds)
  BY <1>10, <1>11 DEF AuthInv, GoodSearch
<1>13. ASSUME ~t.truncated PROVE AuthorityPaths(view, seeds) \subseteq t.found
  <2>1. t.queue = <<>> /\ t.roots = <<>>
    BY <1>9, <1>10, <1>13 DEF Searching, AuthInv, GoodSearch
  <2>2. Origins(g) \subseteq t.seen /\ \A p \in t.seen : AuthDone(t, g, p)
    BY <1>10, <1>13, <2>1, EmptySequence DEF AuthInv, SeedsDone, AuthItemsDone
  <2>3. IsSearchGraph(g)
    BY AuthorityIsGraph
  <2> DEFINE Seen == t.seen
  <2> HIDE DEF g
  <2>4. \A p \in PathsOf(g) : \A e \in StepsOf(g, p) : p \in Seen /\ p.node \notin g.last => Extended(g, p, e) \in Seen
    BY <2>2 DEF AuthDone
  <2>5. PathsOf(g) \subseteq Seen
    <3>1. Origins(g) \subseteq Seen
      BY <2>2
    <3> HIDE DEF Seen
    <3> QED
      BY <2>3, <2>4, <3>1, PathsFacts
  <2> QED
    BY <1>11, <2>2, <2>5 DEF AuthDone, AuthorityWays, g
<1> QED
  BY <1>4, <1>12, <1>13 DEF t

-----------------------------------------------------------------------------
(* Containment.  What the overlay hides is what the paths of the reference *)
(* lose.                                                                   *)
Spared(p, item, actions) == Intact(item, HiddenNodes(p, actions), HiddenEdges(p, actions))
StillThere(p, all, actions) == {i \in all : Spared(p, i, actions)}

LEMMA OverlayHides ==
  ASSUME NEW view \in Views, NEW p, NEW actions, NEW R, NEW seeds
  PROVE  /\ DependencyPaths(Overlay(view, p, actions), R) = StillThere(p, DependencyPaths(view, R), actions)
         /\ AuthorityPaths(Overlay(view, p, actions), seeds) = StillThere(p, AuthorityPaths(view, seeds), actions)
<1> DEFINE o == Overlay(view, p, actions)
           nodes == HiddenNodes(p, actions)
           hops == HiddenEdges(p, actions)
<1>1. /\ o \in Views /\ o.nodes = view.nodes \ nodes
      /\ o.edges = {e \in view.edges \ hops : {Source[e], Target[e]} \subseteq view.nodes \ nodes}
  BY OverlayFacts
<1> HIDE DEF o, nodes, hops
<1>2. DependencyPaths(o, R) = {i \in DependencyPaths(view, R) : Intact(i, nodes, hops)}
  <2> DEFINE g == DependencyGraph(view, R)
             h == DependencyGraph(o, R)
  <2>1. Without(g, h, nodes, hops)
    BY <1>1 DEF Without, DependencyGraph
  <2>2. IsSearchGraph(g)
    BY DependencyIsGraph
  <2>3. DependencyPaths(view, R) = {i \in PathsOf(g) : NodeKind[i.node] = "Service"}
        /\ DependencyPaths(o, R) = {i \in PathsOf(h) : NodeKind[i.node] = "Service"}
    BY DEF DependencyPaths
  <2> HIDE DEF g, h
  <2>4. PathsOf(h) = {i \in PathsOf(g) : Intact(i, nodes, hops)}
    BY <2>1, <2>2, HidingCuts
  <2> QED
    BY <2>3, <2>4
<1>3. AuthorityPaths(o, seeds) = {i \in AuthorityPaths(view, seeds) : Intact(i, nodes, hops)}
  <2> DEFINE g == AuthorityGraph(view, seeds)
             h == AuthorityGraph(o, seeds)
  <2>1. Without(g, h, nodes, hops)
    BY <1>1 DEF Without, AuthorityGraph
  <2>2. IsSearchGraph(g)
    BY AuthorityIsGraph
  <2>3. AuthorityPaths(view, seeds) = {i \in PathsOf(g) : i.path # <<>>}
        /\ AuthorityPaths(o, seeds) = {i \in PathsOf(h) : i.path # <<>>}
    BY DEF AuthorityPaths
  <2> HIDE DEF g, h
  <2>4. PathsOf(h) = {i \in PathsOf(g) : Intact(i, nodes, hops)}
    BY <2>1, <2>2, HidingCuts
  <2> QED
    BY <2>3, <2>4
<1> QED
  BY <1>2, <1>3 DEF StillThere, Spared, o, nodes, hops

(* calculateImpact of the four searches of a plan.                         *)
Lost(p, all, actions) == {i \in all : ~Spared(p, i, actions)}
Gone(p, all, actions) == {i.node : i \in all} \ {i.node : i \in all \ Lost(p, all, actions)}
Removed(p, impact, paths, chains) ==
  /\ impact.paths = Lost(p, paths, BlastActions)
  /\ impact.authorityPaths = Lost(p, chains, AuthorityActions)
  /\ impact.services = Gone(p, paths, BlastActions)
  /\ impact.targets = Gone(p, chains, AuthorityActions)
Nothing(impact) == impact.paths \cup impact.authorityPaths \cup impact.services \cup impact.targets = {}
ImpactIsReal(view, p, impact) ==
  /\ impact.conclusive => Removed(p, impact, DependencyPaths(view, p.affected), AuthorityPaths(view, p.seeds))
  /\ ~impact.conclusive => Nothing(impact)

LEMMA WhatIsRemoved ==
  ASSUME NEW p, NEW actions, NEW before, NEW after, after.found = StillThere(p, before.found, actions)
  PROVE  /\ before.found \ after.found = Lost(p, before.found, actions)
         /\ Reached(before) \ Reached(after) = Gone(p, before.found, actions)
<1>1. before.found \ after.found = Lost(p, before.found, actions)
  BY DEF Lost, StillThere
<1>2. before.found \ Lost(p, before.found, actions) = StillThere(p, before.found, actions)
  BY DEF Lost, StillThere
<1> QED
  BY <1>1, <1>2 DEF Gone, Reached

LEMMA ImpactOfSearches ==
  ASSUME NEW view, NEW p, NEW b, NEW c, NEW d, NEW e,
         ~b.truncated => b.found = DependencyPaths(view, p.affected),
         ~c.truncated => c.found = StillThere(p, DependencyPaths(view, p.affected), BlastActions),
         ~d.truncated => d.found = AuthorityPaths(view, p.seeds),
         ~e.truncated => e.found = StillThere(p, AuthorityPaths(view, p.seeds), AuthorityActions)
  PROVE  ImpactIsReal(view, p, CalculateImpact(b, c, d, e))
<1> DEFINE impact == CalculateImpact(b, c, d, e)
           all == \A t \in {b, c, d, e} : ~t.truncated
           claim(S) == IF all THEN S ELSE {}
<1>1. impact = [conclusive |-> all,
                services |-> claim(Reached(b) \ Reached(c)), paths |-> claim(b.found \ c.found),
                targets |-> claim(Reached(d) \ Reached(e)), authorityPaths |-> claim(d.found \ e.found)]
  BY DEF CalculateImpact
<1>2. all <=> ~b.truncated /\ ~c.truncated /\ ~d.truncated /\ ~e.truncated
  OBVIOUS
<1> HIDE DEF impact, all, claim
<1>3. /\ impact.conclusive = all
      /\ impact.services = claim(Reached(b) \ Reached(c)) /\ impact.paths = claim(b.found \ c.found)
      /\ impact.targets = claim(Reached(d) \ Reached(e)) /\ impact.authorityPaths = claim(d.found \ e.found)
  BY <1>1
<1>4. ASSUME ~all PROVE ImpactIsReal(view, p, impact)
  <2>1. \A S : claim(S) = {}
    BY <1>4 DEF claim
  <2>2. impact.paths = {} /\ impact.authorityPaths = {} /\ impact.services = {} /\ impact.targets = {}
    BY <1>3, <2>1
  <2>3. Nothing(impact)
    BY <2>2 DEF Nothing
  <2>4. ~impact.conclusive
    BY <1>3, <1>4
  <2> QED
    BY <2>3, <2>4 DEF ImpactIsReal
<1>5. ASSUME all PROVE ImpactIsReal(view, p, impact)
  <2>1. \A S : claim(S) = S
    BY <1>5 DEF claim
  <2>2. /\ b.found \ c.found = Lost(p, DependencyPaths(view, p.affected), BlastActions)
        /\ Reached(b) \ Reached(c) = Gone(p, DependencyPaths(view, p.affected), BlastActions)
    <3>1. b.found = DependencyPaths(view, p.affected) /\ c.found = StillThere(p, b.found, BlastActions)
      BY <1>2, <1>5
    <3>2. /\ b.found \ c.found = Lost(p, b.found, BlastActions)
          /\ Reached(b) \ Reached(c) = Gone(p, b.found, BlastActions)
      BY <3>1, WhatIsRemoved, Zenon
    <3> QED
      BY <3>1, <3>2
  <2>3. /\ d.found \ e.found = Lost(p, AuthorityPaths(view, p.seeds), AuthorityActions)
        /\ Reached(d) \ Reached(e) = Gone(p, AuthorityPaths(view, p.seeds), AuthorityActions)
    <3>1. d.found = AuthorityPaths(view, p.seeds) /\ e.found = StillThere(p, d.found, AuthorityActions)
      BY <1>2, <1>5
    <3>2. /\ d.found \ e.found = Lost(p, d.found, AuthorityActions)
          /\ Reached(d) \ Reached(e) = Gone(p, d.found, AuthorityActions)
      BY <3>1, WhatIsRemoved, Zenon
    <3> QED
      BY <3>1, <3>2
  <2>4. Removed(p, impact, DependencyPaths(view, p.affected), AuthorityPaths(view, p.seeds))
    BY <1>3, <2>1, <2>2, <2>3 DEF Removed
  <2>5. impact.conclusive
    BY <1>3, <1>5
  <2> QED
    BY <2>4, <2>5 DEF ImpactIsReal
<1> QED
  BY <1>4, <1>5 DEF impact

LEMMA PlanImpactFacts ==
  ASSUME NEW view \in Views, NEW p, p.affected \subseteq Nodes, p.blast.states \in Nat,
         p.authority.states \in Nat, p.authority.outgoing \in Nat,
         IsFiniteSet(SeedNodes(p.seeds)), SeedNodes(p.seeds) \subseteq Nat
  PROVE  ImpactIsReal(view, p, CalculateImpact(
           BlastRadius(view, p.affected, p.blast),
           BlastBehind(view, Overlay(view, p, BlastActions), p),
           Authority(view, p.seeds, p.authority),
           Authority(Overlay(view, p, AuthorityActions), p.seeds, p.authority)))
<1> DEFINE b == BlastRadius(view, p.affected, p.blast)
           c == BlastBehind(view, Overlay(view, p, BlastActions), p)
           d == Authority(view, p.seeds, p.authority)
           e == Authority(Overlay(view, p, AuthorityActions), p.seeds, p.authority)
           paths == DependencyPaths(view, p.affected)
           chains == AuthorityPaths(view, p.seeds)
<1>1. ~b.truncated => b.found = paths
  BY BlastRadiusFacts
<1>2. ~c.truncated => c.found = StillThere(p, paths, BlastActions)
  <2>1. ~c.truncated => c.found = DependencyPaths(Overlay(view, p, BlastActions), p.affected)
    BY BlastBehindFacts
  <2> HIDE DEF c
  <2> QED
    BY <2>1, OverlayHides
<1>3. ~d.truncated => d.found = chains
  BY AuthorityFacts
<1>4. ~e.truncated => e.found = StillThere(p, chains, AuthorityActions)
  <2> DEFINE o == Overlay(view, p, AuthorityActions)
  <2>1. o \in Views
    BY OverlayFacts
  <2>2. AuthorityPaths(o, p.seeds) = StillThere(p, chains, AuthorityActions)
    BY OverlayHides
  <2> HIDE DEF o, chains
  <2>3. ~Authority(o, p.seeds, p.authority).truncated =>
          Authority(o, p.seeds, p.authority).found = AuthorityPaths(o, p.seeds)
    BY <2>1, AuthorityFacts
  <2> QED
    BY <2>2, <2>3 DEF o
<1> HIDE DEF b, c, d, e
<1>5. ImpactIsReal(view, p, CalculateImpact(b, c, d, e))
  BY <1>1, <1>2, <1>3, <1>4, ImpactOfSearches
<1> QED
  BY <1>5 DEF b, c, d, e

(* The two properties, of the report of a plan for a batch.                *)
LEMMA ReductionOfReport ==
  report.status = "simulated" => ImpactIsReal(batch, plan, report.impact) <=> ReductionIsReal
<1>1. \A i, actions : ~Spared(plan, i, actions) <=> Cut(i, actions)
  <2> TAKE i, actions
  <2>1. Range(i.path) \cap HiddenEdges(plan, actions) = {} <=>
          ~\E k \in DOMAIN i.path : i.path[k] \in HiddenEdges(plan, actions)
    BY DEF Range
  <2> QED
    BY <2>1 DEF Spared, Intact, Cut
<1> DEFINE L(all, actions) == {i \in all : Cut(i, actions)}
           H(all, actions) == {i.node : i \in all} \ {i.node : i \in all \ L(all, actions)}
<1>2. \A all, actions : Lost(plan, all, actions) = L(all, actions)
  BY <1>1 DEF Lost
<1>3. \A all, actions : Gone(plan, all, actions) = H(all, actions)
  BY <1>2 DEF Gone
<1> DEFINE paths == DependencyPaths(batch, plan.affected)
           chains == AuthorityPaths(batch, plan.seeds)
           impact == report.impact
<1>4. ReductionIsReal <=>
        (report.status = "simulated" =>
           IF impact.conclusive
           THEN /\ impact.paths = L(paths, BlastActions) /\ impact.authorityPaths = L(chains, AuthorityActions)
                /\ impact.services = H(paths, BlastActions) /\ impact.targets = H(chains, AuthorityActions)
           ELSE Nothing(impact))
  BY DEF ReductionIsReal, Nothing
<1> HIDE DEF L, H
<1>5. ImpactIsReal(batch, plan, impact) <=>
        /\ impact.conclusive => Removed(plan, impact, paths, chains)
        /\ ~impact.conclusive => Nothing(impact)
  BY DEF ImpactIsReal
<1>6. Removed(plan, impact, paths, chains) <=>
        /\ impact.paths = L(paths, BlastActions) /\ impact.authorityPaths = L(chains, AuthorityActions)
        /\ impact.services = H(paths, BlastActions) /\ impact.targets = H(chains, AuthorityActions)
  BY <1>2, <1>3 DEF Removed
<1> HIDE DEF impact, paths, chains
<1>7. ASSUME report.status = "simulated" PROVE ImpactIsReal(batch, plan, impact) <=> ReductionIsReal
  BY <1>4, <1>5, <1>6, <1>7
<1> QED
  BY <1>7 DEF impact

-----------------------------------------------------------------------------
(* One request of the routes at a time.                                    *)
RoutesInv ==
  /\ kind = "live" => LiveInv
  /\ kind # "live" => phase = "idle" /\ answer = [code |-> 0, cause |-> "none"]

(* The invariant of a live analysis holds whatever the routes are asked.   *)
THEOREM LiveInvariant == RoutesSpec => []RoutesInv
<1>1. RoutesInit => RoutesInv
  BY LiveBegins DEF RoutesInit, RoutesInv, LiveIdle
<1>2. RoutesInv /\ [RoutesNext]_routeVars => RoutesInv'
  <2> SUFFICES ASSUME RoutesInv, [RoutesNext]_routeVars PROVE RoutesInv'
    OBVIOUS
  <2>1. CASE kind = "live"
    <3>1. kind' = kind /\ [LiveNext]_liveVars
      BY <2>1 DEF RoutesNext, routeVars
    <3> QED
      BY <2>1, <3>1, LiveKeeps DEF RoutesInv
  <2>2. CASE kind # "live"
    <3>1. kind' = kind /\ UNCHANGED liveVars
      BY <2>2 DEF RoutesNext, routeVars
    <3> QED
      BY <2>2, <3>1 DEF RoutesInv, liveVars
  <2> QED
    BY <2>1, <2>2
<1> QED
  BY <1>1, <1>2, PTL DEF RoutesSpec

LEMMA OthersAreIdle ==
  ASSUME phase = "idle", answer = [code |-> 0, cause |-> "none"]
  PROVE  CandidatesAreReachable /\ ResolvedIsBacked /\ OutsideIsOutside /\ WritingIsNotCorruption
BY DEF Answered, CandidatesAreReachable, ResolvedIsBacked, OutsideIsOutside, WritingIsNotCorruption

(* Every candidate of an answer is reached by the paths that are given for *)
(* it, and an answer that does not say it was truncated has every path     *)
(* there was when it was asked for, whatever is written meanwhile and      *)
(* whatever the limits are.                                                *)
THEOREM CandidatesAlways == RoutesSpec => []CandidatesAreReachable
<1>1. RoutesInv => CandidatesAreReachable
  BY CandidatesFollow, OthersAreIdle DEF RoutesInv
<1> QED
  BY <1>1, LiveInvariant, PTL

(* A service is "resolved" only when nothing was left out and every hop of *)
(* a path to it has exact evidence that is stored; the funnel has verified *)
(* that path, and is confident of it when the level is "strong".           *)
THEOREM ResolvedAlways == RoutesSpec => []ResolvedIsBacked
<1>1. RoutesInv => ResolvedIsBacked
  BY ResolvedFollows, OthersAreIdle DEF RoutesInv
<1> QED
  BY <1>1, LiveInvariant, PTL

(* A service with a path in force during the interval is never said to be  *)
(* outside of it, and is unknown exactly when no path of it is dated.      *)
THEOREM OutsideAlways == RoutesSpec => []OutsideIsOutside
<1>1. RoutesInv => OutsideIsOutside
  BY OutsideFollows, OthersAreIdle DEF RoutesInv
<1> QED
  BY <1>1, LiveInvariant, PTL

(* No row the writer has or has not written yet makes an analysis fail as  *)
(* corrupt or inconsistent, nor takes the completeness from an answer      *)
(* within its limits whose incident was stored with its evidence.          *)
THEOREM WritingAlways == RoutesSpec => []WritingIsNotCorruption
<1>1. RoutesInv => WritingIsNotCorruption
  BY WritingFollows, OthersAreIdle DEF RoutesInv
<1> QED
  BY <1>1, LiveInvariant, PTL

-----------------------------------------------------------------------------
(* An analysis of a batch is one step: what it reports is real, or no      *)
(* other request touches it.                                               *)
BatchInv ==
  /\ kind = "batch" => batch \in Batches /\ plan \in Plans
  /\ kind # "batch" => report = [status |-> "idle"]
  /\ report.status = "simulated" => ImpactIsReal(batch, plan, report.impact)
  /\ AuthorityIsBacked

LEMMA PlanFacts ==
  ASSUME NEW p \in Plans
  PROVE  /\ IsFiniteSet(SeedNodes(p.seeds)) /\ SeedNodes(p.seeds) \subseteq Nat
         /\ p.blast.states \in Nat /\ p.authority.states \in Nat /\ p.authority.outgoing \in Nat
<1>1. /\ IsFiniteSet(p.seeds) /\ {s.node : s \in p.seeds} \subseteq Nat
      /\ p.blast.states \in Nat /\ p.authority.states \in Nat /\ p.authority.outgoing \in Nat
  BY ContainmentAssumption
<1>2. IsFiniteSet(SeedNodes(p.seeds))
  <2> DEFINE S == p.seeds
             T == SeedNodes(S)
             f == [s \in S |-> s.node]
  <2>1. f \in Surjection(S, T)
    BY DEF SeedNodes, Surjection
  <2>2. IsFiniteSet(S)
    BY <1>1
  <2> HIDE DEF S, T, f
  <2>3. IsFiniteSet(T)
    BY <2>1, <2>2, FS_Surjection DEF ExistsSurjection
  <2> QED
    BY <2>3 DEF S, T
<1> QED
  BY <1>1, <1>2 DEF SeedNodes

LEMMA BatchBegins ==
  ASSUME RoutesInit
  PROVE  BatchInv
<1>1. CASE kind = "batch"
  <2>1. batch \in Batches /\ plan \in Plans /\ report = [status |-> "none"]
    BY <1>1 DEF RoutesInit, ContainmentInit
  <2> QED
    BY <1>1, <2>1 DEF BatchInv, AuthorityIsBacked
<1>2. CASE kind # "batch"
  <2>1. report = [status |-> "idle"]
    BY <1>2 DEF RoutesInit, ContainmentIdle
  <2> QED
    BY <1>2, <2>1 DEF BatchInv, AuthorityIsBacked
<1> QED
  BY <1>1, <1>2

LEMMA SimulateKeeps ==
  ASSUME batch \in Batches, plan \in Plans, Simulate
  PROVE  /\ report'.status = "simulated" => ImpactIsReal(batch, plan, report'.impact)
         /\ report'.status # "propagated"
<1>1. batch \in Views
  BY ContainmentAssumption
<1> DEFINE first == BlastRadius(batch, plan.affected, plan.blast)
           second == BlastBehind(batch, Overlay(batch, plan, BlastActions), plan)
           third == Authority(batch, plan.seeds, plan.authority)
           fourth == Authority(Overlay(batch, plan, AuthorityActions), plan.seeds, plan.authority)
           impact == CalculateImpact(first, second, third, fourth)
<1>2. \/ report' = [status |-> "refused"]
      \/ /\ PlanAccepted(batch, plan)
         /\ report' = [status |-> "simulated", impact |-> impact, conclusion |-> Conclusion(impact)]
  BY DEF Simulate
<1>3. CASE report' = [status |-> "refused"]
  BY <1>3
<1>4. CASE /\ PlanAccepted(batch, plan)
           /\ report' = [status |-> "simulated", impact |-> impact, conclusion |-> Conclusion(impact)]
  <2>1. plan.affected \subseteq Nodes
    BY <1>1, <1>4 DEF PlanAccepted, Views
  <2>2. ImpactIsReal(batch, plan, impact)
    BY <1>1, <1>4, <2>1, PlanFacts, PlanImpactFacts
  <2> HIDE DEF impact
  <2> QED
    BY <1>4, <2>2
<1> QED
  BY <1>2, <1>3, <1>4

LEMMA PropagateKeeps ==
  ASSUME batch \in Batches, plan \in Plans, Propagate
  PROVE  /\ AuthorityIsBacked'
         /\ report'.status # "simulated"
<1>1. batch \in Views
  BY ContainmentAssumption
<1> DEFINE t == Authority(batch, plan.seeds, plan.authority)
           backing == [i \in t.found |-> PathEvidence(plan.seeds, i)]
           chains == AuthorityPaths(batch, plan.seeds)
           backed == SeedsBacked(batch, plan.seeds) /\ \A i \in t.found : EvidenceIn(batch, backing[i])
<1>2. /\ t.found \subseteq chains
      /\ ~t.truncated => t.found = chains
  BY <1>1, PlanFacts, AuthorityFacts
<1>3. /\ report' = IF backed
                   THEN [status |-> "propagated", found |-> t.found, backing |-> backing,
                         truncated |-> t.truncated]
                   ELSE [status |-> "refused"]
      /\ batch' = batch /\ plan' = plan
  BY DEF Propagate
<1>4. \A i \in t.found : backing[i] = PathEvidence(plan.seeds, i)
  OBVIOUS
<1>5. backed => \A i \in t.found : EvidenceIn(batch, backing[i])
  OBVIOUS
<1> HIDE DEF t, backing, chains, backed
<1>6. CASE ~backed
  BY <1>3, <1>6 DEF AuthorityIsBacked
<1>7. CASE backed
  <2>1. /\ report'.status = "propagated" /\ report'.found = t.found
        /\ report'.backing = backing /\ report'.truncated = t.truncated
    BY <1>3, <1>7
  <2>2. \A i \in t.found : backing[i] \subseteq {n \in batch.nodes : NodeKind[n] = "Evidence"}
    BY <1>5, <1>7 DEF EvidenceIn
  <2>3. \A i \in t.found : \A s \in plan.seeds : s.node = i.root => s.evidence \subseteq backing[i]
    BY <1>4 DEF PathEvidence, SeedEvidence
  <2>4. \A i \in t.found : \A k \in DOMAIN i.path : EdgeEvidence[i.path[k]] \subseteq backing[i]
    BY <1>4 DEF PathEvidence
  <2>5. /\ t.found \subseteq AuthorityPaths(batch', plan'.seeds)
        /\ ~t.truncated => AuthorityPaths(batch', plan'.seeds) \subseteq t.found
    BY <1>2, <1>3 DEF chains
  <2> QED
    BY <1>3, <2>1, <2>2, <2>3, <2>4, <2>5 DEF AuthorityIsBacked
<1> QED
  BY <1>6, <1>7

LEMMA BatchKeeps ==
  ASSUME BatchInv, [RoutesNext]_routeVars
  PROVE  BatchInv'
<1>1. CASE kind = "batch" /\ ContainmentNext /\ kind' = kind
  <2>1. batch \in Batches /\ plan \in Plans /\ batch' = batch /\ plan' = plan
    BY <1>1 DEF BatchInv, ContainmentNext, Simulate, Propagate
  <2>2. CASE Simulate
    <3>1. /\ report'.status = "simulated" => ImpactIsReal(batch', plan', report'.impact)
          /\ report'.status # "propagated"
      BY <2>1, <2>2, SimulateKeeps
    <3> QED
      BY <1>1, <2>1, <3>1 DEF BatchInv, AuthorityIsBacked
  <2>3. CASE Propagate
    BY <1>1, <2>1, <2>3, PropagateKeeps DEF BatchInv
  <2> QED
    BY <1>1, <2>2, <2>3 DEF ContainmentNext
<1>2. CASE kind' = kind /\ UNCHANGED containmentVars
  <2>1. batch' = batch /\ plan' = plan /\ report' = report
    BY <1>2 DEF containmentVars
  <2>2. AuthorityIsBacked' <=> AuthorityIsBacked
    BY <2>1 DEF AuthorityIsBacked
  <2> QED
    BY <1>2, <2>1, <2>2 DEF BatchInv
<1> QED
  BY <1>1, <1>2 DEF RoutesNext, routeVars

(* Whatever the batch, the plan and the limits, a conclusive simulation    *)
(* removes exactly the paths that its controls cut, and the services and   *)
(* targets that no path is left to; one that a limit cut short removes     *)
(* nothing.                                                                *)
THEOREM ReductionAlways == RoutesSpec => []ReductionIsReal
<1>1. RoutesInit => BatchInv
  BY BatchBegins
<1>2. BatchInv /\ [RoutesNext]_routeVars => BatchInv'
  BY BatchKeeps
<1>3. BatchInv => ReductionIsReal
  <2>1. CASE report.status = "simulated"
    BY <2>1, ReductionOfReport DEF BatchInv
  <2>2. CASE report.status # "simulated"
    BY <2>2 DEF ReductionIsReal
  <2> QED
    BY <2>1, <2>2
<1> QED
  BY <1>1, <1>2, <1>3, PTL DEF RoutesSpec

(* The authority that is reported of a batch is a path of valid steps from *)
(* a seed, with the evidence of the seed and of every step, all of it      *)
(* there; what no limit cut short has every such path.                     *)
THEOREM AuthorityAlways == RoutesSpec => []AuthorityIsBacked
<1>1. RoutesInit => BatchInv
  BY BatchBegins
<1>2. BatchInv /\ [RoutesNext]_routeVars => BatchInv'
  BY BatchKeeps
<1>3. BatchInv => AuthorityIsBacked
  BY DEF BatchInv
<1> QED
  BY <1>1, <1>2, <1>3, PTL DEF RoutesSpec


-----------------------------------------------------------------------------
(* Lists that are put together of bounded ones.                            *)
First(q, k) == SubSeq(q, 1, IF Len(q) < k THEN Len(q) ELSE k)

LEMMA FirstFacts ==
  ASSUME NEW S, NEW q \in Seq(S), NEW k \in Nat
  PROVE  /\ First(q, k) \in Seq(Range(q)) /\ Len(First(q, k)) <= k /\ Len(First(q, k)) \in Nat
         /\ First(q, k) \in Seq(S) /\ Range(First(q, k)) \subseteq Range(q)
         /\ Len(First(q, k)) < k => First(q, k) = q /\ Range(First(q, k)) = Range(q)
         /\ OnceOnly(q) => OnceOnly(First(q, k))
<1> DEFINE n == IF Len(q) < k THEN Len(q) ELSE k
           h == First(q, k)
<1>1. Len(q) \in Nat /\ n \in Nat /\ n <= Len(q) /\ n <= k
  OBVIOUS
<1>2. h = SubSeq(q, 1, n)
  BY DEF First
<1>3. n < k => n = Len(q)
  OBVIOUS
<1> HIDE DEF n, h
<1>4. h \in Seq(S) /\ Len(h) = n /\ \A i \in 1..n : h[i] = q[i]
  BY <1>1, <1>2
<1>5. DOMAIN h = 1..n /\ DOMAIN q = 1..Len(q) /\ 1..n \subseteq 1..Len(q)
  BY <1>1, <1>4
<1>6. Range(h) \subseteq Range(q)
  BY <1>4, <1>5 DEF Range
<1>7. h \in Seq(Range(q))
  BY <1>4, <1>6, SequenceRange
<1>8. n < k => h = q
  BY <1>1, <1>3, <1>4, <1>5
<1>9. OnceOnly(q) => OnceOnly(h)
  BY <1>4, <1>5 DEF OnceOnly
<1> QED
  BY <1>1, <1>4, <1>6, <1>7, <1>8, <1>9 DEF h

LEMMA JoinFacts ==
  ASSUME NEW S, NEW q \in Seq(S), NEW r \in Seq(S)
  PROVE  /\ q \o r \in Seq(S) /\ Len(q \o r) = Len(q) + Len(r) /\ Range(q \o r) = Range(q) \cup Range(r)
         /\ Len(q) \in Nat /\ Len(r) \in Nat
         /\ OnceOnly(q) /\ OnceOnly(r) /\ Range(q) \cap Range(r) = {} => OnceOnly(q \o r)
<1> DEFINE m == Len(q)
           n == Len(r)
           s == q \o r
<1>1. /\ m \in Nat /\ n \in Nat /\ s \in Seq(S) /\ Len(s) = m + n
      /\ DOMAIN q = 1..m /\ DOMAIN r = 1..n /\ DOMAIN s = 1..(m + n)
      /\ \A i \in 1..m : s[i] = q[i]
      /\ \A i \in 1..n : s[m + i] = r[i]
  OBVIOUS
<1> HIDE DEF m, n, s
<1>2. \A i \in 1..(m + n) : i \notin 1..m => i - m \in 1..n /\ m + (i - m) = i
  BY <1>1
<1>3. \A i \in 1..m : i \in 1..(m + n)
  BY <1>1
<1>4. \A i \in 1..n : m + i \in 1..(m + n)
  BY <1>1
<1>5. Range(s) \subseteq Range(q) \cup Range(r)
  <2> SUFFICES ASSUME NEW i \in 1..(m + n) PROVE s[i] \in Range(q) \cup Range(r)
    BY <1>1 DEF Range
  <2>1. CASE i \in 1..m
    BY <1>1, <2>1 DEF Range
  <2>2. CASE i \notin 1..m
    <3>1. i - m \in 1..n /\ s[i] = r[i - m]
      BY <1>1, <1>2, <2>2
    <3> QED
      BY <1>1, <3>1 DEF Range
  <2> QED
    BY <2>1, <2>2
<1>6. Range(q) \cup Range(r) \subseteq Range(s)
  BY <1>1, <1>3, <1>4 DEF Range
<1>7. ASSUME OnceOnly(q), OnceOnly(r), Range(q) \cap Range(r) = {}, NEW i \in 1..(m + n), NEW j \in 1..(m + n),
             s[i] = s[j]
      PROVE  i = j
  <2>0. \A k \in 1..(m + n) : k \in 1..m => s[k] = q[k] /\ s[k] \in Range(q)
    BY <1>1 DEF Range
  <2>1. \A k \in 1..(m + n) : k \notin 1..m => s[k] = r[k - m] /\ s[k] \in Range(r)
    <3> TAKE k \in 1..(m + n)
    <3> SUFFICES ASSUME k \notin 1..m PROVE s[k] = r[k - m] /\ s[k] \in Range(r)
      OBVIOUS
    <3>1. k - m \in 1..n /\ m + (k - m) = k
      BY <1>2
    <3> QED
      BY <1>1, <3>1 DEF Range
  <2>2. i \in 1..m <=> j \in 1..m
    BY <1>7, <2>0, <2>1
  <2>3. CASE i \in 1..m
    BY <1>1, <1>7, <2>0, <2>2, <2>3 DEF OnceOnly
  <2>4. CASE i \notin 1..m
    <3>1. i - m \in 1..n /\ j - m \in 1..n /\ r[i - m] = r[j - m]
      BY <1>2, <1>7, <2>1, <2>2, <2>4
    <3>2. i - m = j - m
      BY <1>1, <1>7, <3>1 DEF OnceOnly
    <3> QED
      BY <1>1, <3>2
  <2> QED
    BY <2>3, <2>4
<1>8. OnceOnly(q) /\ OnceOnly(r) /\ Range(q) \cap Range(r) = {} => OnceOnly(s)
  BY <1>1, <1>7 DEF OnceOnly
<1> QED
  BY <1>1, <1>5, <1>6, <1>8 DEF m, n, s

LEMMA ReverseFacts ==
  ASSUME NEW S, NEW q \in Seq(S)
  PROVE  /\ Reverse(q) \in Seq(S) /\ Range(Reverse(q)) = Range(q)
         /\ OnceOnly(q) => OnceOnly(Reverse(q))
<1> DEFINE n == Len(q)
           r == Reverse(q)
<1>1. n \in Nat /\ DOMAIN q = 1..n /\ \A i \in 1..n : q[i] \in S
  OBVIOUS
<1>2. r = [i \in 1..n |-> q[(n - i) + 1]]
  BY DEF Reverse
<1> HIDE DEF n, r
<1>3. \A i \in 1..n : (n - i) + 1 \in 1..n /\ (n - ((n - i) + 1)) + 1 = i
  BY <1>1
<1>4. r \in [1..n -> S] /\ \A i \in 1..n : r[i] = q[(n - i) + 1]
  BY <1>1, <1>2, <1>3
<1>5. r \in Seq(S) /\ DOMAIN r = 1..n
  BY <1>1, <1>4
<1>6. Range(r) \subseteq Range(q)
  BY <1>1, <1>3, <1>4, <1>5 DEF Range
<1>7. Range(q) \subseteq Range(r)
  <2> SUFFICES ASSUME NEW i \in 1..n PROVE q[i] \in Range(r)
    BY <1>1 DEF Range
  <2>1. r[(n - i) + 1] = q[i]
    BY <1>3, <1>4
  <2> QED
    BY <1>3, <1>5, <2>1 DEF Range
<1>8. OnceOnly(q) => OnceOnly(r)
  <2> SUFFICES ASSUME OnceOnly(q), NEW i \in 1..n, NEW j \in 1..n, r[i] = r[j] PROVE i = j
    BY <1>5 DEF OnceOnly
  <2>1. (n - i) + 1 = (n - j) + 1
    BY <1>1, <1>3, <1>4 DEF OnceOnly
  <2> QED
    BY <1>1, <2>1
<1> QED
  BY <1>5, <1>6, <1>7, <1>8 DEF r

LEMMA OnceSize ==
  ASSUME NEW S, NEW q \in Seq(S), OnceOnly(q)
  PROVE  IsFiniteSet(Range(q)) /\ Cardinality(Range(q)) = Len(q)
<1> DEFINE n == Len(q)
           R == Range(q)
           N == 1..n
<1>1. n \in Nat /\ DOMAIN q = N /\ q = [i \in N |-> q[i]]
  OBVIOUS
<1>2. R = {q[i] : i \in N}
  BY <1>1 DEF Range
<1>3. IsFiniteSet(N) /\ Cardinality(N) = n
  <2> HIDE DEF n
  <2>1. 1 \in Int /\ n \in Int
    BY <1>1
  <2>2. IsFiniteSet(1..n) /\ Cardinality(1..n) = IF 1 > n THEN 0 ELSE n - 1 + 1
    BY <2>1, FS_Interval
  <2> QED
    BY <1>1, <2>2
<1> HIDE DEF n, N, R
<1>4. q \in [N -> R]
  BY <1>1, <1>2
<1>5. q \in Bijection(N, R)
  BY <1>1, <1>2, <1>4 DEF OnceOnly, Bijection, Injection, Surjection, IsInjective
<1>6. ExistsBijection(N, R)
  BY <1>5 DEF ExistsBijection
<1>7. IsFiniteSet(R) /\ Cardinality(R) = Cardinality(N)
  BY <1>3, <1>6, FS_Bijection
<1> QED
  BY <1>3, <1>7 DEF n, R

(* Of the first k of a finite set nothing is missing unless they are k.    *)
LEMMA FirstOfFacts ==
  ASSUME NEW S, S \subseteq Nat, IsFiniteSet(S), NEW k \in Nat
  PROVE  /\ FirstOf(S, k) \subseteq S
         /\ FirstOf(S, k) # S => Cardinality(FirstOf(S, k)) >= k
<1> DEFINE F == FirstOf(S, k)
           Below(n) == {m \in S : m < n}
<1>1. F \subseteq S /\ \A n \in S : n \in F <=> Cardinality(Below(n)) < k
  BY DEF FirstOf
<1>2. ASSUME F # S PROVE Cardinality(F) >= k
  <2> DEFINE T == S \ F
  <2>1. T # {} /\ T \subseteq Nat
    BY <1>1, <1>2
  <2>2. PICK x \in T : \A y \in T : x <= y
    <3> HIDE DEF T
    <3> QED
      BY <2>1, LeastNumber
  <2>3. Below(x) \subseteq F
    <3> SUFFICES ASSUME NEW m \in S, m < x, m \notin F PROVE FALSE
      OBVIOUS
    <3>1. m \in T /\ x \in Nat /\ m \in Nat
      BY <2>1, <2>2
    <3>2. x <= m
      BY <2>2, <3>1
    <3> QED
      BY <3>1, <3>2
  <2>4. ~(Cardinality(Below(x)) < k) /\ x \in S
    BY <1>1, <2>2
  <2> HIDE DEF Below, F
  <2>5. IsFiniteSet(F)
    BY <1>1, SubsetSize
  <2>6. Cardinality(Below(x)) <= Cardinality(F) /\ Cardinality(Below(x)) \in Nat /\ Cardinality(F) \in Nat
    BY <2>3, <2>5, SubsetSize
  <2> QED
    BY <2>4, <2>6
<1> QED
  BY <1>1, <1>2

(* The rows that are stored while a batch is written: an index row is      *)
(* never there before the edge it is from.                                 *)
StoredInv ==
  /\ situation \in Situations
  /\ DOMAIN stored = Phases /\ DOMAIN pending = Phases /\ DOMAIN rewritten = {"nodes", "edges"}
  /\ stored.nodes \subseteq Nodes /\ stored.edges \subseteq Edges
  /\ pending.nodes \subseteq Nodes /\ pending.edges \subseteq Edges
  /\ situation.view.nodes \subseteq stored.nodes /\ situation.view.edges \subseteq stored.edges
  /\ Indexed(situation.view.edges) \subseteq stored.index
  /\ stored.index \subseteq stored.edges
  /\ pending.index \subseteq pending.edges \cup stored.edges

(* Nothing that was stored goes, and what was written over stays so.       *)
RowsStay ==
  /\ situation' = situation
  /\ stored.nodes \subseteq stored.nodes' /\ stored.edges \subseteq stored.edges'
  /\ stored.index \subseteq stored.index'
  /\ rewritten.nodes \subseteq rewritten.nodes' /\ rewritten.edges \subseteq rewritten.edges'

LEMMA HoldingFacts == \A s \in Situations : Holding(s) => StoredInv
<1> SUFFICES ASSUME NEW s \in Situations, Holding(s) PROVE StoredInv
  OBVIOUS
<1>1. s.view \in Views /\ s.batch \in Views
  BY SituationAssumption
<1>2. \A E : Indexed(E) \subseteq E
  BY DEF Indexed
<1> QED
  BY <1>1, <1>2 DEF Holding, StoredInv, RowsOf, Views, Phases

LEMMA FirstRow == \A S, row : row \in FirstOf(S, 1) => row \in S
BY DEF FirstOf

LEMMA WriteRowFacts == StoredInv /\ WriteRow => StoredInv' /\ RowsStay
<1> SUFFICES ASSUME StoredInv, WriteRow PROVE StoredInv' /\ RowsStay
  OBVIOUS
<1>0. PICK part \in Phases : \E row \in FirstOf(pending[part], 1) :
        /\ \A p \in Earlier[part] : pending[p] = {}
        /\ stored' = [stored EXCEPT ![part] = @ \cup {row}]
        /\ pending' = [pending EXCEPT ![part] = @ \ {row}]
        /\ rewritten' = IF part = "index" THEN rewritten
                        ELSE [rewritten EXCEPT ![part] = @ \cup {row}]
        /\ situation' = situation
  BY DEF WriteRow
<1>1. PICK row \in pending[part] :
        /\ \A p \in Earlier[part] : pending[p] = {}
        /\ stored' = [stored EXCEPT ![part] = @ \cup {row}]
        /\ pending' = [pending EXCEPT ![part] = @ \ {row}]
        /\ rewritten' = IF part = "index" THEN rewritten
                        ELSE [rewritten EXCEPT ![part] = @ \cup {row}]
        /\ situation' = situation
  BY <1>0, FirstRow
<1>2. DOMAIN stored' = Phases /\ DOMAIN pending' = Phases
  BY <1>1 DEF StoredInv
<1>3. CASE part = "nodes"
  <2>1. /\ stored'.nodes = stored.nodes \cup {row} /\ stored'.edges = stored.edges /\ stored'.index = stored.index
        /\ pending'.nodes = pending.nodes \ {row} /\ pending'.edges = pending.edges
        /\ pending'.index = pending.index /\ row \in pending.nodes
    BY <1>1, <1>3 DEF StoredInv, Phases
  <2>2. /\ DOMAIN rewritten' = {"nodes", "edges"}
        /\ rewritten'.nodes = rewritten.nodes \cup {row} /\ rewritten'.edges = rewritten.edges
    BY <1>1, <1>3 DEF StoredInv
  <2> QED
    BY <1>1, <1>2, <2>1, <2>2 DEF StoredInv, RowsStay, Indexed
<1>4. CASE part = "edges"
  <2>1. /\ stored'.edges = stored.edges \cup {row} /\ stored'.nodes = stored.nodes /\ stored'.index = stored.index
        /\ pending'.edges = pending.edges \ {row} /\ pending'.nodes = pending.nodes
        /\ pending'.index = pending.index /\ row \in pending.edges
    BY <1>1, <1>4 DEF StoredInv, Phases
  <2>2. /\ DOMAIN rewritten' = {"nodes", "edges"}
        /\ rewritten'.edges = rewritten.edges \cup {row} /\ rewritten'.nodes = rewritten.nodes
    BY <1>1, <1>4 DEF StoredInv
  <2> QED
    BY <1>1, <1>2, <2>1, <2>2 DEF StoredInv, RowsStay, Indexed
<1>5. CASE part = "index"
  <2>1. /\ stored'.index = stored.index \cup {row} /\ stored'.nodes = stored.nodes /\ stored'.edges = stored.edges
        /\ pending'.index = pending.index \ {row} /\ pending'.nodes = pending.nodes
        /\ pending'.edges = pending.edges /\ row \in pending.index
    BY <1>1, <1>5 DEF StoredInv, Phases
  <2>2. pending.edges = {}
    BY <1>1, <1>5 DEF Earlier
  <2>3. rewritten' = rewritten
    BY <1>1, <1>5
  <2> QED
    BY <1>1, <1>2, <2>1, <2>2, <2>3 DEF StoredInv, RowsStay, Indexed
<1> QED
  BY <1>1, <1>3, <1>4, <1>5 DEF Phases

-----------------------------------------------------------------------------
(* The overview of a package.  A list is about some of the versions: it    *)
(* has room for what belongs to these, once, and unless it is at its limit *)
(* has what was there of it at first.                                      *)
Proven(e) == [edge |-> e, resolved |-> TRUE]

RoomOf(l, V) ==
  CASE l \in {"maintainers", "incidents"} -> Nodes
    [] l = "authorities" -> Edges
    [] l = "declarations" -> {e \in Edges : Source[e] \in V}
    [] l = "dependents" -> {Proven(e) : e \in {d \in Edges : Target[d] \in V}}

OwedOf(l, package, V, E) ==
  CASE l = "maintainers" -> MaintainersOf(package, E)
    [] l = "authorities" -> AuthoritiesOf(package, E)
    [] l = "declarations" -> {e \in E : EdgeKind[e] = "DECLARES_DEPENDENCY" /\ Source[e] \in V}
    [] l = "dependents" -> {Proven(e) : e \in {d \in E : EdgeKind[d] = "DEPENDS_ON" /\ Target[d] \in V}}
    [] l = "incidents" -> {Source[e] : e \in {d \in E : EdgeKind[d] = "AFFECTS" /\ Target[d] \in V}}

Listed(q, limit, room, due) ==
  q \in Seq(room) /\ OnceOnly(q) /\ (Len(q) < limit => due \subseteq Range(q))

(* The versions whose rows a list has already, and the lists of the        *)
(* package itself that are still to be read.                               *)
Passed ==
  CASE overview.at = "dependents" -> {"declarations"}
    [] overview.at = "incidents" -> {"declarations", "dependents"}
    [] OTHER -> {}
ReadFor(l) ==
  (overview.versions \ Range(overview.todo)) \cup (IF l \in Passed THEN {Head(overview.todo)} ELSE {})
Unread ==
  CASE overview.at = "maintainers" -> {"maintainers", "authorities"}
    [] overview.at = "authorities" -> {"authorities"}
    [] OTHER -> {}

OverviewFields == {"at", "asked", "versions", "todo", "truncated", "found", "lists", "code"}
Stages == {"maintainers", "authorities", "declarations", "dependents", "incidents", "cut"}

ReadingInv ==
  /\ DOMAIN overview = OverviewFields /\ DOMAIN overview.lists = Lists
  /\ overview.asked.limit \in Nat \ {0} /\ overview.code = 0 /\ overview.found
  /\ overview.todo \in Seq(overview.versions) /\ OnceOnly(overview.todo)
  /\ overview.at = "cut" <=> overview.todo = <<>>
  /\ ~overview.truncated =>
       VersionsOf(overview.asked.package, situation.view.nodes) \subseteq overview.versions
  /\ \A l \in Unread : overview.lists[l] = <<>>
  /\ \A l \in Lists \ Unread :
       Listed(overview.lists[l], overview.asked.limit, RoomOf(l, ReadFor(l)),
              OwedOf(l, overview.asked.package, ReadFor(l), situation.view.edges))

OverviewInv ==
  /\ StoredInv /\ overview.asked \in OverviewRequests
  /\ overview.at \in Stages \cup {"versions", "answered"}
  /\ overview.at = "versions" => overview = NewOverview(overview.asked)
  /\ overview.at \in Stages => ReadingInv
  /\ overview.at = "answered" => OverviewIsBounded

-----------------------------------------------------------------------------
LEMMA ListGrows ==
  ASSUME NEW room, NEW more, NEW q, NEW rows \in Seq(more), NEW limit \in Nat, NEW due, NEW new,
         Listed(q, limit, room, due), OnceOnly(rows), Range(q) \cap more = {},
         Len(First(rows, limit)) < limit => new \subseteq Range(rows)
  PROVE  Listed(q \o First(rows, limit), limit, room \cup more, due \cup new)
<1> DEFINE r == First(rows, limit)
           s == q \o r
           S == room \cup more
<1>1. /\ r \in Seq(more) /\ Len(r) \in Nat /\ OnceOnly(r) /\ Range(r) \subseteq more
      /\ Len(r) < limit => Range(r) = Range(rows)
  <2>1. Range(rows) \subseteq more
    BY SequenceRange
  <2> QED
    BY <2>1, FirstFacts
<1>2. q \in Seq(room) /\ OnceOnly(q) /\ (Len(q) < limit => due \subseteq Range(q))
  BY DEF Listed
<1>3. q \in Seq(S) /\ r \in Seq(S)
  <2>1. Range(q) \subseteq S /\ Range(r) \subseteq S
    BY <1>1, <1>2, SequenceRange
  <2> HIDE DEF r, S
  <2> QED
    BY <1>1, <1>2, <2>1, SequenceRange
<1> HIDE DEF r, S
<1>4. /\ s \in Seq(S) /\ Len(s) = Len(q) + Len(r) /\ Range(s) = Range(q) \cup Range(r)
      /\ Len(q) \in Nat /\ OnceOnly(s)
  <2>1. Range(q) \cap Range(r) = {}
    BY <1>1
  <2> QED
    BY <1>1, <1>2, <1>3, <2>1, JoinFacts
<1>5. Len(s) < limit => Len(q) < limit /\ Len(r) < limit
  <2> DEFINE a == Len(q)
             b == Len(r)
             c == Len(s)
  <2>1. a \in Nat /\ b \in Nat /\ c = a + b
    BY <1>1, <1>4
  <2> HIDE DEF a, b, c
  <2>2. c < limit => a < limit /\ b < limit
    BY <2>1
  <2> QED
    BY <2>2 DEF a, b, c
<1>6. Len(s) < limit => due \cup new \subseteq Range(s)
  <2>1. Len(r) < limit => new \subseteq Range(r)
    BY <1>1 DEF r
  <2> QED
    BY <1>2, <1>4, <1>5, <2>1
<1> HIDE DEF s
<1>7. Listed(s, limit, S, due \cup new)
  BY <1>4, <1>6 DEF Listed
<1> QED
  BY <1>7 DEF s, r, S

LEMMA EmptyIsListed ==
  ASSUME NEW room, NEW limit
  PROVE  Listed(<<>>, limit, room, {})
BY EmptySequence DEF Listed, OnceOnly

LEMMA ViewIsStored ==
  ASSUME StoredInv
  PROVE  /\ \A kin : {e \in situation.view.edges : EdgeKind[e] = kin} \subseteq StoredEdges(kin)
         /\ \A kin : StoredEdges(kin) \subseteq {e \in Edges : EdgeKind[e] = kin}
<1>1. \A e \in situation.view.edges : {Source[e], Target[e]} \subseteq situation.view.nodes
  BY SituationAssumption DEF StoredInv
<1> QED
  BY <1>1 DEF StoredInv, StoredEdges

LEMMA LastObservedFacts ==
  ASSUME NEW S, S \subseteq Nodes
  PROVE  LastObserved(S) \in Seq(S) /\ Range(LastObserved(S)) = S /\ OnceOnly(LastObserved(S))
<1> DEFINE A == S \cap rewritten.nodes
           B == S \ rewritten.nodes
           a == Reverse(InOrder(A))
           b == Reverse(InOrder(B))
<1>1. IsFiniteSet(A) /\ IsFiniteSet(B) /\ A \subseteq Nat /\ B \subseteq Nat
  <2>1. A \subseteq Nodes /\ B \subseteq Nodes
    OBVIOUS
  <2> HIDE DEF A, B
  <2> QED
    BY <2>1, GraphAssumption, SubsetSize
<1>2. LastObserved(S) = a \o b
  BY DEF LastObserved
<1>3. A \cap B = {} /\ A \cup B = S
  OBVIOUS
<1> HIDE DEF A, B
<1>4. InOrder(A) \in Seq(A) /\ Range(InOrder(A)) = A /\ OnceOnly(InOrder(A))
  BY <1>1, OrderFacts
<1>5. InOrder(B) \in Seq(B) /\ Range(InOrder(B)) = B /\ OnceOnly(InOrder(B))
  BY <1>1, OrderFacts
<1>6. a \in Seq(A) /\ Range(a) = A /\ OnceOnly(a)
  BY <1>4, ReverseFacts
<1>7. b \in Seq(B) /\ Range(b) = B /\ OnceOnly(b)
  BY <1>5, ReverseFacts
<1> HIDE DEF a, b
<1>8. a \in Seq(S) /\ b \in Seq(S)
  BY <1>3, <1>6, <1>7, SequenceRange
<1> DEFINE c == a \o b
<1>9. c \in Seq(S) /\ Range(c) = Range(a) \cup Range(b) /\ OnceOnly(c)
  <2>1. Range(a) \cap Range(b) = {}
    BY <1>3, <1>6, <1>7
  <2> QED
    BY <1>6, <1>7, <1>8, <2>1, JoinFacts
<1> HIDE DEF c
<1>10. LastObserved(S) = c
  BY <1>2 DEF c
<1> QED
  BY <1>3, <1>6, <1>7, <1>9, <1>10

LEMMA KeepFacts ==
  ASSUME DOMAIN overview = OverviewFields, DOMAIN overview.lists = Lists,
         NEW l \in Lists, NEW rows, NEW next, overview' = Keep(l, rows, next)
  PROVE  /\ DOMAIN overview' = OverviewFields /\ DOMAIN overview'.lists = Lists
         /\ overview'.at = next /\ overview'.asked = overview.asked /\ overview'.versions = overview.versions
         /\ overview'.todo = overview.todo /\ overview'.truncated = overview.truncated
         /\ overview'.found = overview.found /\ overview'.code = overview.code
         /\ overview'.lists[l] = overview.lists[l] \o First(rows, overview.asked.limit)
         /\ \A m \in Lists \ {l} : overview'.lists[m] = overview.lists[m]
<1> DEFINE joined == overview.lists[l] \o First(rows, overview.asked.limit)
<1>1. overview' = [overview EXCEPT !.lists[l] = joined, !.at = next]
  BY DEF Keep, Bounded, First
<1> HIDE DEF joined
<1>2. overview'.lists = [overview.lists EXCEPT ![l] = joined]
  BY <1>1 DEF OverviewFields
<1>3. overview'.lists[l] = joined /\ \A m \in Lists \ {l} : overview'.lists[m] = overview.lists[m]
  BY <1>2
<1>4. DOMAIN overview'.lists = Lists
  BY <1>2
<1> QED
  BY <1>1, <1>3, <1>4 DEF OverviewFields, joined

(* A step that reads one list.                                             *)
LEMMA ReadingSteps ==
  ASSUME ReadingInv, situation' = situation, DOMAIN overview' = OverviewFields, DOMAIN overview'.lists = Lists,
         overview'.asked = overview.asked, overview'.versions = overview.versions,
         overview'.truncated = overview.truncated, overview'.found = overview.found,
         overview'.code = overview.code, overview'.todo \in Seq(overview.versions), OnceOnly(overview'.todo),
         overview'.at = "cut" <=> overview'.todo = <<>>,
         NEW l \in Lists, l \notin Unread', Unread' \subseteq Unread, Unread \subseteq Unread' \cup {l},
         Listed(overview'.lists[l], overview.asked.limit, RoomOf(l, ReadFor(l)'),
                OwedOf(l, overview.asked.package, ReadFor(l)', situation.view.edges)),
         \A m \in Lists \ {l} :
           /\ overview'.lists[m] = overview.lists[m]
           /\ RoomOf(m, ReadFor(m)') = RoomOf(m, ReadFor(m))
           /\ OwedOf(m, overview.asked.package, ReadFor(m)', situation.view.edges)
                = OwedOf(m, overview.asked.package, ReadFor(m), situation.view.edges)
  PROVE  ReadingInv'
<1>1. \A m \in Unread' : overview'.lists[m] = <<>>
  <2>1. Unread \subseteq Lists
    BY DEF Unread, Lists
  <2> QED
    BY <2>1 DEF ReadingInv
<1>2. ASSUME NEW m \in Lists \ Unread'
      PROVE  Listed(overview'.lists[m], overview'.asked.limit, RoomOf(m, ReadFor(m)'),
                    OwedOf(m, overview'.asked.package, ReadFor(m)', situation'.view.edges))
  <2>1. CASE m = l
    BY <2>1
  <2>2. CASE m # l
    <3>1. m \notin Unread
      BY <1>2, <2>2
    <3>2. Listed(overview.lists[m], overview.asked.limit, RoomOf(m, ReadFor(m)),
                 OwedOf(m, overview.asked.package, ReadFor(m), situation.view.edges))
      BY <3>1 DEF ReadingInv
    <3>3. /\ overview'.lists[m] = overview.lists[m]
          /\ RoomOf(m, ReadFor(m)') = RoomOf(m, ReadFor(m))
          /\ OwedOf(m, overview.asked.package, ReadFor(m)', situation.view.edges)
               = OwedOf(m, overview.asked.package, ReadFor(m), situation.view.edges)
      BY <2>2
    <3> QED
      BY <3>2, <3>3
  <2> QED
    BY <2>1, <2>2
<1>3. ~overview'.truncated =>
        VersionsOf(overview'.asked.package, situation'.view.nodes) \subseteq overview'.versions
  BY DEF ReadingInv
<1>4. /\ overview'.asked.limit \in Nat \ {0} /\ overview'.code = 0 /\ overview'.found
      /\ overview'.todo \in Seq(overview'.versions)
  BY DEF ReadingInv
<1> QED
  BY <1>1, <1>2, <1>3, <1>4 DEF ReadingInv

LEMMA PackageListKeeps ==
  ASSUME OverviewInv, UNCHANGED graphVars, NEW l, NEW next, NEW rows, overview.at = l,
         <<l, next>> \in {<<"maintainers", "authorities">>, <<"authorities", "declarations">>},
         overview' = Keep(l, rows, next), rows \in Seq(RoomOf(l, {})), OnceOnly(rows),
         OwedOf(l, overview.asked.package, {}, situation.view.edges) \subseteq Range(rows)
  PROVE  OverviewInv'
<1> DEFINE package == overview.asked.package
           limit == overview.asked.limit
           room == RoomOf(l, {})
           due == OwedOf(l, package, {}, situation.view.edges)
<1>0. l \in {"maintainers", "authorities"} /\ next \in Stages /\ next # "cut" /\ l \in Stages /\ l # "cut"
  BY DEF Stages
<1>2. StoredInv /\ ReadingInv /\ situation' = situation /\ StoredInv' /\ overview.asked \in OverviewRequests
  BY <1>0 DEF OverviewInv, graphVars, Stages, StoredInv
<1>6. limit \in Nat /\ overview.lists[l] = <<>>
  BY <1>0, <1>2 DEF ReadingInv, Unread
<1>7. l \in Lists /\ DOMAIN overview = OverviewFields /\ DOMAIN overview.lists = Lists
  BY <1>0, <1>2 DEF Lists, ReadingInv
<1>8. /\ DOMAIN overview' = OverviewFields /\ DOMAIN overview'.lists = Lists
      /\ overview'.at = next /\ overview'.asked = overview.asked /\ overview'.versions = overview.versions
      /\ overview'.todo = overview.todo /\ overview'.truncated = overview.truncated
      /\ overview'.found = overview.found /\ overview'.code = overview.code
      /\ overview'.lists[l] = overview.lists[l] \o First(rows, limit)
      /\ \A m \in Lists \ {l} : overview'.lists[m] = overview.lists[m]
  BY <1>7, KeepFacts
<1>9. Listed(<<>> \o First(rows, limit), limit, {} \cup room, {} \cup due)
  <2> DEFINE q == <<>>
  <2>1. Listed(q, limit, {}, {}) /\ Range(q) = {}
    BY EmptyIsListed, EmptySequence
  <2> HIDE DEF q, due, limit, room
  <2>2. Range(q) \cap room = {}
    BY <2>1
  <2>4. due \subseteq Range(rows) /\ rows \in Seq(room)
    BY DEF due, room
  <2>3. Listed(q \o First(rows, limit), limit, {} \cup room, {} \cup due)
    BY <1>6, <2>1, <2>2, <2>4, ListGrows
  <2> QED
    BY <2>3 DEF q
<1>10. /\ \A V : RoomOf(l, V) = room
       /\ \A V : OwedOf(l, package, V, situation.view.edges) = due
  BY <1>0 DEF RoomOf, OwedOf
<1>11. Listed(overview'.lists[l], limit, RoomOf(l, ReadFor(l)'),
              OwedOf(l, package, ReadFor(l)', situation.view.edges))
  <2>1. {} \cup room = room /\ {} \cup due = due
    OBVIOUS
  <2> HIDE DEF room, due
  <2> QED
    BY <1>6, <1>8, <1>9, <1>10, <2>1
<1>12. \A m : ReadFor(m)' = ReadFor(m)
  BY <1>0, <1>8 DEF ReadFor, Passed
<1>13. l \notin Unread' /\ Unread' \subseteq Unread /\ Unread \subseteq Unread' \cup {l}
  BY <1>0, <1>8 DEF Unread
<1>14. ReadingInv'
  <2>1. overview'.at = "cut" <=> overview'.todo = <<>>
    BY <1>0, <1>2, <1>8 DEF ReadingInv
  <2>2. overview'.todo \in Seq(overview.versions) /\ OnceOnly(overview'.todo)
    BY <1>2, <1>8 DEF ReadingInv
  <2> QED
    BY <1>2, <1>7, <1>8, <1>11, <1>12, <1>13, <2>1, <2>2, ReadingSteps
<1> QED
  BY <1>0, <1>2, <1>8, <1>14 DEF OverviewInv, Stages

(* A list of one more version.                                             *)
LEMMA OneVersionMore ==
  ASSUME NEW l \in {"declarations", "dependents"}, NEW R, NEW h, h \notin R, NEW package, NEW E,
         NEW q, NEW rows, NEW limit \in Nat,
         Listed(q, limit, RoomOf(l, R), OwedOf(l, package, R, E)),
         rows \in Seq(RoomOf(l, {h})), OnceOnly(rows),
         Len(First(rows, limit)) < limit => OwedOf(l, package, {h}, E) \subseteq Range(rows)
  PROVE  Listed(q \o First(rows, limit), limit, RoomOf(l, R \cup {h}), OwedOf(l, package, R \cup {h}, E))
<1> DEFINE H == {h}
           U == R \cup H
           room == RoomOf(l, R)
           more == RoomOf(l, H)
           due == OwedOf(l, package, R, E)
           new == OwedOf(l, package, H, E)
<1>1. room \cap more = {}
  <2>1. CASE l = "declarations"
    BY <2>1 DEF RoomOf
  <2>2. CASE l = "dependents"
    BY <2>2 DEF RoomOf, Proven
  <2> QED
    BY <2>1, <2>2
<1>2. U = R \cup H /\ l \in {"declarations", "dependents", "incidents"}
  OBVIOUS
<1> HIDE DEF H, U
<1>3. RoomOf(l, U) = room \cup more /\ OwedOf(l, package, U, E) = due \cup new
  <2>1. CASE l = "declarations"
    BY <1>2, <2>1 DEF RoomOf, OwedOf
  <2>2. CASE l = "dependents"
    BY <1>2, <2>2 DEF RoomOf, OwedOf
  <2> QED
    BY <2>1, <2>2
<1>4. /\ Listed(q, limit, room, due) /\ rows \in Seq(more)
      /\ Len(First(rows, limit)) < limit => new \subseteq Range(rows)
  BY DEF H
<1> HIDE DEF room, more, due, new
<1>5. Range(q) \cap more = {}
  <2>1. Range(q) \subseteq room
    BY <1>4, SequenceRange DEF Listed
  <2> QED
    BY <1>1, <2>1
<1>6. Listed(q \o First(rows, limit), limit, room \cup more, due \cup new)
  BY <1>4, <1>5, ListGrows
<1>7. Listed(q \o First(rows, limit), limit, RoomOf(l, U), OwedOf(l, package, U, E))
  BY <1>3, <1>6
<1> QED
  BY <1>7 DEF U, H

LEMMA VersionListKeeps ==
  ASSUME OverviewInv, UNCHANGED graphVars, NEW l, NEW next, NEW rows, overview.at = l,
         <<l, next>> \in {<<"declarations", "dependents">>, <<"dependents", "incidents">>},
         overview' = Keep(l, rows, next), rows \in Seq(RoomOf(l, {Head(overview.todo)})), OnceOnly(rows),
         Len(First(rows, overview.asked.limit)) < overview.asked.limit =>
           OwedOf(l, overview.asked.package, {Head(overview.todo)}, situation.view.edges) \subseteq Range(rows)
  PROVE  OverviewInv'
<1> DEFINE package == overview.asked.package
           limit == overview.asked.limit
           h == Head(overview.todo)
           R == ReadFor(l)
           q == overview.lists[l]
           E == situation.view.edges
<1>0. l \in {"declarations", "dependents"} /\ next \in Stages /\ next # "cut" /\ l \in Stages /\ l # "cut"
  BY DEF Stages
<1>2. StoredInv /\ ReadingInv /\ situation' = situation /\ StoredInv' /\ overview.asked \in OverviewRequests
  BY <1>0 DEF OverviewInv, graphVars, Stages, StoredInv
<1>3. overview.todo # <<>> /\ h \in Range(overview.todo) /\ h \in overview.versions
  <2>1. overview.todo \in Seq(overview.versions) /\ overview.todo # <<>>
    BY <1>0, <1>2 DEF ReadingInv
  <2> QED
    BY <2>1, TailFacts
<1>4. R = overview.versions \ Range(overview.todo)
  BY <1>0 DEF ReadFor, Passed
<1>6. limit \in Nat /\ Listed(q, limit, RoomOf(l, R), OwedOf(l, package, R, E))
  <2>1. l \in Lists \ Unread
    BY <1>0 DEF Lists, Unread
  <2> QED
    BY <1>2, <2>1 DEF ReadingInv
<1>7. l \in Lists /\ DOMAIN overview = OverviewFields /\ DOMAIN overview.lists = Lists
  BY <1>0, <1>2 DEF Lists, ReadingInv
<1>8. /\ DOMAIN overview' = OverviewFields /\ DOMAIN overview'.lists = Lists
      /\ overview'.at = next /\ overview'.asked = overview.asked /\ overview'.versions = overview.versions
      /\ overview'.todo = overview.todo /\ overview'.truncated = overview.truncated
      /\ overview'.found = overview.found /\ overview'.code = overview.code
      /\ overview'.lists[l] = q \o First(rows, limit)
      /\ \A m \in Lists \ {l} : overview'.lists[m] = overview.lists[m]
  BY <1>7, KeepFacts
<1>9. h \notin R
  BY <1>3, <1>4
<1>10. /\ rows \in Seq(RoomOf(l, {h}))
       /\ Len(First(rows, limit)) < limit => OwedOf(l, package, {h}, E) \subseteq Range(rows)
  OBVIOUS
<1>11. ReadFor(l)' = R \cup {h}
  BY <1>0, <1>4, <1>8 DEF ReadFor, Passed
<1>12. Listed(q \o First(rows, limit), limit, RoomOf(l, R \cup {h}), OwedOf(l, package, R \cup {h}, E))
  <2> HIDE DEF R, h, q, limit, package, E
  <2> QED
    BY <1>0, <1>6, <1>9, <1>10, OneVersionMore
<1>13. Listed(overview'.lists[l], limit, RoomOf(l, ReadFor(l)'),
              OwedOf(l, package, ReadFor(l)', situation.view.edges))
  <2> HIDE DEF R, h, q, limit, package
  <2> QED
    BY <1>8, <1>11, <1>12
<1>14. \A m \in Lists \ {l} : ReadFor(m)' = ReadFor(m)
  BY <1>0, <1>8 DEF ReadFor, Passed
<1>15. l \notin Unread' /\ Unread' \subseteq Unread /\ Unread \subseteq Unread' \cup {l}
  BY <1>0, <1>8 DEF Unread
<1>16. ReadingInv'
  <2>1. overview'.at = "cut" <=> overview'.todo = <<>>
    BY <1>0, <1>3, <1>8
  <2>2. overview'.todo \in Seq(overview.versions) /\ OnceOnly(overview'.todo)
    BY <1>2, <1>8 DEF ReadingInv
  <2> HIDE DEF R, h, q
  <2> QED
    BY <1>2, <1>7, <1>8, <1>13, <1>14, <1>15, <2>1, <2>2, ReadingSteps
<1> QED
  BY <1>0, <1>2, <1>8, <1>16 DEF OverviewInv, Stages

LEMMA ReadMaintainersKeeps ==
  ASSUME OverviewInv, ReadMaintainers, UNCHANGED graphVars
  PROVE  OverviewInv'
<1> DEFINE package == overview.asked.package
           found == MaintainersOf(package, StoredEdges("MAINTAINS"))
           rows == InOrder(found)
<1>1. overview.at = "maintainers" /\ overview' = Keep("maintainers", rows, "authorities") /\ StoredInv
  BY DEF ReadMaintainers, OverviewInv
<1>2. OwedOf("maintainers", package, {}, situation.view.edges) \subseteq found
  BY <1>1, ViewIsStored DEF OwedOf, MaintainersOf
<1>3. found \subseteq Nodes
  <2>1. StoredEdges("MAINTAINS") \subseteq Edges
    BY <1>1 DEF StoredEdges, StoredInv
  <2> QED
    BY <2>1, GraphAssumption DEF MaintainersOf
<1> HIDE DEF found
<1>4. rows \in Seq(Nodes) /\ OnceOnly(rows) /\ Range(rows) = found
  <2>1. IsFiniteSet(found) /\ found \subseteq Nat
    BY <1>3, GraphAssumption, SubsetSize
  <2>2. rows \in Seq(found) /\ OnceOnly(rows) /\ Range(rows) = found
    BY <2>1, OrderFacts
  <2> QED
    BY <1>3, <2>2, SequenceRange
<1>5. RoomOf("maintainers", {}) = Nodes
  BY DEF RoomOf
<1> HIDE DEF rows
<1> QED
  BY <1>1, <1>2, <1>4, <1>5, PackageListKeeps

LEMMA ReadAuthoritiesKeeps ==
  ASSUME OverviewInv, ReadAuthorities, UNCHANGED graphVars
  PROVE  OverviewInv'
<1> DEFINE package == overview.asked.package
           found == AuthoritiesOf(package, StoredEdges("MAINTAINS"))
           rows == InOrder(found)
<1>1. overview.at = "authorities" /\ overview' = Keep("authorities", rows, "declarations") /\ StoredInv
  BY DEF ReadAuthorities, OverviewInv
<1>2. OwedOf("authorities", package, {}, situation.view.edges) \subseteq found
  BY <1>1, ViewIsStored DEF OwedOf, AuthoritiesOf, MaintainersOf
<1>3. found \subseteq Edges
  BY <1>1 DEF StoredEdges, StoredInv, AuthoritiesOf
<1> HIDE DEF found
<1>4. rows \in Seq(Edges) /\ OnceOnly(rows) /\ Range(rows) = found
  <2>1. IsFiniteSet(found) /\ found \subseteq Nat
    BY <1>3, GraphAssumption, SubsetSize
  <2>2. rows \in Seq(found) /\ OnceOnly(rows) /\ Range(rows) = found
    BY <2>1, OrderFacts
  <2> QED
    BY <1>3, <2>2, SequenceRange
<1>5. RoomOf("authorities", {}) = Edges
  BY DEF RoomOf
<1> HIDE DEF rows
<1> QED
  BY <1>1, <1>2, <1>4, <1>5, PackageListKeeps

LEMMA ReadDeclarationsKeeps ==
  ASSUME OverviewInv, ReadDeclarations, UNCHANGED graphVars
  PROVE  OverviewInv'
<1> DEFINE h == Head(overview.todo)
           room == RoomOf("declarations", {h})
           found == {e \in StoredEdges("DECLARES_DEPENDENCY") : Source[e] = h}
           rows == InOrder(found)
<1>1. overview.at = "declarations" /\ overview' = Keep("declarations", rows, "dependents") /\ StoredInv
  BY DEF ReadDeclarations, OverviewInv
<1>2. OwedOf("declarations", overview.asked.package, {h}, situation.view.edges) \subseteq found
  BY <1>1, ViewIsStored DEF OwedOf
<1>3. found \subseteq room /\ found \subseteq Edges
  BY <1>1 DEF StoredEdges, StoredInv, RoomOf
<1> HIDE DEF found, room
<1>4. rows \in Seq(room) /\ OnceOnly(rows) /\ Range(rows) = found
  <2>1. IsFiniteSet(found) /\ found \subseteq Nat
    BY <1>3, GraphAssumption, SubsetSize
  <2>2. rows \in Seq(found) /\ OnceOnly(rows) /\ Range(rows) = found
    BY <2>1, OrderFacts
  <2> QED
    BY <1>3, <2>2, SequenceRange
<1> HIDE DEF rows
<1> QED
  BY <1>1, <1>2, <1>4, VersionListKeeps DEF room

LEMMA ReadDependentsKeeps ==
  ASSUME OverviewInv, ReadDependents, UNCHANGED graphVars
  PROVE  OverviewInv'
<1> DEFINE h == Head(overview.todo)
           limit == overview.asked.limit
           room == RoomOf("dependents", {h})
           all == {e \in stored.index : EdgeKind[e] = "DEPENDS_ON" /\ Target[e] = h /\ Source[e] \in stored.nodes}
           kept == FirstOf(all, limit)
           hops == InOrder(kept)
           rows == [i \in DOMAIN hops |-> Dependent(hops[i])]
           new == OwedOf("dependents", overview.asked.package, {h}, situation.view.edges)
<1>1. overview.at = "dependents" /\ StoredInv
  BY DEF ReadDependents, OverviewInv
<1>2. overview' = Keep("dependents", rows, "incidents")
  BY DEF ReadDependents, Dependents, StoredIndex, FirstOf
<1>3. all \subseteq Edges /\ all \subseteq stored.edges /\ limit \in Nat
  <2>1. ReadingInv
    BY <1>1 DEF OverviewInv, Stages
  <2> QED
    BY <1>1, <2>1 DEF StoredInv, ReadingInv
<1>4. \A e \in all : Target[e] = h
  OBVIOUS
<1>5. new \subseteq {Proven(e) : e \in all}
  <2>1. \A e \in situation.view.edges : EdgeKind[e] = "DEPENDS_ON" => e \in stored.index /\ Source[e] \in stored.nodes
    BY <1>1, SituationAssumption DEF StoredInv, Indexed
  <2> QED
    BY <2>1 DEF OwedOf
<1> HIDE DEF all, kept, hops, new, limit, h
<1>6. kept \subseteq all /\ (kept # all => Cardinality(kept) >= limit) /\ IsFiniteSet(kept) /\ kept \subseteq Nat
  <2>1. all \subseteq Nat /\ IsFiniteSet(all)
    BY <1>3, GraphAssumption, SubsetSize
  <2>2. kept \subseteq all /\ (kept # all => Cardinality(kept) >= limit)
    BY <1>3, <2>1, FirstOfFacts DEF kept
  <2> QED
    BY <2>1, <2>2, SubsetSize
<1>7. hops \in Seq(kept) /\ OnceOnly(hops) /\ Range(hops) = kept /\ Len(hops) = Cardinality(kept)
  BY <1>6, OrderFacts DEF hops
<1> DEFINE n == Len(hops)
<1>8. n \in Nat /\ DOMAIN hops = 1..n /\ \A i \in 1..n : hops[i] \in kept
  BY <1>7
<1> HIDE DEF n
<1>9. /\ rows = [i \in 1..n |-> Dependent(hops[i])]
      /\ \A i \in 1..n : Dependent(hops[i]) = Proven(hops[i]) /\ Proven(hops[i]) \in room
  <2>1. \A i \in 1..n : hops[i] \in all
    BY <1>6, <1>8
  <2> QED
    BY <1>3, <1>4, <1>8, <2>1 DEF Dependent, Proven, RoomOf
<1> HIDE DEF rows, room
<1>10. rows \in [1..n -> room] /\ DOMAIN rows = 1..n /\ \A i \in 1..n : rows[i] = Proven(hops[i])
  BY <1>9
<1>11. rows \in Seq(room) /\ Len(rows) = n
  BY <1>8, <1>10
<1>12. OnceOnly(rows)
  BY <1>7, <1>8, <1>10 DEF OnceOnly, Proven
<1>13. ASSUME Len(First(rows, limit)) < limit PROVE new \subseteq Range(rows)
  <2>1. First(rows, limit) = rows
    BY <1>3, <1>11, <1>13, FirstFacts
  <2>2. n < limit
    BY <1>11, <1>13, <2>1
  <2>3. kept = all
    BY <1>3, <1>6, <1>7, <1>8, <2>2 DEF n
  <2>4. \A e \in all : \E i \in 1..n : hops[i] = e
    BY <1>7, <1>8, <2>3 DEF Range
  <2>5. {Proven(e) : e \in all} \subseteq Range(rows)
    BY <1>10, <2>4 DEF Range
  <2> QED
    BY <1>5, <2>5
<1> QED
  BY <1>1, <1>2, <1>11, <1>12, <1>13, VersionListKeeps DEF room, new, limit, h

LEMMA TailOnce ==
  ASSUME NEW S, NEW q \in Seq(S), q # <<>>, OnceOnly(q)
  PROVE  Tail(q) \in Seq(S) /\ OnceOnly(Tail(q)) /\ Head(q) \notin Range(Tail(q)) /\ Head(q) \in S
         /\ Range(q) = {Head(q)} \cup Range(Tail(q))
<1>1. /\ Tail(q) \in Seq(S) /\ Len(q) = Len(Tail(q)) + 1 /\ Len(Tail(q)) \in Nat
      /\ DOMAIN q = 1..Len(q) /\ DOMAIN Tail(q) = 1..Len(Tail(q))
      /\ \A i \in 1..Len(Tail(q)) : Tail(q)[i] = q[i + 1]
      /\ Head(q) = q[1]
  OBVIOUS
<1> DEFINE n == Len(Tail(q))
<1>2. n \in Nat /\ DOMAIN q = 1..(n + 1) /\ DOMAIN Tail(q) = 1..n /\ \A i \in 1..n : Tail(q)[i] = q[i + 1]
  BY <1>1
<1> HIDE DEF n
<1>3. \A i \in 1..n : i + 1 \in 1..(n + 1) /\ 1 \in 1..(n + 1) /\ i + 1 # 1
  BY <1>2
<1>4. OnceOnly(Tail(q))
  <2> SUFFICES ASSUME NEW i \in 1..n, NEW j \in 1..n, Tail(q)[i] = Tail(q)[j] PROVE i = j
    BY <1>2 DEF OnceOnly
  <2>1. i + 1 = j + 1
    BY <1>2, <1>3 DEF OnceOnly
  <2> QED
    BY <1>2, <2>1
<1>5. Head(q) \notin Range(Tail(q))
  <2> SUFFICES ASSUME NEW i \in 1..n, Tail(q)[i] = Head(q) PROVE FALSE
    BY <1>2 DEF Range
  <2>1. i + 1 = 1
    BY <1>1, <1>2, <1>3 DEF OnceOnly
  <2> QED
    BY <1>3, <2>1
<1> QED
  BY <1>1, <1>4, <1>5, TailFacts

(* What is new of a bounded list follows what was there.                   *)
LEMMA MoreIncidents ==
  ASSUME NEW q, NEW found, found \subseteq Nodes, NEW limit \in Nat, NEW due, NEW new, new \subseteq found,
         Listed(q, limit, Nodes, due)
  PROVE  Listed(q \o InOrder(Range(First(InOrder(found), limit)) \ Range(q)), limit, Nodes, due \cup new)
<1> DEFINE all == InOrder(found)
           rows == First(all, limit)
           M == Range(rows) \ Range(q)
           r == InOrder(M)
           s == q \o r
<1>1. IsFiniteSet(found) /\ found \subseteq Nat
  BY GraphAssumption, SubsetSize
<1>2. all \in Seq(found) /\ Range(all) = found /\ OnceOnly(all)
  BY <1>1, OrderFacts
<1> HIDE DEF all
<1>3. /\ rows \in Seq(found) /\ OnceOnly(rows) /\ Len(rows) \in Nat
      /\ Len(rows) < limit => Range(rows) = found
  BY <1>2, FirstFacts
<1> HIDE DEF rows
<1>4. Range(rows) \subseteq found /\ IsFiniteSet(Range(rows)) /\ Cardinality(Range(rows)) = Len(rows)
  BY <1>3, SequenceRange, OnceSize
<1>5. M \subseteq Range(rows) /\ M \cap Range(q) = {} /\ Range(rows) \subseteq Range(q) \cup M
  OBVIOUS
<1> HIDE DEF M
<1>6. M \subseteq Nodes /\ IsFiniteSet(M) /\ M \subseteq Nat
  BY <1>1, <1>4, <1>5, SubsetSize
<1>7. r \in Seq(M) /\ Range(r) = M /\ OnceOnly(r)
  BY <1>6, OrderFacts
<1> HIDE DEF r
<1>8. q \in Seq(Nodes) /\ OnceOnly(q) /\ (Len(q) < limit => due \subseteq Range(q))
  BY DEF Listed
<1>9. r \in Seq(Nodes)
  BY <1>6, <1>7, SequenceRange
<1>10. /\ s \in Seq(Nodes) /\ Len(s) = Len(q) + Len(r) /\ Range(s) = Range(q) \cup M /\ OnceOnly(s)
       /\ Len(q) \in Nat /\ Len(r) \in Nat
  <2>1. Range(q) \cap Range(r) = {}
    BY <1>5, <1>7
  <2> QED
    BY <1>7, <1>8, <1>9, <2>1, JoinFacts
<1> HIDE DEF s
<1>11. IsFiniteSet(Range(s)) /\ Cardinality(Range(s)) = Len(s)
  BY <1>10, OnceSize
<1>12. Cardinality(Range(rows)) <= Cardinality(Range(s))
  <2>1. Range(rows) \subseteq Range(s)
    BY <1>5, <1>10
  <2> QED
    BY <1>11, <2>1, SubsetSize
<1>13. ASSUME Len(s) < limit PROVE due \cup new \subseteq Range(s)
  <2> DEFINE a == Len(q)
             b == Len(r)
             c == Len(rows)
             d == Len(s)
  <2>1. a \in Nat /\ b \in Nat /\ c \in Nat /\ d = a + b /\ c <= d /\ d < limit
    BY <1>3, <1>4, <1>10, <1>11, <1>12, <1>13
  <2> HIDE DEF a, b, c, d
  <2>2. a < limit /\ c < limit
    BY <2>1
  <2>3. due \subseteq Range(q) /\ Range(rows) = found
    BY <1>3, <1>8, <2>2 DEF a, c
  <2> QED
    BY <1>5, <1>10, <2>3
<1> QED
  BY <1>10, <1>13 DEF Listed, s, r, M, rows, all

LEMMA ReadIncidentsKeeps ==
  ASSUME OverviewInv, ReadIncidents, UNCHANGED graphVars
  PROVE  OverviewInv'
<1> DEFINE l == "incidents"
           package == overview.asked.package
           limit == overview.asked.limit
           todo == overview.todo
           h == Head(todo)
           q == overview.lists[l]
           found == {Source[e] : e \in {d \in StoredEdges("AFFECTS") : Target[d] = h}}
           more == InOrder(Range(First(InOrder(found), limit)) \ Range(q))
           next == IF Tail(todo) = <<>> THEN "cut" ELSE "declarations"
           E == situation.view.edges
           R == overview.versions \ Range(todo)
<1>1. /\ overview.at = "incidents"
      /\ overview' = [overview EXCEPT !.at = next, !.todo = Tail(todo), !.lists["incidents"] = q \o more]
  BY DEF ReadIncidents, Bounded, First
<1>2. StoredInv /\ ReadingInv /\ situation' = situation /\ StoredInv' /\ overview.asked \in OverviewRequests
  BY <1>1 DEF OverviewInv, graphVars, Stages, StoredInv
<1>3. /\ todo \in Seq(overview.versions) /\ OnceOnly(todo) /\ todo # <<>>
      /\ DOMAIN overview = OverviewFields /\ DOMAIN overview.lists = Lists /\ limit \in Nat /\ l \in Lists
  BY <1>1, <1>2 DEF ReadingInv, Lists
<1>4. /\ Tail(todo) \in Seq(overview.versions) /\ OnceOnly(Tail(todo)) /\ h \notin Range(Tail(todo))
      /\ h \in overview.versions /\ Range(todo) = {h} \cup Range(Tail(todo))
  BY <1>3, TailOnce
<1>5. Listed(q, limit, Nodes, OwedOf(l, package, R, E))
  <2>1. l \in Lists \ Unread /\ ReadFor(l) = R
    BY <1>1 DEF Lists, Unread, ReadFor, Passed
  <2>2. RoomOf(l, R) = Nodes
    BY DEF RoomOf
  <2>3. Listed(q, limit, RoomOf(l, ReadFor(l)), OwedOf(l, package, ReadFor(l), E))
    BY <1>2, <2>1 DEF ReadingInv
  <2> QED
    BY <2>1, <2>2, <2>3
<1>6. found \subseteq Nodes /\ OwedOf(l, package, {h}, E) \subseteq found
  <2>1. StoredEdges("AFFECTS") \subseteq Edges
    BY <1>2 DEF StoredEdges, StoredInv
  <2>2. {e \in E : EdgeKind[e] = "AFFECTS"} \subseteq StoredEdges("AFFECTS")
    BY <1>2, ViewIsStored
  <2> QED
    BY <2>1, <2>2, GraphAssumption DEF OwedOf
<1>7. OwedOf(l, package, R \cup {h}, E) = OwedOf(l, package, R, E) \cup OwedOf(l, package, {h}, E)
  BY DEF OwedOf
<1>8. Listed(q \o more, limit, Nodes, OwedOf(l, package, R, E) \cup OwedOf(l, package, {h}, E))
  <2> DEFINE due == OwedOf(l, package, R, E)
             new == OwedOf(l, package, {h}, E)
  <2>1. Listed(q, limit, Nodes, due) /\ new \subseteq found /\ found \subseteq Nodes /\ limit \in Nat
    BY <1>3, <1>5, <1>6
  <2> HIDE DEF due, new, q, found, limit
  <2>2. Listed(q \o more, limit, Nodes, due \cup new)
    BY <2>1, MoreIncidents
  <2> QED
    BY <2>2 DEF due, new
<1> DEFINE joined == q \o more
<1>9. Listed(joined, limit, Nodes, OwedOf(l, package, R \cup {h}, E))
  <2> HIDE DEF q, more, R, h, E, limit, package
  <2> QED
    BY <1>7, <1>8
<1>10. /\ overview' = [overview EXCEPT !.at = next, !.todo = Tail(todo), !.lists["incidents"] = joined]
       /\ next \in Stages /\ next \in {"cut", "declarations"} /\ (next = "cut" <=> Tail(todo) = <<>>)
  BY <1>1 DEF Stages
<1> HIDE DEF joined, next
<1>11. /\ DOMAIN overview' = OverviewFields
       /\ overview'.at = next /\ overview'.asked = overview.asked /\ overview'.versions = overview.versions
       /\ overview'.todo = Tail(todo) /\ overview'.truncated = overview.truncated
       /\ overview'.found = overview.found /\ overview'.code = overview.code
       /\ overview'.lists = [overview.lists EXCEPT !["incidents"] = joined]
  BY <1>3, <1>10 DEF OverviewFields
<1>12. /\ overview'.lists[l] = joined /\ DOMAIN overview'.lists = Lists
       /\ \A m \in Lists \ {l} : overview'.lists[m] = overview.lists[m]
  BY <1>3, <1>11
<1>13. ReadFor(l)' = R \cup {h}
  <2>1. ReadFor(l)' = overview'.versions \ Range(overview'.todo)
    BY <1>10, <1>11 DEF ReadFor, Passed
  <2> QED
    BY <1>4, <1>11, <2>1
<1>14. \A m \in {"declarations", "dependents"} : ReadFor(m)' = ReadFor(m)
  <2> TAKE m \in {"declarations", "dependents"}
  <2>1. ReadFor(m)' = overview'.versions \ Range(overview'.todo)
    BY <1>10, <1>11 DEF ReadFor, Passed
  <2>2. ReadFor(m) = (overview.versions \ Range(todo)) \cup {h}
    BY <1>1 DEF ReadFor, Passed
  <2> QED
    BY <1>4, <1>11, <2>1, <2>2
<1>15. ASSUME NEW m \in Lists \ {l}
       PROVE  /\ RoomOf(m, ReadFor(m)') = RoomOf(m, ReadFor(m))
              /\ OwedOf(m, package, ReadFor(m)', E) = OwedOf(m, package, ReadFor(m), E)
  <2>1. CASE m \in {"declarations", "dependents"}
    BY <1>14, <2>1
  <2>2. CASE m \in {"maintainers", "authorities"}
    BY <2>2 DEF RoomOf, OwedOf
  <2> QED
    BY <2>1, <2>2 DEF Lists
<1>16. Unread' = {} /\ Unread = {}
  BY <1>1, <1>10, <1>11 DEF Unread
<1>17. Listed(overview'.lists[l], limit, RoomOf(l, ReadFor(l)'), OwedOf(l, package, ReadFor(l)', E))
  <2>1. \A V : RoomOf(l, V) = Nodes
    BY DEF RoomOf
  <2> HIDE DEF R, h, limit, package, E, l
  <2> QED
    BY <1>9, <1>12, <1>13, <2>1
<1>18. ReadingInv'
  <2>1. /\ overview'.at = "cut" <=> overview'.todo = <<>>
        /\ overview'.todo \in Seq(overview.versions) /\ OnceOnly(overview'.todo)
    BY <1>4, <1>10, <1>11
  <2> HIDE DEF todo, h, R, q, found, more
  <2> QED
    BY <1>2, <1>3, <1>11, <1>12, <1>15, <1>16, <1>17, <2>1, ReadingSteps
<1> QED
  BY <1>2, <1>10, <1>11, <1>18 DEF OverviewInv, Stages

LEMMA ReadPackageVersionsKeeps ==
  ASSUME OverviewInv, ReadPackageVersions, UNCHANGED graphVars
  PROVE  OverviewInv'
<1> DEFINE package == overview.asked.package
           limit == overview.asked.limit
           S == VersionsOf(package, stored.nodes)
           all == LastObserved(S)
           todo == First(all, limit)
<1>1. /\ overview.at = "versions" /\ overview.asked.valid
      /\ overview' = IF all = <<>> THEN Overviewed(200)
                     ELSE [overview EXCEPT !.at = "maintainers", !.found = TRUE, !.todo = todo,
                                           !.versions = Range(todo), !.truncated = todo # all]
  BY DEF ReadPackageVersions, Bounded, First
<1>2. /\ StoredInv /\ situation' = situation /\ stored' = stored /\ StoredInv'
      /\ overview.asked \in OverviewRequests /\ overview = NewOverview(overview.asked)
  BY <1>1 DEF OverviewInv, graphVars, StoredInv
<1>3. limit \in Nat \ {0}
  BY <1>1, <1>2, OverviewAssumption
<1>4. S \subseteq Nodes /\ VersionsOf(package, situation.view.nodes) \subseteq S
  BY <1>2 DEF VersionsOf, StoredInv
<1> HIDE DEF S
<1>5. all \in Seq(S) /\ Range(all) = S /\ OnceOnly(all)
  BY <1>4, LastObservedFacts
<1>6. /\ DOMAIN overview = OverviewFields /\ overview.lists = [m \in Lists |-> <<>>] /\ overview.code = 0
      /\ ~overview.found
  BY <1>2 DEF NewOverview, OverviewFields
<1> HIDE DEF all
<1>7. CASE all = <<>>
  <2>1. overview' = [overview EXCEPT !.at = "answered", !.code = 200]
    BY <1>1, <1>7 DEF Overviewed
  <2>2. /\ overview'.at = "answered" /\ overview'.asked = overview.asked /\ ~overview'.found
        /\ overview'.lists = overview.lists
    BY <1>6, <2>1 DEF OverviewFields
  <2>3. VersionsOf(overview'.asked.package, situation'.view.nodes) = {}
    BY <1>2, <1>4, <1>5, <1>7, <2>2, EmptySequence
  <2>4. DOMAIN overview'.lists["dependents"] = {}
    BY <1>6, <2>2, EmptySequence DEF Lists
  <2>5. OverviewIsBounded'
    BY <2>2, <2>3, <2>4 DEF OverviewIsBounded
  <2> QED
    BY <1>2, <2>2, <2>5 DEF OverviewInv, Stages
<1>8. CASE all # <<>>
  <2> DEFINE V == Range(todo)
  <2>0. limit \in Nat
    BY <1>3
  <2>1. /\ todo \in Seq(Range(all)) /\ todo \in Seq(S) /\ OnceOnly(todo) /\ Len(todo) \in Nat
        /\ Len(todo) < limit => todo = all
    <3> HIDE DEF limit
    <3> QED
      BY <1>5, <2>0, FirstFacts
  <2>2. todo \in Seq(V)
    BY <2>1, SequenceRange
  <2>3. todo # <<>>
    <3> SUFFICES ASSUME todo = <<>> PROVE FALSE
      OBVIOUS
    <3>1. Len(todo) = 0
      BY EmptySequence
    <3>2. Len(todo) < limit
      BY <1>3, <3>1
    <3> QED
      BY <1>8, <2>1, <3>2
  <2>4. overview' = [overview EXCEPT !.at = "maintainers", !.found = TRUE, !.todo = todo,
                                     !.versions = V, !.truncated = todo # all]
    BY <1>1, <1>8
  <2> HIDE DEF todo, V
  <2>5. /\ DOMAIN overview' = OverviewFields /\ overview'.at = "maintainers" /\ overview'.found = TRUE
        /\ overview'.todo = todo /\ overview'.versions = V /\ overview'.truncated = (todo # all)
        /\ overview'.asked = overview.asked /\ overview'.lists = overview.lists /\ overview'.code = overview.code
    BY <1>6, <2>4 DEF OverviewFields
  <2>6. ~overview'.truncated =>
          VersionsOf(overview'.asked.package, situation'.view.nodes) \subseteq overview'.versions
    BY <1>2, <1>4, <1>5, <2>5 DEF V
  <2>7. Unread' = {"maintainers", "authorities"}
    BY <2>5 DEF Unread
  <2>8. ASSUME NEW m \in Lists \ Unread'
        PROVE  Listed(overview'.lists[m], overview'.asked.limit, RoomOf(m, ReadFor(m)'),
                      OwedOf(m, overview'.asked.package, ReadFor(m)', situation'.view.edges))
    <3>1. m \in {"declarations", "dependents", "incidents"} /\ m \in Lists
      BY <2>7, <2>8 DEF Lists
    <3>2. ReadFor(m)' = {}
      BY <2>5 DEF ReadFor, Passed, V
    <3>3. OwedOf(m, package, {}, situation.view.edges) = {}
      BY <3>1 DEF OwedOf
    <3>4. overview'.lists[m] = <<>>
      BY <1>6, <2>5, <3>1
    <3> HIDE DEF limit
    <3>5. Listed(<<>>, limit, RoomOf(m, {}), {})
      BY EmptyIsListed
    <3> QED
      BY <1>2, <2>5, <3>2, <3>3, <3>4, <3>5 DEF limit
  <2>9. \A m \in Unread' : overview'.lists[m] = <<>>
    BY <1>6, <2>5, <2>7 DEF Lists
  <2>10. DOMAIN overview'.lists = Lists
    BY <1>6, <2>5
  <2>11. ReadingInv'
    BY <1>3, <1>6, <2>1, <2>2, <2>3, <2>5, <2>6, <2>8, <2>9, <2>10 DEF ReadingInv
  <2> QED
    BY <1>2, <2>5, <2>11 DEF OverviewInv, Stages
<1> QED
  BY <1>7, <1>8

(* What was there at first belongs in the lists.                           *)
OwedIsDue ==
  \A l \in Lists : Due[l] = OwedOf(l, overview.asked.package, overview.versions, situation.view.edges)

LEMMA DueIsOwed == StoredInv => OwedIsDue
<1> SUFFICES ASSUME StoredInv, NEW l \in Lists
             PROVE  Due[l] = OwedOf(l, overview.asked.package, overview.versions, situation.view.edges)
  BY DEF OwedIsDue
<1>1. \A e \in situation.view.edges : Dependent(e) = Proven(e)
  BY DEF StoredInv, Dependent, Proven
<1>2. CASE l = "maintainers"
  BY <1>2 DEF Due, OwedOf
<1>3. CASE l = "authorities"
  BY <1>3 DEF Due, OwedOf
<1>4. CASE l = "declarations"
  BY <1>4 DEF Due, OwedOf
<1>5. CASE l = "dependents"
  <2>1. Due["dependents"] =
          {Dependent(e) : e \in {d \in situation.view.edges : EdgeKind[d] = "DEPENDS_ON" /\ Target[d] \in overview.versions}}
    BY DEF Due
  <2>2. OwedOf("dependents", overview.asked.package, overview.versions, situation.view.edges) =
          {Proven(e) : e \in {d \in situation.view.edges : EdgeKind[d] = "DEPENDS_ON" /\ Target[d] \in overview.versions}}
    BY DEF OwedOf
  <2> QED
    BY <1>1, <1>5, <2>1, <2>2
<1>6. CASE l = "incidents"
  BY <1>6 DEF Due, OwedOf
<1> QED
  BY <1>2, <1>3, <1>4, <1>5, <1>6 DEF Lists

LEMMA ComposeKeeps ==
  ASSUME OverviewInv, Compose, UNCHANGED graphVars
  PROVE  OverviewInv'
<1> DEFINE limit == overview.asked.limit
           lists == [m \in Lists |-> First(overview.lists[m], limit)]
<1>1. /\ overview.at = "cut"
      /\ overview' = [overview EXCEPT !.at = "answered", !.code = 200, !.lists = lists]
  BY DEF Compose, Overviewed, Bounded, First
<1>2. ReadingInv /\ situation' = situation /\ StoredInv' /\ overview.asked \in OverviewRequests
  BY <1>1 DEF OverviewInv, graphVars, Stages, StoredInv
<1> HIDE DEF lists
<1>3. /\ overview'.at = "answered" /\ overview'.asked = overview.asked /\ overview'.versions = overview.versions
      /\ overview'.truncated = overview.truncated /\ overview'.found = overview.found /\ overview'.lists = lists
  BY <1>1, <1>2 DEF ReadingInv, OverviewFields
<1>4. overview.todo = <<>> /\ limit \in Nat /\ overview.found
  BY <1>1, <1>2 DEF ReadingInv
<1>5. \A m \in Lists : ReadFor(m) = overview.versions /\ m \notin Unread
  BY <1>1, <1>4, EmptySequence DEF ReadFor, Passed, Unread
<1>6. ASSUME NEW m \in Lists
      PROVE  /\ lists[m] \in Seq(RoomOf(m, overview.versions))
             /\ Len(lists[m]) <= limit /\ Cardinality(Range(lists[m])) = Len(lists[m])
             /\ Len(lists[m]) < limit =>
                  OwedOf(m, overview.asked.package, overview.versions, situation.view.edges) \subseteq Range(lists[m])
  <2> DEFINE q == overview.lists[m]
             room == RoomOf(m, overview.versions)
             due == OwedOf(m, overview.asked.package, overview.versions, situation.view.edges)
             r == First(q, limit)
  <2>1. lists[m] = r
    BY DEF lists
  <2>2. Listed(q, limit, room, due)
    <3>1. Listed(q, limit, RoomOf(m, ReadFor(m)), OwedOf(m, overview.asked.package, ReadFor(m), situation.view.edges))
      BY <1>2, <1>5 DEF ReadingInv
    <3> QED
      BY <1>5, <3>1
  <2> HIDE DEF q, room, due, limit
  <2>3. q \in Seq(room) /\ OnceOnly(q) /\ (Len(q) < limit => due \subseteq Range(q))
    BY <2>2 DEF Listed
  <2>4. /\ r \in Seq(room) /\ Len(r) <= limit /\ OnceOnly(r)
        /\ Len(r) < limit => r = q
    BY <1>4, <2>3, FirstFacts
  <2> HIDE DEF r
  <2>5. Cardinality(Range(r)) = Len(r)
    BY <2>4, OnceSize
  <2>6. Len(r) < limit => due \subseteq Range(r)
    BY <2>3, <2>4
  <2> QED
    BY <2>1, <2>4, <2>5, <2>6 DEF room, due
<1>7. \A i \in DOMAIN lists["dependents"] : lists["dependents"][i].resolved
  <2> DEFINE q == lists["dependents"]
  <2>1. q \in Seq(RoomOf("dependents", overview.versions))
    BY <1>6 DEF Lists
  <2>2. \A x \in RoomOf("dependents", overview.versions) : x.resolved
    BY DEF RoomOf, Proven
  <2> HIDE DEF q
  <2>3. \A i \in DOMAIN q : q[i] \in RoomOf("dependents", overview.versions)
    BY <2>1
  <2>4. \A i \in DOMAIN q : q[i].resolved
    BY <2>2, <2>3
  <2> QED
    BY <2>4 DEF q
<1>8. \A m \in Lists : Due[m]' = OwedOf(m, overview.asked.package, overview.versions, situation.view.edges)
  <2>1. StoredInv' => OwedIsDue'
    BY DueIsOwed, PTL
  <2> QED
    BY <1>2, <1>3, <2>1 DEF OwedIsDue
<1>9. ~overview.truncated =>
        VersionsOf(overview.asked.package, situation.view.nodes) \subseteq overview.versions
  BY <1>2 DEF ReadingInv
<1>10. OverviewIsBounded'
  BY <1>2, <1>3, <1>4, <1>6, <1>7, <1>8, <1>9 DEF OverviewIsBounded
<1> QED
  BY <1>2, <1>3, <1>10 DEF OverviewInv, Stages

LEMMA OverviewFailsKeeps ==
  ASSUME OverviewInv, Refuse \/ OverviewFails, UNCHANGED graphVars
  PROVE  OverviewInv'
<1>1. overview.at # "answered" /\ (overview' = Overviewed(400) \/ overview' = Overviewed(503))
  BY DEF Refuse, OverviewFails
<1>2. DOMAIN overview = OverviewFields /\ StoredInv'
  <2>1. CASE overview.at = "versions"
    BY <2>1 DEF OverviewInv, NewOverview, OverviewFields, graphVars, StoredInv
  <2>2. CASE overview.at # "versions"
    BY <1>1, <2>2 DEF OverviewInv, ReadingInv, graphVars, StoredInv
  <2> QED
    BY <2>1, <2>2
<1>3. PICK code \in {400, 503} : overview' = [overview EXCEPT !.at = "answered", !.code = code]
  BY <1>1 DEF Overviewed
<1>4. overview'.at = "answered" /\ overview'.code = code /\ overview'.asked = overview.asked
  BY <1>2, <1>3 DEF OverviewFields
<1>5. code # 200
  OBVIOUS
<1> QED
  BY <1>2, <1>4, <1>5 DEF OverviewInv, OverviewIsBounded, Stages

LEMMA OverviewStays ==
  ASSUME OverviewInv, situation' = situation, StoredInv', UNCHANGED overview, overview.at # "answered"
  PROVE  OverviewInv'
<1>1. ReadingInv => ReadingInv'
  BY DEF ReadingInv, Unread, ReadFor, Passed
<1> QED
  BY <1>1 DEF OverviewInv, Stages

LEMMA OverviewKeeps == OverviewInv /\ [OverviewNext]_overviewVars => OverviewInv'
<1> SUFFICES ASSUME OverviewInv, [OverviewNext]_overviewVars PROVE OverviewInv'
  OBVIOUS
<1>1. CASE OverviewRead
  BY <1>1, ReadPackageVersionsKeeps, ReadMaintainersKeeps, ReadAuthoritiesKeeps, ReadDeclarationsKeeps,
     ReadDependentsKeeps, ReadIncidentsKeeps, ComposeKeeps, OverviewFailsKeeps DEF OverviewRead
<1>2. CASE OverviewFails /\ UNCHANGED graphVars
  BY <1>2, OverviewFailsKeeps
<1>3. CASE overview.at # "answered" /\ WriteRow /\ UNCHANGED overview
  <2>1. StoredInv' /\ situation' = situation
    BY <1>3, WriteRowFacts DEF OverviewInv, RowsStay
  <2> QED
    BY <1>3, <2>1, OverviewStays
<1>4. CASE UNCHANGED overviewVars
  <2>1. /\ situation' = situation /\ stored' = stored /\ pending' = pending /\ rewritten' = rewritten
        /\ overview' = overview
    BY <1>4 DEF overviewVars, graphVars
  <2>2. StoredInv'
    BY <2>1 DEF OverviewInv, StoredInv
  <2>3. CASE overview.at # "answered"
    BY <2>1, <2>2, <2>3, OverviewStays
  <2>4. CASE overview.at = "answered"
    <3>1. OverviewIsBounded' <=> OverviewIsBounded
      BY <2>1 DEF OverviewIsBounded, Due, Dependent
    <3> QED
      BY <2>1, <2>2, <2>4, <3>1 DEF OverviewInv, Stages
  <2> QED
    BY <2>3, <2>4
<1> QED
  BY <1>1, <1>2, <1>3, <1>4 DEF OverviewNext

LEMMA OverviewBegins == OverviewInit => OverviewInv
<1> SUFFICES ASSUME OverviewInit PROVE OverviewInv
  OBVIOUS
<1>1. PICK asking \in OverviewRequests : overview = NewOverview(asking)
  BY DEF OverviewInit
<1>2. StoredInv
  BY HoldingFacts DEF OverviewInit
<1>3. overview.asked = asking /\ overview.at = "versions"
  BY <1>1 DEF NewOverview
<1> QED
  BY <1>1, <1>2, <1>3 DEF OverviewInv, Stages

LEMMA OverviewFollows == OverviewInv => OverviewIsBounded
<1> SUFFICES ASSUME OverviewInv, overview.code = 200, overview.at # "answered" PROVE FALSE
  BY DEF OverviewInv, OverviewIsBounded
<1>1. overview.at = "versions" => overview.code = 0
  BY DEF OverviewInv, NewOverview
<1> QED
  BY <1>1 DEF OverviewInv, ReadingInv

-----------------------------------------------------------------------------
(* The detail of a finding.  What may be followed grows with what is       *)
(* written, what must have been followed does not.                         *)
PossibleGraph ==
  [nodes |-> stored.nodes, edges |-> {e \in stored.index : EverEdgeNames(e) \cap LockfileEvidence # {}}]
PossibleRoots ==
  {v \in CandidateVersions(stored.nodes, stored.edges) : EverNodeNames(v) \cap LockfileEvidence # {}}
CertainGraph ==
  [nodes |-> situation.view.nodes,
   edges |-> {e \in Indexed(Untouched.edges) : EdgeEvidence[e] \cap LockfileEvidence # {}}]
CertainRoots ==
  {v \in CandidateVersions(Untouched.nodes, situation.view.edges) : NodeEvidence[v] \cap LockfileEvidence # {}}
EverNames == [e \in Edges |-> EverEdgeNames(e)]

(* A way with its evidence.                                                *)
GoodWays(view, roots, proof, names) ==
  {w \in [item : DependencyWays(view, roots), evidence : SUBSET proof] :
     w.evidence # {} /\ \A i \in DOMAIN w.item.path : names[w.item.path[i]] \cap w.evidence # {}}
GoodFound == GoodWays(PossibleGraph, PossibleRoots, LockfileEvidence, EverNames)
Onward(G) == {w \in G : NodeKind[w.item.node] = "PackageVersion"}

WaysSound(d, G) ==
  /\ d.queue \in Seq(Onward(G))
  /\ \A s \in DOMAIN d.services : /\ d.services[s] \in G /\ d.services[s].item.node = s
                                  /\ NodeKind[s] = "Service"

(* With D looked at, nothing is forgotten.                                 *)
Queued(d) == {w.item : w \in Range(d.queue)}
Handled(d, D, p, e) ==
  Next1(p, e) \in D \cup Queued(d) \/ (NodeKind[Source[e]] = "Service" /\ Source[e] \in DOMAIN d.services)
WaysDone(d, D, then, roots) ==
  /\ Begun(then, roots) \subseteq D \cup Queued(d)
  /\ \A p \in D : NodeKind[p.node] # "Service" /\ \A e \in Hops(then, p) : Handled(d, D, p, e)

DetailFields == {"at", "limits", "asked", "candidate", "evidence", "exact", "cut", "queue", "services",
                 "states", "truncated", "code"}

NotYet == detail.queue = <<>> /\ detail.services = <<>> /\ ~detail.truncated
VersionInv ==
  /\ NotYet /\ detail.asked \subseteq CandidateVersions(stored.nodes, stored.edges)
  /\ \A n \in DOMAIN detail.exact : /\ n \in PossibleRoots /\ NodeKind[n] = "PackageVersion"
                                    /\ detail.exact[n] # {} /\ detail.exact[n] \subseteq LockfileEvidence
  /\ ~detail.cut => CertainRoots \subseteq detail.asked \cup DOMAIN detail.exact
TraceInv ==
  /\ WaysSound(detail, GoodFound)
  /\ ~detail.cut /\ ~detail.truncated => \E D : WaysDone(detail, D, CertainGraph, CertainRoots)

DetailInv ==
  /\ StoredInv /\ DOMAIN detail = DetailFields
  /\ detail.at # "answered" => detail.code = 0
  /\ detail.at \notin {"version", "trace", "answered"} => NotYet /\ detail.exact = <<>>
  /\ detail.at = "version" => VersionInv
  /\ detail.at = "trace" => TraceInv
  /\ detail.at = "answered" => ExposureIsReal

-----------------------------------------------------------------------------
LEMMA DetailViews ==
  ASSUME StoredInv
  PROVE  /\ PossibleGraph \in Views /\ CertainGraph \in Views /\ PossibleRoots \subseteq stored.nodes
         /\ StoredIndex \in Views /\ Larger(CertainGraph, StoredIndex)
<1>1. stored.index \subseteq Edges /\ situation.view.nodes \subseteq Nodes /\ situation.view.edges \subseteq Edges
  BY SituationAssumption DEF StoredInv, Views
<1>2. \A E : Indexed(E) \subseteq E
  BY DEF Indexed
<1>3. PossibleGraph \in Views
  BY <1>1 DEF StoredInv, PossibleGraph, Views
<1>4. CertainGraph.edges \subseteq Indexed(situation.view.edges) /\ CertainGraph.nodes = situation.view.nodes
  BY DEF CertainGraph, Untouched, Indexed
<1>5. CertainGraph \in Views
  BY <1>1, <1>2 DEF CertainGraph, Untouched, Views
<1>6. StoredIndex \in Views
  BY <1>1 DEF StoredInv, StoredIndex, Views
<1>7. Larger(CertainGraph, StoredIndex)
  <2>1. StoredIndex.nodes = stored.nodes /\ StoredIndex.edges = stored.index
    BY DEF StoredIndex
  <2> QED
    BY <1>4, <1>5, <1>6, <2>1 DEF Larger, StoredInv
<1>8. PossibleRoots \subseteq stored.nodes
  BY DEF PossibleRoots, CandidateVersions
<1> QED
  BY <1>3, <1>5, <1>6, <1>7, <1>8

LEMMA GoodWaysGrow ==
  ASSUME NEW v \in Views, NEW w \in Views, NEW R, NEW S, NEW proof, NEW old, NEW names,
         v.nodes \subseteq w.nodes, v.edges \subseteq w.edges, R \subseteq S,
         \A e \in Edges : old[e] \subseteq names[e]
  PROVE  GoodWays(v, R, proof, old) \subseteq GoodWays(w, S, proof, names)
<1> SUFFICES ASSUME NEW x \in GoodWays(v, R, proof, old) PROVE x \in GoodWays(w, S, proof, names)
  OBVIOUS
<1>1. /\ x \in [item : DependencyWays(v, R), evidence : SUBSET proof] /\ x.evidence # {}
      /\ \A i \in DOMAIN x.item.path : old[x.item.path[i]] \cap x.evidence # {}
  BY DEF GoodWays
<1>2. x.item \in DependencyWays(v, R)
  BY <1>1
<1>3. DependencyWays(v, R) \subseteq DependencyWays(w, S)
  BY WaysGrow
<1>4. \A i \in DOMAIN x.item.path : x.item.path[i] \in Edges
  <2>1. SoundWay(v, R, x.item)
    BY <1>2, WaysFacts
  <2>2. x.item.path \in Seq(Hoppable(v))
    BY <2>1 DEF SoundWay
  <2>3. Hoppable(v) \subseteq Edges
    BY DEF Hoppable, Views
  <2> DEFINE q == x.item.path
  <2> HIDE DEF q
  <2>4. \A i \in DOMAIN q : q[i] \in Hoppable(v)
    BY <2>2 DEF q
  <2> QED
    BY <2>3, <2>4 DEF q
<1>5. x \in [item : DependencyWays(w, S), evidence : SUBSET proof]
  BY <1>1, <1>3
<1>6. \A i \in DOMAIN x.item.path : names[x.item.path[i]] \cap x.evidence # {}
  BY <1>1, <1>4
<1> QED
  BY <1>1, <1>5, <1>6 DEF GoodWays

LEMMA DetailGrows ==
  ASSUME StoredInv, StoredInv', RowsStay, detail'.evidence = detail.evidence, detail'.candidate = detail.candidate
  PROVE  /\ GoodFound \subseteq GoodFound' /\ PossibleRoots \subseteq PossibleRoots'
         /\ CertainGraph'.nodes = CertainGraph.nodes /\ CertainGraph'.edges \subseteq CertainGraph.edges
         /\ CertainRoots' \subseteq CertainRoots /\ LockfileEvidence' = LockfileEvidence
         /\ CandidateVersions(stored.nodes, stored.edges) \subseteq CandidateVersions(stored.nodes, stored.edges)'
<1>1. LockfileEvidence' = LockfileEvidence
  BY DEF LockfileEvidence
<1>2. /\ \A e : EverEdgeNames(e) \subseteq EverEdgeNames(e)'
      /\ \A n : EverNodeNames(n) \subseteq EverNodeNames(n)'
  BY DEF RowsStay, EverEdgeNames, EverNodeNames, EdgeNames, NodeNames, ByBatch
<1>3. \A N, M, E, F : N \subseteq M /\ E \subseteq F =>
        CandidateVersions(N, E) \subseteq CandidateVersions(M, F)'
  BY DEF CandidateVersions
<1>4. PossibleRoots \subseteq PossibleRoots'
  BY <1>1, <1>2, <1>3 DEF PossibleRoots, RowsStay
<1>5. PossibleGraph.nodes \subseteq PossibleGraph'.nodes /\ PossibleGraph.edges \subseteq PossibleGraph'.edges
  BY <1>1, <1>2 DEF PossibleGraph, RowsStay
<1>6. \A e \in Edges : EverNames[e] \subseteq EverNames'[e]
  BY <1>2 DEF EverNames
<1>7. PossibleGraph \in Views /\ PossibleGraph' \in Views
  BY DEF PossibleGraph, StoredInv, Views
<1>8. GoodFound \subseteq GoodFound'
  BY <1>1, <1>4, <1>5, <1>6, <1>7, GoodWaysGrow DEF GoodFound
<1>9. CertainGraph'.nodes = CertainGraph.nodes /\ CertainGraph'.edges \subseteq CertainGraph.edges
  BY <1>1 DEF CertainGraph, Untouched, RowsStay, Indexed
<1>10. CertainRoots' \subseteq CertainRoots
  BY <1>1 DEF CertainRoots, Untouched, RowsStay, CandidateVersions
<1> QED
  BY <1>1, <1>3, <1>4, <1>8, <1>9, <1>10 DEF RowsStay

(* What following hops does not lose.                                      *)
Adds(d, s) ==
  /\ DOMAIN s = DetailFields
  /\ s.at = d.at /\ s.evidence = d.evidence /\ s.candidate = d.candidate /\ s.cut = d.cut /\ s.code = d.code
  /\ d.truncated => s.truncated
  /\ Range(d.queue) \subseteq Range(s.queue) /\ DOMAIN d.services \subseteq DOMAIN s.services

LEMMA AddsFacts ==
  /\ \A d : DOMAIN d = DetailFields => Adds(d, d)
  /\ \A d, s, t : Adds(d, s) /\ Adds(s, t) => Adds(d, t)
BY DEF Adds

LEMMA HandledStays ==
  ASSUME NEW d, NEW s, NEW D, NEW E, NEW p, NEW e, Adds(d, s), D \subseteq E, Handled(d, D, p, e)
  PROVE  Handled(s, E, p, e)
BY DEF Adds, Handled, Queued

LEMMA ReachFacts ==
  ASSUME NEW G, NEW d, DOMAIN d = DetailFields, WaysSound(d, G), NEW n, NodeKind[n] = "Service",
         NEW way \in G, way.item.node = n
  PROVE  LET s == ReachService(d, n, way)
         IN  WaysSound(s, G) /\ Adds(d, s) /\ (s.truncated \/ n \in DOMAIN s.services)
<1> DEFINE s == ReachService(d, n, way)
<1>1. CASE n \in DOMAIN d.services
  <2>1. s = d
    BY <1>1 DEF ReachService
  <2> QED
    BY <1>1, <2>1, AddsFacts
<1>2. CASE n \notin DOMAIN d.services /\ s = [d EXCEPT !.truncated = TRUE]
  <2> HIDE DEF s
  <2>1. /\ DOMAIN s = DetailFields /\ s.queue = d.queue /\ s.services = d.services /\ s.truncated
        /\ s.at = d.at /\ s.evidence = d.evidence /\ s.candidate = d.candidate /\ s.cut = d.cut /\ s.code = d.code
    BY <1>2 DEF DetailFields
  <2> QED
    BY <2>1 DEF WaysSound, Adds, s
<1>3. CASE n \notin DOMAIN d.services /\ s = [d EXCEPT !.services = Extend(d.services, n, way)]
  <2> DEFINE f == Extend(d.services, n, way)
  <2>1. /\ DOMAIN f = DOMAIN d.services \cup {n} /\ f[n] = way
        /\ \A z \in DOMAIN d.services : f[z] = d.services[z]
    <3> DEFINE g == d.services
    <3>1. n \notin DOMAIN g
      BY <1>3
    <3> HIDE DEF g
    <3>2. /\ DOMAIN Extend(g, n, way) = DOMAIN g \cup {n} /\ Extend(g, n, way)[n] = way
          /\ \A z \in DOMAIN g : z # n => Extend(g, n, way)[z] = g[z]
      BY DEF Extend
    <3> QED
      BY <3>1, <3>2 DEF g
  <2> HIDE DEF s, f
  <2>2. /\ DOMAIN s = DetailFields /\ s.queue = d.queue /\ s.services = f /\ s.truncated = d.truncated
        /\ s.at = d.at /\ s.evidence = d.evidence /\ s.candidate = d.candidate /\ s.cut = d.cut /\ s.code = d.code
    BY <1>3 DEF DetailFields, f
  <2>3. \A z \in DOMAIN f : f[z] \in G /\ f[z].item.node = z /\ NodeKind[z] = "Service"
    BY <2>1 DEF WaysSound
  <2>4. d.queue \in Seq(Onward(G))
    BY DEF WaysSound
  <2>5. WaysSound(s, G)
    BY <2>2, <2>3, <2>4 DEF WaysSound
  <2>6. Adds(d, s) /\ n \in DOMAIN s.services
    BY <2>1, <2>2 DEF Adds
  <2> QED
    BY <2>5, <2>6 DEF s
<1>4. s = d \/ s = [d EXCEPT !.truncated = TRUE] \/ s = [d EXCEPT !.services = Extend(d.services, n, way)]
  BY DEF ReachService
<1>5. n \notin DOMAIN d.services =>
        s = [d EXCEPT !.truncated = TRUE] \/ s = [d EXCEPT !.services = Extend(d.services, n, way)]
  BY DEF ReachService
<1> HIDE DEF s
<1> QED
  BY <1>1, <1>2, <1>3, <1>5 DEF s

LEMMA QueueFacts ==
  ASSUME NEW G, NEW d, DOMAIN d = DetailFields, WaysSound(d, G), NEW way \in Onward(G)
  PROVE  LET s == [d EXCEPT !.queue = Append(@, way)]
         IN  WaysSound(s, G) /\ Adds(d, s) /\ way.item \in Queued(s)
<1> DEFINE q == Append(d.queue, way)
           s == [d EXCEPT !.queue = q]
<1>1. d.queue \in Seq(Onward(G))
  BY DEF WaysSound
<1>2. q \in Seq(Onward(G)) /\ Range(q) = Range(d.queue) \cup {way}
  BY <1>1, AppendFacts
<1> HIDE DEF q
<1>3. /\ DOMAIN s = DetailFields /\ s.queue = q /\ s.services = d.services /\ s.truncated = d.truncated
      /\ s.at = d.at /\ s.evidence = d.evidence /\ s.candidate = d.candidate /\ s.cut = d.cut /\ s.code = d.code
  BY DEF DetailFields
<1> HIDE DEF s
<1>4. WaysSound(s, G) /\ Adds(d, s) /\ way.item \in Queued(s)
  BY <1>2, <1>3 DEF WaysSound, Adds, Queued
<1> QED
  BY <1>4 DEF s, q

(* A way and one hop more.                                                 *)
Lengthens(view, roots, proof, names) ==
  \A way \in Onward(GoodWays(view, roots, proof, names)) : \A e \in Hops(view, way.item) :
    \A ids \in SUBSET proof : names[e] \cap ids # {} =>
      LET next == Way(way.item.root, Source[e], Append(way.item.path, e), way.evidence \cup ids)
      IN  /\ next \in GoodWays(view, roots, proof, names)
          /\ next.item = Next1(way.item, e) /\ next.item.node = Source[e]

LEMMA LongerWays ==
  ASSUME NEW view \in Views, NEW roots, NEW proof, NEW names
  PROVE  Lengthens(view, roots, proof, names)
<1> SUFFICES ASSUME NEW way \in Onward(GoodWays(view, roots, proof, names)), NEW e \in Hops(view, way.item),
                    NEW ids \in SUBSET proof, names[e] \cap ids # {}
             PROVE  LET next == Way(way.item.root, Source[e], Append(way.item.path, e), way.evidence \cup ids)
                    IN  /\ next \in GoodWays(view, roots, proof, names)
                        /\ next.item = Next1(way.item, e) /\ next.item.node = Source[e]
  BY DEF Lengthens
<1> DEFINE item == way.item
           next == Way(item.root, Source[e], Append(item.path, e), way.evidence \cup ids)
           q == item.path
           r == Append(q, e)
           ev == way.evidence
<1>1. /\ way \in [item : DependencyWays(view, roots), evidence : SUBSET proof] /\ ev # {}
      /\ NodeKind[item.node] = "PackageVersion"
      /\ \A i \in DOMAIN q : names[q[i]] \cap ev # {}
  BY DEF Onward, GoodWays
<1>2. item \in DependencyWays(view, roots) /\ ev \subseteq proof
  BY <1>1
<1>3. Next1(item, e) \in DependencyWays(view, roots)
  <2>1. NodeKind[item.node] # "Service"
    BY <1>1
  <2> QED
    BY <1>2, <2>1, WaysFacts
<1>4. /\ next = [item |-> Next1(item, e), evidence |-> ev \cup ids]
      /\ Next1(item, e).path = r /\ Next1(item, e).node = Source[e]
  BY DEF Way, Next1, Item
<1>5. q \in Seq(Hoppable(view))
  BY <1>2, WaysFacts DEF SoundWay
<1> HIDE DEF q
<1>6. /\ DOMAIN q = 1..Len(q) /\ Len(q) \in Nat /\ DOMAIN r = 1..(Len(q) + 1)
      /\ \A i \in 1..Len(q) : r[i] = q[i]
      /\ r[Len(q) + 1] = e
  BY <1>5
<1> HIDE DEF r
<1>7. \A i \in DOMAIN r : names[r[i]] \cap (ev \cup ids) # {}
  <2> SUFFICES ASSUME NEW i \in 1..(Len(q) + 1) PROVE names[r[i]] \cap (ev \cup ids) # {}
    BY <1>6
  <2>1. CASE i = Len(q) + 1
    BY <1>6, <2>1
  <2>2. CASE i # Len(q) + 1
    <3>1. i \in 1..Len(q)
      BY <1>6, <2>2
    <3>2. r[i] = q[i] /\ names[q[i]] \cap ev # {}
      BY <1>1, <1>6, <3>1
    <3> QED
      BY <3>2
  <2> QED
    BY <2>1, <2>2
<1> HIDE DEF next, ev
<1>8. next.item = Next1(item, e) /\ next.evidence = ev \cup ids
  BY <1>4
<1>9. ev \cup ids \subseteq proof /\ ev \cup ids # {}
  BY <1>1, <1>2 DEF ev
<1>10. next \in [item : DependencyWays(view, roots), evidence : SUBSET proof]
  BY <1>3, <1>4, <1>9
<1>11. next \in GoodWays(view, roots, proof, names)
  BY <1>4, <1>7, <1>8, <1>9, <1>10 DEF GoodWays
<1> QED
  BY <1>4, <1>8, <1>11 DEF next, ev

LEMMA FoundLonger ==
  ASSUME StoredInv
  PROVE  Lengthens(PossibleGraph, PossibleRoots, LockfileEvidence, EverNames)
BY DetailViews, LongerWays

LEMMA FollowHopFacts ==
  ASSUME StoredInv, NEW d, DOMAIN d = DetailFields, WaysSound(d, GoodFound), NEW way \in Onward(GoodFound),
         NEW e \in HopsTo(StoredIndex, way.item.node)
  PROVE  LET s == FollowHop(d, way, e)
         IN  /\ WaysSound(s, GoodFound) /\ Adds(d, s)
             /\ e \in Hops(CertainGraph, way.item) /\ ~s.truncated => Handled(s, {}, way.item, e)
<1> DEFINE G == GoodFound
           item == way.item
           ids == EdgeNames(e) \cap LockfileEvidence
           n == Source[e]
           next == Way(item.root, n, Append(item.path, e), way.evidence \cup ids)
           s == FollowHop(d, way, e)
           certain == e \in Hops(CertainGraph, item)
<1>1. s = IF ids = {} \/ n \in PathNodes(item) THEN d
          ELSE IF NodeKind[n] = "Service" THEN ReachService(d, n, next)
          ELSE IF NodeKind[n] = "PackageVersion" THEN [d EXCEPT !.queue = Append(@, next)]
          ELSE d
  BY DEF FollowHop
<1>2. /\ e \in stored.index /\ EdgeKind[e] = "DEPENDS_ON" /\ n \in stored.nodes /\ Target[e] = item.node
      /\ e \in Edges
  BY DEF HopsTo, Hoppable, StoredIndex, StoredInv
<1>3. certain => ids # {} /\ n \notin PathNodes(item) /\ NodeKind[n] \in {"PackageVersion", "Service"}
  <2> SUFFICES ASSUME certain
               PROVE  ids # {} /\ n \notin PathNodes(item) /\ NodeKind[n] \in {"PackageVersion", "Service"}
    OBVIOUS
  <2>1. /\ e \in situation.view.edges \ rewritten.edges /\ EdgeEvidence[e] \cap LockfileEvidence # {}
        /\ n \notin PathNodes(item)
    BY DEF Hops, CertainGraph, Untouched, Indexed
  <2>2. EdgeNames(e) = EdgeEvidence[e]
    BY <2>1 DEF EdgeNames
  <2>3. NodeKind[n] \in {"PackageVersion", "Service"}
    BY <1>2, <2>1, SituationAssumption DEF StoredInv
  <2> QED
    BY <2>1, <2>2, <2>3
<1>4. CASE ids = {} \/ n \in PathNodes(item)
  <2>1. s = d /\ ~certain
    BY <1>1, <1>3, <1>4
  <2> QED
    BY <2>1, AddsFacts
<1>5. CASE ids # {} /\ n \notin PathNodes(item)
  <2>1. next \in G /\ next.item = Next1(item, e) /\ next.item.node = n
    <3>1. ids \subseteq LockfileEvidence /\ EverNames[e] = EverEdgeNames(e) /\ ids \subseteq EverEdgeNames(e)
      BY <1>2 DEF EverNames, EverEdgeNames
    <3>2. EverNames[e] \cap ids # {} /\ EverEdgeNames(e) \cap LockfileEvidence # {}
      BY <1>5, <3>1
    <3>3. e \in Hops(PossibleGraph, item)
      BY <1>2, <1>5, <3>2 DEF Hops, PossibleGraph
    <3>4. PossibleGraph \in Views
      BY DetailViews
    <3> HIDE DEF ids
    <3>5. Lengthens(PossibleGraph, PossibleRoots, LockfileEvidence, EverNames)
      BY FoundLonger
    <3>6. ids \in SUBSET LockfileEvidence /\ EverNames[e] \cap ids # {}
      BY <3>1, <3>2
    <3>7. next \in G /\ next.item = Next1(way.item, e) /\ next.item.node = Source[e]
      BY <3>3, <3>5, <3>6 DEF Lengthens, GoodFound
    <3> QED
      BY <3>7
  <2> HIDE DEF next, s, ids, certain, G
  <2>2. CASE NodeKind[n] = "Service"
    <3>1. s = ReachService(d, n, next)
      BY <1>1, <1>5, <2>2
    <3> DEFINE t == ReachService(d, n, next)
    <3>2. WaysSound(t, G) /\ Adds(d, t) /\ (t.truncated \/ n \in DOMAIN t.services)
      <4>1. WaysSound(d, G)
        BY DEF G
      <4> QED
        BY <2>1, <2>2, <4>1, ReachFacts
    <3> HIDE DEF t
    <3>3. ~s.truncated => Handled(s, {}, item, e)
      BY <2>2, <3>1, <3>2 DEF Handled, t
    <3> QED
      BY <3>1, <3>2, <3>3 DEF t, G, s, certain
  <2>3. CASE NodeKind[n] # "Service" /\ NodeKind[n] = "PackageVersion"
    <3>1. s = [d EXCEPT !.queue = Append(@, next)]
      BY <1>1, <1>5, <2>3
    <3> DEFINE t == [d EXCEPT !.queue = Append(@, next)]
    <3>2. WaysSound(t, G) /\ Adds(d, t) /\ next.item \in Queued(t)
      <4>1. WaysSound(d, G) /\ next \in Onward(G)
        BY <2>1, <2>3 DEF G, Onward
      <4> QED
        BY <4>1, QueueFacts
    <3> HIDE DEF t
    <3>3. Handled(s, {}, item, e)
      BY <2>1, <3>1, <3>2 DEF Handled, t
    <3> QED
      BY <3>1, <3>2, <3>3 DEF t, G, s
  <2>4. CASE NodeKind[n] \notin {"Service", "PackageVersion"}
    <3>1. s = d /\ ~certain
      BY <1>1, <1>3, <1>5, <2>4
    <3> QED
      BY <3>1, AddsFacts DEF s, certain
  <2> QED
    BY <2>2, <2>3, <2>4
<1> QED
  BY <1>4, <1>5

LEMMA PageByHop ==
  ASSUME NEW d, NEW way,
         Len(Dependents(StoredIndex, way.item.node, d.limits.dependents).hops) \in Nat
  PROVE  LET page == Dependents(StoredIndex, way.item.node, d.limits.dependents)
         IN  \E after : /\ Unrolls(after, Len(page.hops), [d EXCEPT !.truncated = @ \/ page.truncated],
                                   TraceHow(way, page.hops))
                        /\ FollowPage(d, way) = after[Len(page.hops)]
<1> DEFINE page == Dependents(StoredIndex, way.item.node, d.limits.dependents)
           hops == page.hops
           N == Len(hops)
           B == [d EXCEPT !.truncated = @ \/ page.truncated]
           how == TraceHow(way, hops)
           F(f) == [i \in 0..N |-> IF i = 0 THEN B ELSE FollowHop(f[i - 1], way, hops[i])]
           after == CHOOSE f : f = F(f)
<1>1. FollowPage(d, way) = after[N]
  BY DEF FollowPage
<1>2. N \in Nat
  OBVIOUS
<1> HIDE DEF N, B, how, page
<1>3. \A f : f = F(f) <=> Repeats(f, N, B, how)
  BY HowFacts DEF Repeats, how
<1>4. \E f : f = F(f)
  BY <1>2, <1>3, Repeated
<1>5. after = F(after)
  BY <1>4
<1>6. Repeats(after, N, B, how)
  BY <1>3, <1>5
<1> HIDE DEF after
<1>7. Unrolls(after, N, B, how)
  BY <1>2, <1>6, RepeatsUnrolls
<1> QED
  BY <1>1, <1>7 DEF N, B, how, page

LEMMA FollowPageFacts ==
  ASSUME StoredInv, NEW d, DOMAIN d = DetailFields, WaysSound(d, GoodFound), NEW way \in Onward(GoodFound)
  PROVE  LET s == FollowPage(d, way)
         IN  /\ WaysSound(s, GoodFound) /\ Adds(d, s)
             /\ ~s.truncated => \A e \in Hops(CertainGraph, way.item) : Handled(s, {}, way.item, e)
<1> DEFINE G == GoodFound
           item == way.item
           page == Dependents(StoredIndex, item.node, d.limits.dependents)
           hops == page.hops
           N == Len(hops)
           B == [d EXCEPT !.truncated = @ \/ page.truncated]
           C == Hops(CertainGraph, item)
           s == FollowPage(d, way)
<1>1. /\ hops \in Seq(HopsTo(StoredIndex, item.node))
      /\ ~page.truncated => HopsTo(CertainGraph, item.node) \subseteq Range(hops)
  <2>1. StoredIndex \in Views /\ Larger(CertainGraph, StoredIndex)
    BY DetailViews
  <2>2. HopsTo(CertainGraph, item.node) \subseteq HopsTo(StoredIndex, item.node)
    BY <2>1, ViewsGrow
  <2>3. /\ hops \in Seq(HopsTo(StoredIndex, item.node))
        /\ ~page.truncated => Range(hops) = HopsTo(StoredIndex, item.node)
    <3> HIDE DEF item
    <3> QED
      BY <2>1, DependentsFacts
  <2> HIDE DEF page, item
  <2> QED
    BY <2>2, <2>3
<1>2. C \subseteq HopsTo(CertainGraph, item.node)
  BY DEF Hops, HopsTo, Hoppable
<1>3. N \in Nat
  BY <1>1
<1>4. PICK after : Unrolls(after, N, B, TraceHow(way, hops)) /\ s = after[N]
  BY <1>3, PageByHop
<1> HIDE DEF page
<1>5. /\ DOMAIN B = DetailFields /\ B.queue = d.queue /\ B.services = d.services
      /\ B.truncated = (d.truncated \/ page.truncated)
      /\ B.at = d.at /\ B.evidence = d.evidence /\ B.candidate = d.candidate /\ B.cut = d.cut /\ B.code = d.code
  BY DEF DetailFields
<1> HIDE DEF B
<1>6. WaysSound(B, G) /\ Adds(d, B)
  BY <1>5 DEF WaysSound, Adds
<1> HIDE DEF hops, N, s, C, G
<1>7. /\ after[0] = B /\ \A i \in 1..N : after[i] = FollowHop(after[i - 1], way, hops[i])
  BY <1>4, HowFacts DEF Unrolls
<1>8. \A i \in 1..N : hops[i] \in HopsTo(StoredIndex, item.node)
  BY <1>1 DEF N
<1> DEFINE Met(u, k) == \A i \in 1..k : hops[i] \in C => Handled(u, {}, item, hops[i])
           K == {k \in 0..N : /\ WaysSound(after[k], G) /\ Adds(B, after[k])
                              /\ ~after[k].truncated => Met(after[k], k)}
<1>9. 0 \in K
  <2>1. 0 \in 0..N /\ 1..0 = {}
    BY <1>3
  <2>2. Adds(B, B)
    BY <1>5, AddsFacts
  <2> QED
    BY <1>6, <1>7, <2>1, <2>2
<1>10. ASSUME NEW k \in 0..N, k \in K, k < N PROVE k + 1 \in K
  <2>1. k + 1 \in 0..N /\ k + 1 \in 1..N /\ (k + 1) - 1 = k /\ 1..(k + 1) = 1..k \cup {k + 1}
    BY <1>3, <1>10
  <2> DEFINE u == after[k]
             v == after[k + 1]
             e == hops[k + 1]
  <2>2. v = FollowHop(u, way, e) /\ e \in HopsTo(StoredIndex, item.node)
    BY <1>7, <1>8, <2>1
  <2>3. WaysSound(u, G) /\ Adds(B, u) /\ (~u.truncated => Met(u, k))
    BY <1>10
  <2> HIDE DEF e, u
  <2>4. WaysSound(v, G) /\ Adds(u, v) /\ (e \in C /\ ~v.truncated => Handled(v, {}, item, e))
    <3>1. DOMAIN u = DetailFields
      BY <2>3 DEF Adds
    <3> DEFINE t == FollowHop(u, way, e)
    <3>2. /\ WaysSound(t, GoodFound) /\ Adds(u, t)
          /\ e \in Hops(CertainGraph, way.item) /\ ~t.truncated => Handled(t, {}, way.item, e)
      BY <2>2, <2>3, <3>1, FollowHopFacts DEF G
    <3> HIDE DEF t
    <3> QED
      BY <2>2, <3>2 DEF t, G, C
  <2> HIDE DEF v
  <2>5. Adds(B, v)
    BY <2>3, <2>4, AddsFacts
  <2>6. ~v.truncated => Met(v, k + 1)
    <3> SUFFICES ASSUME ~v.truncated, NEW i \in 1..(k + 1), hops[i] \in C PROVE Handled(v, {}, item, hops[i])
      OBVIOUS
    <3>1. CASE i = k + 1
      BY <2>4, <3>1 DEF e
    <3>2. CASE i \in 1..k
      <4>1. ~u.truncated
        BY <2>4 DEF Adds
      <4>2. Handled(u, {}, item, hops[i])
        BY <2>3, <3>2, <4>1
      <4> QED
        BY <2>4, <4>2, HandledStays
    <3> QED
      BY <2>1, <3>1, <3>2
  <2> QED
    BY <2>1, <2>4, <2>5, <2>6 DEF v
<1>11. N \in K
  <2> HIDE DEF K
  <2>1. 0..N \subseteq K
    BY <1>3, <1>9, <1>10, UpTo
  <2>2. N \in 0..N
    BY <1>3
  <2> QED
    BY <2>1, <2>2
<1>12. WaysSound(s, G) /\ Adds(B, s) /\ (~s.truncated => Met(s, N))
  BY <1>4, <1>11
<1>13. Adds(d, s)
  BY <1>6, <1>12, AddsFacts
<1>14. ASSUME ~s.truncated, NEW e \in C PROVE Handled(s, {}, item, e)
  <2>1. ~page.truncated
    BY <1>5, <1>12, <1>14 DEF Adds
  <2>2. e \in Range(hops)
    BY <1>1, <1>2, <1>14, <2>1 DEF hops
  <2>3. PICK i \in 1..N : hops[i] = e
    <3>1. DOMAIN hops = 1..N
      BY <1>1 DEF hops, N
    <3> QED
      BY <2>2, <3>1 DEF Range
  <2> QED
    BY <1>12, <1>14, <2>3
<1> QED
  BY <1>12, <1>13, <1>14 DEF s, C, G

LEMMA SameDetail ==
  ASSUME UNCHANGED graphVars, detail'.evidence = detail.evidence, detail'.candidate = detail.candidate
  PROVE  /\ GoodFound' = GoodFound /\ PossibleRoots' = PossibleRoots /\ LockfileEvidence' = LockfileEvidence
         /\ CertainGraph' = CertainGraph /\ CertainRoots' = CertainRoots
         /\ \A n : NodeNames(n)' = NodeNames(n)
<1>1. situation' = situation /\ stored' = stored /\ rewritten' = rewritten
  BY DEF graphVars
<1>2. LockfileEvidence' = LockfileEvidence
  BY DEF LockfileEvidence
<1>3. /\ \A e : EverEdgeNames(e)' = EverEdgeNames(e) /\ \A n : EverNodeNames(n)' = EverNodeNames(n)
      /\ \A n : NodeNames(n)' = NodeNames(n)
  BY <1>1 DEF EverEdgeNames, EverNodeNames, EdgeNames, NodeNames, ByBatch
<1>4. \A N, E : CandidateVersions(N, E)' = CandidateVersions(N, E)
  BY DEF CandidateVersions
<1>5. PossibleRoots' = PossibleRoots
  BY <1>1, <1>2, <1>3, <1>4 DEF PossibleRoots
<1>6. PossibleGraph' = PossibleGraph
  BY <1>1, <1>2, <1>3 DEF PossibleGraph
<1>7. EverNames' = EverNames
  BY <1>3 DEF EverNames
<1>8. GoodFound' = GoodFound
  BY <1>2, <1>5, <1>6, <1>7 DEF GoodFound
<1>9. Untouched' = Untouched
  BY <1>1 DEF Untouched
<1>10. CertainGraph' = CertainGraph
  BY <1>1, <1>2, <1>9 DEF CertainGraph
<1>11. CertainRoots' = CertainRoots
  BY <1>1, <1>2, <1>4, <1>9 DEF CertainRoots
<1> QED
  BY <1>2, <1>3, <1>5, <1>8, <1>10, <1>11

LEMMA SettleKeeps ==
  ASSUME DetailInv, UNCHANGED graphVars, NEW c, c # 200, Settle(c)
  PROVE  DetailInv'
<1>1. StoredInv' /\ DOMAIN detail' = DetailFields /\ detail'.at = "answered" /\ detail'.code # 200
  BY DEF DetailInv, graphVars, Settle, DetailFields, StoredInv
<1> QED
  BY <1>1 DEF DetailInv, ExposureIsReal

LEMMA StillTracing ==
  ASSUME DetailInv, UNCHANGED graphVars, DOMAIN detail' = DetailFields, detail'.at = "trace", detail'.code = 0,
         detail'.evidence = detail.evidence, detail'.candidate = detail.candidate,
         WaysSound(detail', GoodFound),
         ~detail'.cut /\ ~detail'.truncated => \E D : WaysDone(detail', D, CertainGraph, CertainRoots)
  PROVE  DetailInv'
<1>1. GoodFound' = GoodFound /\ CertainGraph' = CertainGraph /\ CertainRoots' = CertainRoots
  BY SameDetail
<1>2. WaysSound(detail, GoodFound)'
  BY <1>1 DEF WaysSound
<1>3. (~detail.cut /\ ~detail.truncated => \E D : WaysDone(detail, D, CertainGraph, CertainRoots))'
  BY <1>1 DEF WaysDone
<1>4. TraceInv'
  BY <1>2, <1>3 DEF TraceInv
<1>5. StoredInv'
  BY DEF DetailInv, graphVars, StoredInv
<1> QED
  BY <1>4, <1>5 DEF DetailInv

LEMMA TraceWayKeeps ==
  ASSUME DetailInv, TraceWay, UNCHANGED graphVars
  PROVE  DetailInv'
<1> DEFINE way == Head(detail.queue)
           taken == [detail EXCEPT !.queue = Tail(@), !.states = @ + 1]
           R == CertainRoots
           C == CertainGraph
<1>1. /\ detail.at = "trace" /\ detail.queue # <<>> /\ DOMAIN detail = DetailFields /\ detail.code = 0
      /\ StoredInv /\ TraceInv
  BY DEF TraceWay, DetailInv
<1>2. detail.queue \in Seq(Onward(GoodFound))
  BY <1>1 DEF TraceInv, WaysSound
<1>3. /\ Tail(detail.queue) \in Seq(Onward(GoodFound)) /\ way \in Onward(GoodFound)
      /\ Range(detail.queue) = {way} \cup Range(Tail(detail.queue))
  BY <1>1, <1>2, TailFacts
<1>4. \/ detail' = [taken EXCEPT !.truncated = TRUE]
      \/ Settle(503)
      \/ detail' = FollowPage(taken, way)
  BY DEF TraceWay
<1> HIDE DEF way
<1>5. /\ DOMAIN taken = DetailFields /\ taken.queue = Tail(detail.queue) /\ taken.services = detail.services
      /\ taken.truncated = detail.truncated /\ taken.at = detail.at /\ taken.evidence = detail.evidence
      /\ taken.candidate = detail.candidate /\ taken.cut = detail.cut /\ taken.code = detail.code
  BY <1>1 DEF DetailFields
<1> HIDE DEF taken
<1>6. WaysSound(taken, GoodFound)
  BY <1>1, <1>3, <1>5 DEF TraceInv, WaysSound
<1>7. CASE detail' = [taken EXCEPT !.truncated = TRUE]
  <2>1. /\ DOMAIN detail' = DetailFields /\ detail'.queue = taken.queue /\ detail'.services = taken.services
        /\ detail'.truncated /\ detail'.at = taken.at /\ detail'.evidence = taken.evidence
        /\ detail'.candidate = taken.candidate /\ detail'.code = taken.code
    BY <1>5, <1>7 DEF DetailFields
  <2>2. WaysSound(detail', GoodFound)
    BY <1>6, <2>1 DEF WaysSound
  <2> QED
    BY <1>1, <1>5, <2>1, <2>2, StillTracing
<1>8. CASE Settle(503)
  BY <1>8, SettleKeeps
<1>9. CASE detail' = FollowPage(taken, way)
  <2> DEFINE s == FollowPage(taken, way)
  <2>1. /\ WaysSound(s, GoodFound) /\ Adds(taken, s)
        /\ ~s.truncated => \A e \in Hops(C, way.item) : Handled(s, {}, way.item, e)
    BY <1>1, <1>3, <1>5, <1>6, FollowPageFacts
  <2> HIDE DEF s
  <2>2. detail' = s
    BY <1>9 DEF s
  <2>3. /\ DOMAIN s = DetailFields /\ s.at = "trace" /\ s.code = 0 /\ s.evidence = detail.evidence
        /\ s.candidate = detail.candidate /\ s.cut = detail.cut /\ (detail.truncated => s.truncated)
    BY <1>1, <1>5, <2>1 DEF Adds
  <2>4. ASSUME ~s.cut, ~s.truncated PROVE \E D : WaysDone(s, D, C, R)
    <3>1. PICK D : WaysDone(detail, D, C, R)
      BY <1>1, <2>3, <2>4 DEF TraceInv
    <3> DEFINE E == D \cup {way.item}
    <3> HIDE DEF C, R
    <3>2. Queued(detail) = {way.item} \cup Queued(taken) /\ Queued(taken) \subseteq Queued(s)
      BY <1>3, <1>5, <2>1 DEF Queued, Adds
    <3>3. Begun(C, R) \subseteq E \cup Queued(s)
      BY <3>1, <3>2 DEF WaysDone
    <3>4. ASSUME NEW p \in D PROVE NodeKind[p.node] # "Service" /\ \A e \in Hops(C, p) : Handled(s, E, p, e)
      <4>1. NodeKind[p.node] # "Service" /\ \A e \in Hops(C, p) : Handled(detail, D, p, e)
        BY <3>1 DEF WaysDone
      <4>2. ASSUME NEW e, Handled(detail, D, p, e) PROVE Handled(s, E, p, e)
        <5>1. DOMAIN detail.services \subseteq DOMAIN s.services
          BY <1>5, <2>1 DEF Adds
        <5> QED
          BY <3>2, <4>2, <5>1 DEF Handled
      <4> QED
        BY <4>1, <4>2
    <3>5. NodeKind[way.item.node] # "Service" /\ \A e \in Hops(C, way.item) : Handled(s, E, way.item, e)
      <4>1. NodeKind[way.item.node] = "PackageVersion"
        BY <1>3 DEF Onward
      <4>2. \A e : Handled(s, {}, way.item, e) => Handled(s, E, way.item, e)
        BY DEF Handled
      <4> QED
        BY <2>1, <2>4, <4>1, <4>2
    <3>6. WaysDone(s, E, C, R)
      <4>1. \A p \in E : NodeKind[p.node] # "Service" /\ \A e \in Hops(C, p) : Handled(s, E, p, e)
        BY <3>4, <3>5
      <4> QED
        BY <3>3, <4>1 DEF WaysDone
    <3> QED
      BY <3>6
  <2> QED
    BY <2>1, <2>2, <2>3, <2>4, StillTracing
<1> QED
  BY <1>4, <1>7, <1>8, <1>9

LEMMA AllFound ==
  ASSUME NEW view \in Views, NEW roots, NEW d, NEW D, WaysDone(d, D, view, roots), d.queue = <<>>
  PROVE  {w.node : w \in DependencyPaths(view, roots)} \subseteq DOMAIN d.services
<1> DEFINE W == DependencyWays(view, roots)
           F == DOMAIN d.services
           G == {p \in W : p \in D \/ (NodeKind[p.node] = "Service" /\ p.node \in F)}
<1>1. Queued(d) = {}
  BY EmptySequence DEF Queued
<1>2. /\ Begun(view, roots) \subseteq W
      /\ \A p \in W : \A e \in Hops(view, p) : NodeKind[p.node] # "Service" => Next1(p, e) \in W
      /\ \A S : /\ Begun(view, roots) \subseteq S
                /\ \A p \in W : \A e \in Hops(view, p) :
                     p \in S /\ NodeKind[p.node] # "Service" => Next1(p, e) \in S
                => W \subseteq S
  BY WaysFacts
<1>3. Begun(view, roots) \subseteq G
  BY <1>1, <1>2 DEF WaysDone
<1>4. ASSUME NEW p \in W, NEW e \in Hops(view, p), p \in G, NodeKind[p.node] # "Service"
      PROVE  Next1(p, e) \in G
  <2>1. p \in D
    BY <1>4
  <2>2. Handled(d, D, p, e)
    BY <1>4, <2>1 DEF WaysDone
  <2>3. Next1(p, e) \in W /\ Next1(p, e).node = Source[e]
    BY <1>2, <1>4 DEF Next1, Item
  <2>4. Next1(p, e) \in D \/ (NodeKind[Source[e]] = "Service" /\ Source[e] \in F)
    BY <1>1, <2>2 DEF Handled
  <2> QED
    BY <2>3, <2>4
<1>5. W \subseteq G
  <2> HIDE DEF G
  <2> QED
    BY <1>2, <1>3, <1>4
<1>6. \A w \in DependencyPaths(view, roots) : w \in W /\ NodeKind[w.node] = "Service"
  BY PathsAreWays
<1>7. \A p \in D : NodeKind[p.node] # "Service"
  BY DEF WaysDone
<1> HIDE DEF W, F
<1>8. ASSUME NEW w \in DependencyPaths(view, roots) PROVE w.node \in F
  BY <1>5, <1>6, <1>7, <1>8
<1> QED
  BY <1>8 DEF F

LEMMA WayHops ==
  ASSUME NEW view \in Views, NEW roots, NEW p \in DependencyWays(view, roots)
  PROVE  \A i \in DOMAIN p.path : p.path[i] \in Edges
<1> DEFINE q == p.path
<1>1. q \in Seq(Hoppable(view))
  BY WaysFacts DEF SoundWay
<1>2. Hoppable(view) \subseteq Edges
  BY DEF Hoppable, Views
<1> HIDE DEF q
<1>3. \A i \in DOMAIN q : q[i] \in Hoppable(view)
  BY <1>1
<1> QED
  BY <1>2, <1>3 DEF q

(* What the answer rests on.                                               *)
Exposed ==
  /\ WaysSound(detail, GoodFound)
  /\ ~detail.cut /\ ~detail.truncated =>
       {w.node : w \in DependencyPaths(CertainGraph, CertainRoots)} \subseteq DOMAIN detail.services

LEMMA ExposedIsReal == StoredInv /\ Exposed => ExposureIsReal
<1> SUFFICES ASSUME StoredInv, Exposed PROVE ExposureIsReal
  OBVIOUS
<1>1. /\ PossibleWays = DependencyPaths(PossibleGraph, PossibleRoots)
      /\ CertainWays = DependencyPaths(CertainGraph, CertainRoots)
  BY DEF PossibleWays, CertainWays, PossibleGraph, PossibleRoots, CertainGraph, CertainRoots
<1>2. ASSUME NEW s \in DOMAIN detail.services
      PROVE  LET way == detail.services[s]
             IN  /\ way.item \in PossibleWays /\ way.item.node = s
                 /\ way.evidence # {} /\ way.evidence \subseteq LockfileEvidence
                 /\ \A i \in DOMAIN way.item.path :
                      EverEdgeNames(way.item.path[i]) \cap way.evidence # {}
  <2> DEFINE way == detail.services[s]
  <2>1. way \in GoodFound /\ way.item.node = s /\ NodeKind[s] = "Service"
    BY <1>2 DEF Exposed, WaysSound
  <2> HIDE DEF way
  <2>2. /\ way.item \in DependencyWays(PossibleGraph, PossibleRoots)
        /\ way.evidence \subseteq LockfileEvidence /\ way.evidence # {}
        /\ \A i \in DOMAIN way.item.path : EverNames[way.item.path[i]] \cap way.evidence # {}
    BY <2>1 DEF GoodFound, GoodWays
  <2>3. way.item \in PossibleWays
    BY <1>1, <2>1, <2>2, PathsAreWays
  <2>4. \A e \in Edges : EverNames[e] = EverEdgeNames(e)
    BY DEF EverNames
  <2> DEFINE q == way.item.path
  <2>5. \A i \in DOMAIN q : q[i] \in Edges
    BY <2>2, DetailViews, WayHops
  <2> HIDE DEF q
  <2>6. \A i \in DOMAIN q : EverEdgeNames(q[i]) \cap way.evidence # {}
    BY <2>2, <2>4, <2>5 DEF q
  <2> QED
    BY <2>1, <2>2, <2>3, <2>6 DEF way, q
<1> QED
  BY <1>1, <1>2 DEF ExposureIsReal, Exposed

LEMMA EndTraceKeeps ==
  ASSUME DetailInv, EndTrace, UNCHANGED graphVars
  PROVE  DetailInv'
<1>1. /\ DOMAIN detail = DetailFields /\ StoredInv /\ TraceInv
      /\ detail' = [detail EXCEPT !.truncated = @ \/ detail.queue # <<>>, !.at = "answered", !.code = 200]
  BY DEF EndTrace, DetailInv
<1>2. /\ DOMAIN detail' = DetailFields /\ detail'.at = "answered" /\ detail'.queue = detail.queue
      /\ detail'.services = detail.services /\ detail'.cut = detail.cut
      /\ detail'.evidence = detail.evidence /\ detail'.candidate = detail.candidate
      /\ detail'.truncated = (detail.truncated \/ detail.queue # <<>>)
  BY <1>1 DEF DetailFields
<1>3. GoodFound' = GoodFound /\ CertainGraph' = CertainGraph /\ CertainRoots' = CertainRoots
  BY <1>2, SameDetail
<1>4. StoredInv'
  BY <1>1 DEF graphVars, StoredInv
<1>5. WaysSound(detail, GoodFound)'
  BY <1>1, <1>2, <1>3 DEF WaysSound, TraceInv
<1>6. ASSUME ~detail'.cut, ~detail'.truncated
      PROVE  {w.node : w \in DependencyPaths(CertainGraph, CertainRoots)} \subseteq DOMAIN detail.services
  <2>1. ~detail.cut /\ ~detail.truncated /\ detail.queue = <<>>
    BY <1>2, <1>6
  <2>2. PICK D : WaysDone(detail, D, CertainGraph, CertainRoots)
    BY <1>1, <2>1 DEF TraceInv
  <2> QED
    BY <1>1, <2>1, <2>2, DetailViews, AllFound
<1>7. DependencyPaths(CertainGraph, CertainRoots)' = DependencyPaths(CertainGraph, CertainRoots)
  BY <1>3 DEF DependencyPaths, DependencyGraph
<1>8. Exposed'
  BY <1>2, <1>5, <1>6, <1>7 DEF Exposed
<1>9. StoredInv' /\ Exposed' => ExposureIsReal'
  BY ExposedIsReal, PTL
<1> QED
  BY <1>2, <1>4, <1>8, <1>9 DEF DetailInv

(* Before there is a version to look at.                                   *)
LEMMA EarlyKeeps ==
  ASSUME DetailInv, UNCHANGED graphVars, detail.at \in {"finding", "packages", "package", "evidence"},
         DOMAIN detail' = DetailFields, detail'.at \in {"packages", "package", "evidence", "versions"},
         detail'.queue = detail.queue, detail'.services = detail.services, detail'.truncated = detail.truncated,
         detail'.exact = detail.exact, detail'.code = detail.code
  PROVE  DetailInv'
<1>1. StoredInv'
  BY DEF DetailInv, graphVars, StoredInv
<1>2. NotYet /\ detail.exact = <<>> /\ detail.code = 0
  BY DEF DetailInv
<1>3. NotYet' /\ detail'.exact = <<>> /\ detail'.code = 0
  BY <1>2 DEF NotYet
<1> QED
  BY <1>1, <1>3 DEF DetailInv

LEMMA ReadFindingKeeps ==
  ASSUME DetailInv, ReadFinding, UNCHANGED graphVars
  PROVE  DetailInv'
<1>1. detail.at = "finding" /\ DOMAIN detail = DetailFields
  BY DEF ReadFinding, DetailInv
<1>2. CASE Settle(404)
  BY <1>2, SettleKeeps
<1>3. CASE detail' = [detail EXCEPT !.at = "packages"]
  <2>1. /\ DOMAIN detail' = DetailFields /\ detail'.at = "packages"
        /\ detail'.queue = detail.queue /\ detail'.services = detail.services
        /\ detail'.truncated = detail.truncated /\ detail'.exact = detail.exact /\ detail'.code = detail.code
    BY <1>1, <1>3 DEF DetailFields
  <2> QED
    BY <1>1, <2>1, EarlyKeeps
<1> QED
  BY <1>2, <1>3 DEF ReadFinding

LEMMA ReadPackagesKeeps ==
  ASSUME DetailInv, ReadPackages, UNCHANGED graphVars
  PROVE  DetailInv'
<1>1. detail.at = "packages" /\ DOMAIN detail = DetailFields
  BY DEF ReadPackages, DetailInv
<1>2. CASE Settle(503)
  BY <1>2, SettleKeeps
<1>3. ASSUME NEW x, NEW y, detail' = [detail EXCEPT !.at = "package", !.candidate = x, !.asked = y]
      PROVE  DetailInv'
  <2>1. /\ DOMAIN detail' = DetailFields /\ detail'.at = "package"
        /\ detail'.queue = detail.queue /\ detail'.services = detail.services
        /\ detail'.truncated = detail.truncated /\ detail'.exact = detail.exact /\ detail'.code = detail.code
    BY <1>1, <1>3 DEF DetailFields
  <2> QED
    BY <1>1, <2>1, EarlyKeeps
<1>4. Settle(503) \/ \E x, y : detail' = [detail EXCEPT !.at = "package", !.candidate = x, !.asked = y]
  BY DEF ReadPackages
<1> QED
  BY <1>2, <1>3, <1>4

LEMMA ReadPackageKeeps ==
  ASSUME DetailInv, ReadPackage, UNCHANGED graphVars
  PROVE  DetailInv'
<1>1. detail.at = "package" /\ DOMAIN detail = DetailFields
  BY DEF ReadPackage, DetailInv
<1>2. CASE Settle(503)
  BY <1>2, SettleKeeps
<1>3. ASSUME NEW x, detail' = [detail EXCEPT !.asked = x] PROVE DetailInv'
  <2>1. /\ DOMAIN detail' = DetailFields /\ detail'.at = "package"
        /\ detail'.queue = detail.queue /\ detail'.services = detail.services
        /\ detail'.truncated = detail.truncated /\ detail'.exact = detail.exact /\ detail'.code = detail.code
    BY <1>1, <1>3 DEF DetailFields
  <2> QED
    BY <1>1, <2>1, EarlyKeeps
<1>4. CASE detail' = [detail EXCEPT !.at = "evidence", !.asked = FindingEvidence]
  <2>1. /\ DOMAIN detail' = DetailFields /\ detail'.at = "evidence"
        /\ detail'.queue = detail.queue /\ detail'.services = detail.services
        /\ detail'.truncated = detail.truncated /\ detail'.exact = detail.exact /\ detail'.code = detail.code
    BY <1>1, <1>4 DEF DetailFields
  <2> QED
    BY <1>1, <2>1, EarlyKeeps
<1>5. \/ Settle(503)
      \/ \E x : detail' = [detail EXCEPT !.asked = x]
      \/ detail' = [detail EXCEPT !.at = "evidence", !.asked = FindingEvidence]
  BY DEF ReadPackage
<1> QED
  BY <1>2, <1>3, <1>4, <1>5

LEMMA ReadSupportKeeps ==
  ASSUME DetailInv, ReadSupport, UNCHANGED graphVars
  PROVE  DetailInv'
<1>1. detail.at = "evidence" /\ DOMAIN detail = DetailFields
  BY DEF ReadSupport, DetailInv
<1>2. PICK x, y : detail' = [detail EXCEPT !.asked = x, !.evidence = y]
  BY DEF ReadSupport
<1>3. /\ DOMAIN detail' = DetailFields /\ detail'.at = "evidence"
      /\ detail'.queue = detail.queue /\ detail'.services = detail.services
      /\ detail'.truncated = detail.truncated /\ detail'.exact = detail.exact /\ detail'.code = detail.code
  BY <1>1, <1>2 DEF DetailFields
<1> QED
  BY <1>1, <1>3, EarlyKeeps

LEMMA SupportReadKeeps ==
  ASSUME DetailInv, SupportRead, UNCHANGED graphVars
  PROVE  DetailInv'
<1>1. detail.at = "evidence" /\ DOMAIN detail = DetailFields
  BY DEF SupportRead, DetailInv
<1>2. CASE Settle(503)
  BY <1>2, SettleKeeps
<1>3. CASE detail' = [detail EXCEPT !.at = "versions"]
  <2>1. /\ DOMAIN detail' = DetailFields /\ detail'.at = "versions"
        /\ detail'.queue = detail.queue /\ detail'.services = detail.services
        /\ detail'.truncated = detail.truncated /\ detail'.exact = detail.exact /\ detail'.code = detail.code
    BY <1>1, <1>3 DEF DetailFields
  <2> QED
    BY <1>1, <2>1, EarlyKeeps
<1> QED
  BY <1>2, <1>3 DEF SupportRead

LEMMA ReadVersionsKeeps ==
  ASSUME DetailInv, ReadVersions, UNCHANGED graphVars
  PROVE  DetailInv'
<1> DEFINE all == {Target[e] : e \in {d \in StoredEdges("HAS_VERSION") : Source[d] = detail.candidate}}
           bounded == FirstOf(all, detail.limits.versions)
<1>1. /\ detail.at = "versions" /\ DOMAIN detail = DetailFields /\ StoredInv
      /\ NotYet /\ detail.exact = <<>> /\ detail.code = 0
      /\ detail' = [detail EXCEPT !.at = "version", !.asked = bounded, !.cut = bounded # all]
  BY DEF ReadVersions, DetailInv
<1>2. all \subseteq CandidateVersions(stored.nodes, stored.edges)
  BY DEF StoredEdges, CandidateVersions
<1>3. CertainRoots \subseteq all
  <2> SUFFICES ASSUME NEW v \in CertainRoots PROVE v \in all
    OBVIOUS
  <2>1. PICK e \in situation.view.edges : EdgeKind[e] = "HAS_VERSION" /\ Source[e] = detail.candidate /\ v = Target[e]
    BY DEF CertainRoots, CandidateVersions
  <2>2. {Source[e], Target[e]} \subseteq situation.view.nodes
    BY <1>1, SituationAssumption DEF StoredInv
  <2>3. e \in StoredEdges("HAS_VERSION")
    BY <1>1, <2>1, <2>2 DEF StoredInv, StoredEdges
  <2> QED
    BY <2>1, <2>3
<1>4. bounded \subseteq all
  BY DEF FirstOf
<1> HIDE DEF all, bounded
<1>5. /\ DOMAIN detail' = DetailFields /\ detail'.at = "version" /\ detail'.asked = bounded
      /\ detail'.cut = (bounded # all)
      /\ detail'.queue = detail.queue /\ detail'.services = detail.services
      /\ detail'.truncated = detail.truncated /\ detail'.exact = detail.exact /\ detail'.code = detail.code
      /\ detail'.evidence = detail.evidence /\ detail'.candidate = detail.candidate
  BY <1>1 DEF DetailFields
<1>6. CertainRoots' = CertainRoots /\ stored' = stored
  BY <1>5, SameDetail DEF graphVars
<1>7. CandidateVersions(stored.nodes, stored.edges)' = CandidateVersions(stored.nodes, stored.edges)
  BY <1>5, <1>6 DEF CandidateVersions
<1>8. StoredInv'
  BY <1>1 DEF graphVars, StoredInv
<1>9. NotYet' /\ DOMAIN detail'.exact = {}
  BY <1>1, <1>5, EmptySequence DEF NotYet
<1>10. VersionInv'
  BY <1>2, <1>3, <1>4, <1>5, <1>6, <1>7, <1>9 DEF VersionInv
<1> QED
  BY <1>1, <1>5, <1>8, <1>10 DEF DetailInv

LEMMA ReadVersionKeeps ==
  ASSUME DetailInv, ReadVersion, UNCHANGED graphVars
  PROVE  DetailInv'
<1>1. detail.at = "version" /\ DOMAIN detail = DetailFields /\ StoredInv /\ VersionInv /\ detail.code = 0
  BY DEF ReadVersion, DetailInv
<1>2. PICK n \in detail.asked :
        \/ Settle(503)
        \/ /\ NodeKind[n] = "PackageVersion"
           /\ detail' = [detail EXCEPT !.asked = @ \ {n},
                           !.exact = IF NodeNames(n) \cap LockfileEvidence = {} THEN @
                                     ELSE Extend(@, n, NodeNames(n) \cap LockfileEvidence)]
  BY FirstRow DEF ReadVersion
<1>3. CASE Settle(503)
  BY <1>3, SettleKeeps
<1>4. CASE /\ NodeKind[n] = "PackageVersion"
           /\ detail' = [detail EXCEPT !.asked = @ \ {n},
                           !.exact = IF NodeNames(n) \cap LockfileEvidence = {} THEN @
                                     ELSE Extend(@, n, NodeNames(n) \cap LockfileEvidence)]
  <2> DEFINE old == detail.exact
             ids == NodeNames(n) \cap LockfileEvidence
             f == IF ids = {} THEN old ELSE Extend(old, n, ids)
  <2>1. detail' = [detail EXCEPT !.asked = detail.asked \ {n}, !.exact = f]
    BY <1>4
  <2> HIDE DEF f
  <2>2. /\ DOMAIN detail' = DetailFields /\ detail'.at = "version" /\ detail'.asked = detail.asked \ {n}
        /\ detail'.exact = f /\ detail'.cut = detail.cut
        /\ detail'.queue = detail.queue /\ detail'.services = detail.services
        /\ detail'.truncated = detail.truncated /\ detail'.code = detail.code
        /\ detail'.evidence = detail.evidence /\ detail'.candidate = detail.candidate
    BY <1>1, <2>1 DEF DetailFields
  <2> HIDE DEF old
  <2>3. /\ DOMAIN f = IF ids = {} THEN DOMAIN old ELSE DOMAIN old \cup {n}
        /\ \A m \in DOMAIN f : (m \in DOMAIN old /\ f[m] = old[m]) \/ (m = n /\ ids # {} /\ f[m] = ids)
    BY DEF f, Extend
  <2>4. ids # {} => n \in PossibleRoots
    BY <1>1 DEF VersionInv, PossibleRoots, EverNodeNames
  <2>5. n \in CertainRoots => ids # {}
    BY DEF CertainRoots, Untouched, CandidateVersions, NodeNames
  <2>6. /\ CertainRoots' = CertainRoots /\ PossibleRoots' = PossibleRoots /\ stored' = stored
        /\ LockfileEvidence' = LockfileEvidence
    BY <2>2, SameDetail DEF graphVars
  <2>7. CandidateVersions(stored.nodes, stored.edges)' = CandidateVersions(stored.nodes, stored.edges)
    BY <2>2, <2>6 DEF CandidateVersions
  <2>8. StoredInv'
    BY <1>1 DEF graphVars, StoredInv
  <2>9. NotYet' /\ detail'.asked \subseteq CandidateVersions(stored.nodes, stored.edges)'
    BY <1>1, <2>2, <2>7 DEF NotYet, VersionInv
  <2>10. ids \subseteq LockfileEvidence
    OBVIOUS
  <2>11. \A m \in DOMAIN old : /\ m \in PossibleRoots /\ NodeKind[m] = "PackageVersion"
                               /\ old[m] # {} /\ old[m] \subseteq LockfileEvidence
    BY <1>1 DEF VersionInv, old
  <2> HIDE DEF ids
  <2>12. \A m \in DOMAIN f : /\ m \in PossibleRoots /\ NodeKind[m] = "PackageVersion"
                             /\ f[m] # {} /\ f[m] \subseteq LockfileEvidence
    BY <1>4, <2>3, <2>4, <2>10, <2>11
  <2>13. ~detail.cut => CertainRoots \subseteq (detail.asked \ {n}) \cup DOMAIN f
    <3>1. ~detail.cut => CertainRoots \subseteq detail.asked \cup DOMAIN old
      BY <1>1 DEF VersionInv, old
    <3> QED
      BY <2>3, <2>5, <3>1
  <2>14. VersionInv'
    BY <2>2, <2>6, <2>9, <2>12, <2>13 DEF VersionInv
  <2> QED
    BY <1>1, <2>2, <2>8, <2>14 DEF DetailInv
<1> QED
  BY <1>2, <1>3, <1>4

LEMMA ByVersionFacts ==
  ASSUME NEW S, S \subseteq Nodes
  PROVE  ByVersion(S) \in Seq(S) /\ Range(ByVersion(S)) = S
<1> DEFINE B == {p \in S \X S : VersionBefore(p[1], p[2])}
           q == ByVersion(S)
<1>1. \A m, n \in S : <<m, n>> \in B <=> VersionBefore(m, n)
  OBVIOUS
<1>2. \A n \in S : n \in Nat /\ VersionOrder[n] \in Nat
  BY GraphAssumption, VersionAssumption
<1>3. IsFiniteSet(S)
  BY GraphAssumption, FS_Subset
<1> HIDE DEF B
<1>4. StrictOrder(B, S)
  <2>1. ASSUME NEW n \in S PROVE <<n, n>> \notin B
    BY <1>1, <1>2 DEF VersionBefore
  <2>2. ASSUME NEW m \in S, NEW n \in S, m # n PROVE <<m, n>> \in B \/ <<n, m>> \in B
    BY <1>1, <1>2, <2>2 DEF VersionBefore
  <2>3. ASSUME NEW k \in S, NEW m \in S, NEW n \in S, <<k, m>> \in B, <<m, n>> \in B PROVE <<k, n>> \in B
    BY <1>1, <1>2, <2>3 DEF VersionBefore
  <2> QED
    BY <2>1, <2>2, <2>3 DEF StrictOrder
<1>5. \A n \in S : BelowIn(B, S, n) = {m \in S : VersionBefore(m, n)}
  BY <1>1 DEF BelowIn
<1> DEFINE Below(n) == {m \in S : VersionBefore(m, n)}
           size == Cardinality(S)
<1>6. q = [i \in 1..size |-> CHOOSE n \in S : Cardinality(Below(n)) = i - 1]
  BY DEF ByVersion
<1> HIDE DEF q
<1>7. \A i \in 1..size : (\E n \in S : Cardinality(Below(n)) = i - 1)
         => q[i] \in S /\ Cardinality(Below(q[i])) = i - 1
  <2> TAKE i \in 1..size
  <2>1. q[i] = CHOOSE n \in S : Cardinality(Below(n)) = i - 1
    BY <1>6
  <2> HIDE DEF Below, size
  <2> QED
    BY <2>1
<1>8. q = [i \in 1..size |-> q[i]]
  <2> DEFINE at(i) == CHOOSE n \in S : Cardinality(Below(n)) = i - 1
  <2>1. q = [i \in 1..size |-> at(i)]
    BY <1>6
  <2> HIDE DEF at, size
  <2> QED
    BY <2>1
<1>9. RankedBy(B, S, q)
  BY <1>5, <1>7, <1>8 DEF RankedBy
<1>10. q \in Seq(S) /\ Range(q) = S
  BY <1>3, <1>4, <1>9, RankFacts
<1> QED
  BY <1>10 DEF q

(* A way that begins: a version and what it names.                         *)
Beginning(exact, r) == Way(r, r, <<>>, exact[r])

LEMMA BeginningFacts ==
  ASSUME StoredInv, VersionInv, NEW r \in DOMAIN detail.exact
  PROVE  Beginning(detail.exact, r) \in Onward(GoodFound) /\ Beginning(detail.exact, r).item = Item(r, r, <<>>)
<1> DEFINE way == Beginning(detail.exact, r)
           ids == detail.exact[r]
<1>1. /\ r \in PossibleRoots /\ NodeKind[r] = "PackageVersion" /\ ids # {} /\ ids \subseteq LockfileEvidence
  BY DEF VersionInv
<1>2. way = [item |-> Item(r, r, <<>>), evidence |-> ids]
  BY DEF Beginning, Way
<1>3. PossibleGraph \in Views /\ PossibleGraph.nodes = stored.nodes /\ PossibleRoots \subseteq stored.nodes
  BY DetailViews DEF PossibleGraph
<1>4. Item(r, r, <<>>) \in DependencyWays(PossibleGraph, PossibleRoots)
  <2>1. Item(r, r, <<>>) \in Begun(PossibleGraph, PossibleRoots)
    BY <1>1, <1>3 DEF Begun
  <2> QED
    BY <1>3, <2>1, WaysFacts
<1>5. Item(r, r, <<>>).path = <<>> /\ Item(r, r, <<>>).node = r
  BY DEF Item
<1> HIDE DEF way, ids
<1>6. way.item = Item(r, r, <<>>) /\ way.evidence = ids
  BY <1>2
<1>7. DOMAIN way.item.path = {}
  BY <1>5, <1>6, EmptySequence
<1>8. way \in GoodFound
  BY <1>1, <1>2, <1>4, <1>6, <1>7 DEF GoodFound, GoodWays
<1>9. way \in Onward(GoodFound)
  BY <1>1, <1>5, <1>6, <1>8 DEF Onward
<1> QED
  BY <1>6, <1>9 DEF way

LEMMA Mapped ==
  ASSUME NEW S, NEW T, NEW q \in Seq(S), NEW r, r = [i \in DOMAIN q |-> r[i]], \A i \in DOMAIN q : r[i] \in T
  PROVE  r \in Seq(T) /\ DOMAIN r = DOMAIN q
<1>1. Len(q) \in Nat /\ DOMAIN q = 1..Len(q)
  OBVIOUS
<1>2. DOMAIN r = DOMAIN q
  OBVIOUS
<1>3. r = [i \in 1..Len(q) |-> r[i]] /\ \A i \in 1..Len(q) : r[i] \in T
  BY <1>1
<1> QED
  BY <1>1, <1>2, <1>3

LEMMA BeginTraceKeeps ==
  ASSUME DetailInv, BeginTrace, UNCHANGED graphVars
  PROVE  DetailInv'
<1> DEFINE S == DOMAIN detail.exact
           roots == ByVersion(S)
           queue == [i \in DOMAIN roots |-> Beginning(detail.exact, roots[i])]
           C == CertainGraph
           R == CertainRoots
<1>1. /\ detail.at = "version" /\ DOMAIN detail = DetailFields /\ StoredInv /\ VersionInv /\ detail.code = 0
      /\ detail.asked = {} /\ detail' = [detail EXCEPT !.at = "trace", !.queue = queue]
  BY DEF BeginTrace, DetailInv, Beginning
<1>2. S \subseteq Nodes
  BY <1>1, DetailViews DEF VersionInv, StoredInv
<1> HIDE DEF S
<1>3. roots \in Seq(S) /\ Range(roots) = S
  BY <1>2, ByVersionFacts
<1> HIDE DEF roots
<1>4. \A i \in DOMAIN roots : roots[i] \in S
  BY <1>3
<1>5. \A i \in DOMAIN roots : queue[i] = Beginning(detail.exact, roots[i])
  OBVIOUS
<1>6. \A r \in S : Beginning(detail.exact, r) \in Onward(GoodFound) /\ Beginning(detail.exact, r).item = Item(r, r, <<>>)
  BY <1>1, BeginningFacts DEF S
<1>7. queue = [i \in DOMAIN roots |-> queue[i]]
  OBVIOUS
<1> HIDE DEF queue
<1>8. \A i \in DOMAIN roots : queue[i] \in Onward(GoodFound) /\ queue[i].item = Item(roots[i], roots[i], <<>>)
  BY <1>4, <1>5, <1>6
<1>9. queue \in Seq(Onward(GoodFound)) /\ DOMAIN queue = DOMAIN roots
  BY <1>3, <1>7, <1>8, Mapped
<1>10. /\ DOMAIN detail' = DetailFields /\ detail'.at = "trace" /\ detail'.code = 0 /\ detail'.queue = queue
       /\ detail'.services = detail.services /\ detail'.cut = detail.cut
       /\ detail'.evidence = detail.evidence /\ detail'.candidate = detail.candidate
  BY <1>1 DEF DetailFields
<1>11. DOMAIN detail.services = {}
  BY <1>1, EmptySequence DEF VersionInv, NotYet
<1>12. WaysSound(detail', GoodFound)
  BY <1>9, <1>10, <1>11 DEF WaysSound
<1>13. ASSUME ~detail'.cut PROVE WaysDone(detail', {}, C, R)
  <2>1. R \subseteq S
    BY <1>1, <1>10, <1>13 DEF VersionInv, S
  <2>2. ASSUME NEW x \in Begun(C, R) PROVE x \in Queued(detail')
    <3>1. PICK r \in R : x = Item(r, r, <<>>)
      BY <2>2 DEF Begun
    <3>2. PICK i \in DOMAIN roots : roots[i] = r
      BY <1>3, <2>1, <3>1 DEF Range
    <3>3. queue[i].item = x /\ queue[i] \in Range(queue)
      BY <1>8, <1>9, <3>1, <3>2 DEF Range
    <3> QED
      BY <1>10, <3>3 DEF Queued
  <2> QED
    BY <2>2 DEF WaysDone
<1> QED
  BY <1>1, <1>10, <1>12, <1>13, StillTracing

LEMMA SeqGrows ==
  ASSUME NEW S, NEW T, S \subseteq T, NEW q \in Seq(S)
  PROVE  q \in Seq(T)
<1>1. Range(q) \subseteq T
  BY SequenceRange
<1> QED
  BY <1>1, SequenceRange

LEMMA WriteRowStays ==
  ASSUME DetailInv, detail.at # "answered", WriteRow, UNCHANGED detail
  PROVE  DetailInv'
<1>1. StoredInv /\ StoredInv' /\ RowsStay
  BY WriteRowFacts DEF DetailInv
<1>2. /\ GoodFound \subseteq GoodFound' /\ PossibleRoots \subseteq PossibleRoots'
      /\ CertainGraph'.nodes = CertainGraph.nodes /\ CertainGraph'.edges \subseteq CertainGraph.edges
      /\ CertainRoots' \subseteq CertainRoots /\ LockfileEvidence' = LockfileEvidence
      /\ CandidateVersions(stored.nodes, stored.edges) \subseteq CandidateVersions(stored.nodes, stored.edges)'
  BY <1>1, DetailGrows
<1>3. ASSUME TraceInv PROVE TraceInv'
  <2>1. WaysSound(detail, GoodFound)'
    <3>1. Onward(GoodFound) \subseteq Onward(GoodFound')
      BY <1>2 DEF Onward
    <3>2. detail.queue \in Seq(Onward(GoodFound'))
      BY <1>3, <3>1, SeqGrows DEF TraceInv, WaysSound
    <3> QED
      BY <1>2, <1>3, <3>2 DEF TraceInv, WaysSound, Onward
  <2>2. ASSUME ~detail.cut, ~detail.truncated PROVE \E D : WaysDone(detail, D, CertainGraph', CertainRoots')
    <3>1. PICK D : WaysDone(detail, D, CertainGraph, CertainRoots)
      BY <1>3, <2>2 DEF TraceInv
    <3>2. Begun(CertainGraph', CertainRoots') \subseteq Begun(CertainGraph, CertainRoots)
      BY <1>2 DEF Begun
    <3>3. \A p : Hops(CertainGraph', p) \subseteq Hops(CertainGraph, p)
      BY <1>2 DEF Hops
    <3>4. WaysDone(detail, D, CertainGraph', CertainRoots')
      BY <3>1, <3>2, <3>3 DEF WaysDone
    <3> QED
      BY <3>4
  <2>3. (~detail.cut /\ ~detail.truncated => \E D : WaysDone(detail, D, CertainGraph, CertainRoots))'
    BY <2>2 DEF WaysDone
  <2> QED
    BY <2>1, <2>3 DEF TraceInv
<1>4. ASSUME VersionInv PROVE VersionInv'
  BY <1>2, <1>4 DEF VersionInv, NotYet
<1>5. NotYet => NotYet'
  BY DEF NotYet
<1> QED
  BY <1>1, <1>3, <1>4, <1>5 DEF DetailInv

LEMMA DetailStays == DetailInv /\ UNCHANGED detailVars => DetailInv'
<1> SUFFICES ASSUME DetailInv, UNCHANGED detailVars PROVE DetailInv'
  OBVIOUS
<1>1. detail' = detail /\ UNCHANGED graphVars
  BY DEF detailVars
<1>2. /\ GoodFound' = GoodFound /\ PossibleRoots' = PossibleRoots /\ LockfileEvidence' = LockfileEvidence
      /\ CertainGraph' = CertainGraph /\ CertainRoots' = CertainRoots
  BY <1>1, SameDetail
<1>3. situation' = situation /\ stored' = stored /\ pending' = pending /\ rewritten' = rewritten
  BY <1>1 DEF graphVars
<1>4. StoredInv'
  BY <1>3 DEF DetailInv, StoredInv
<1>5. TraceInv => TraceInv'
  <2>1. WaysSound(detail, GoodFound) => WaysSound(detail, GoodFound)'
    BY <1>1, <1>2 DEF WaysSound
  <2>2. (~detail.cut /\ ~detail.truncated => \E D : WaysDone(detail, D, CertainGraph, CertainRoots)) =>
        (~detail.cut /\ ~detail.truncated => \E D : WaysDone(detail, D, CertainGraph, CertainRoots))'
    BY <1>1, <1>2 DEF WaysDone
  <2> QED
    BY <2>1, <2>2 DEF TraceInv
<1>6. CandidateVersions(stored.nodes, stored.edges)' = CandidateVersions(stored.nodes, stored.edges)
  BY <1>1, <1>3 DEF CandidateVersions
<1>7. VersionInv => VersionInv'
  BY <1>1, <1>2, <1>6 DEF VersionInv, NotYet
<1>8. ExposureIsReal => ExposureIsReal'
  <2>1. \A e : EverEdgeNames(e)' = EverEdgeNames(e)
    BY <1>3 DEF EverEdgeNames, EdgeNames, ByBatch
  <2>2. PossibleGraph' = PossibleGraph /\ Untouched' = Untouched
    BY <1>2, <1>3, <2>1 DEF PossibleGraph, Untouched
  <2>3. PossibleWays = DependencyPaths(PossibleGraph, PossibleRoots) /\ CertainWays = DependencyPaths(CertainGraph, CertainRoots)
    BY DEF PossibleWays, CertainWays, PossibleGraph, PossibleRoots, CertainGraph, CertainRoots
  <2>4. (PossibleWays = DependencyPaths(PossibleGraph, PossibleRoots) /\ CertainWays = DependencyPaths(CertainGraph, CertainRoots))'
    BY DEF PossibleWays, CertainWays, PossibleGraph, PossibleRoots, CertainGraph, CertainRoots
  <2>5. /\ DependencyPaths(PossibleGraph, PossibleRoots)' = DependencyPaths(PossibleGraph, PossibleRoots)
        /\ DependencyPaths(CertainGraph, CertainRoots)' = DependencyPaths(CertainGraph, CertainRoots)
    BY <1>2, <2>2 DEF DependencyPaths, DependencyGraph
  <2>6. PossibleWays' = PossibleWays /\ CertainWays' = CertainWays
    BY <2>3, <2>4, <2>5
  <2> QED
    BY <1>1, <1>2, <2>1, <2>6 DEF ExposureIsReal
<1>9. NotYet => NotYet'
  BY <1>1 DEF NotYet
<1> QED
  BY <1>1, <1>4, <1>5, <1>7, <1>8, <1>9 DEF DetailInv

LEMMA DetailKeeps == DetailInv /\ [DetailNext]_detailVars => DetailInv'
<1> SUFFICES ASSUME DetailInv, [DetailNext]_detailVars PROVE DetailInv'
  OBVIOUS
<1>1. CASE DetailRead
  <2>1. UNCHANGED graphVars
    BY <1>1 DEF DetailRead
  <2>2. CASE ReadFinding
    BY <2>1, <2>2, ReadFindingKeeps
  <2>3. CASE ReadPackages
    BY <2>1, <2>3, ReadPackagesKeeps
  <2>4. CASE ReadPackage
    BY <2>1, <2>4, ReadPackageKeeps
  <2>5. CASE ReadSupport
    BY <2>1, <2>5, ReadSupportKeeps
  <2>6. CASE SupportRead
    BY <2>1, <2>6, SupportReadKeeps
  <2>7. CASE ReadVersions
    BY <2>1, <2>7, ReadVersionsKeeps
  <2>8. CASE ReadVersion
    BY <2>1, <2>8, ReadVersionKeeps
  <2>9. CASE BeginTrace
    BY <2>1, <2>9, BeginTraceKeeps
  <2>10. CASE TraceWay
    BY <2>1, <2>10, TraceWayKeeps
  <2>11. CASE EndTrace
    BY <2>1, <2>11, EndTraceKeeps
  <2> QED
    BY <1>1, <2>2, <2>3, <2>4, <2>5, <2>6, <2>7, <2>8, <2>9, <2>10, <2>11 DEF DetailRead
<1>2. CASE DetailFails /\ UNCHANGED graphVars
  BY <1>2, SettleKeeps DEF DetailFails
<1>3. CASE detail.at # "answered" /\ WriteRow /\ UNCHANGED detail
  BY <1>3, WriteRowStays
<1>4. CASE UNCHANGED detailVars
  BY <1>4, DetailStays
<1> QED
  BY <1>1, <1>2, <1>3, <1>4 DEF DetailNext

LEMMA DetailBegins == DetailInit => DetailInv
<1> SUFFICES ASSUME DetailInit PROVE DetailInv
  OBVIOUS
<1>1. StoredInv
  BY HoldingFacts DEF DetailInit
<1>2. PICK lim : detail = NewDetail(lim)
  BY DEF DetailInit
<1> QED
  BY <1>1, <1>2 DEF DetailInv, NewDetail, DetailFields, NotYet

LEMMA DetailFollows == DetailInv => ExposureIsReal
BY DEF DetailInv, ExposureIsReal

-----------------------------------------------------------------------------
(* One investigation is looked at at a time.                               *)
InvestigationsInv ==
  /\ IF kind = "finding" THEN DetailInv ELSE detail.code = 0
  /\ IF kind = "package" THEN OverviewInv ELSE overview.code = 0

LEMMA InvestigationsKeep == InvestigationsInv /\ [RoutesNext]_routeVars => InvestigationsInv'
<1> SUFFICES ASSUME InvestigationsInv, [RoutesNext]_routeVars PROVE InvestigationsInv'
  OBVIOUS
<1>1. CASE kind \notin {"finding", "package"} /\ UNCHANGED <<kind, rowVars>>
  BY <1>1 DEF InvestigationsInv, rowVars
<1>2. CASE kind = "finding" /\ DetailNext /\ UNCHANGED <<kind, overview>>
  <2>1. DetailInv'
    BY <1>2, DetailKeeps DEF InvestigationsInv
  <2> QED
    BY <1>2, <2>1 DEF InvestigationsInv
<1>3. CASE kind = "package" /\ OverviewNext /\ UNCHANGED <<kind, detail>>
  <2>1. OverviewInv'
    BY <1>3, OverviewKeeps DEF InvestigationsInv
  <2> QED
    BY <1>3, <2>1 DEF InvestigationsInv
<1>4. CASE UNCHANGED routeVars
  <2>1. UNCHANGED <<kind, detail, overview, detailVars, overviewVars>>
    BY <1>4 DEF routeVars, rowVars, detailVars, overviewVars
  <2>2. CASE kind = "finding"
    BY <2>1, <2>2, DetailKeeps DEF InvestigationsInv
  <2>3. CASE kind = "package"
    BY <2>1, <2>3, OverviewKeeps DEF InvestigationsInv
  <2>4. CASE kind \notin {"finding", "package"}
    BY <2>1, <2>4 DEF InvestigationsInv
  <2> QED
    BY <2>2, <2>3, <2>4
<1> QED
  BY <1>1, <1>2, <1>3, <1>4 DEF RoutesNext

LEMMA InvestigationsBegin == RoutesInit => InvestigationsInv
<1> SUFFICES ASSUME RoutesInit PROVE InvestigationsInv
  OBVIOUS
<1>1. DetailIdle => detail.code = 0
  BY DEF DetailIdle, NewDetail
<1>2. OverviewIdle => overview.code = 0
  BY DEF OverviewIdle, NewOverview
<1> QED
  BY <1>1, <1>2, DetailBegins, OverviewBegins DEF RoutesInit, InvestigationsInv

LEMMA InvestigationsFollow == InvestigationsInv => InvestigationsAreReal
<1> SUFFICES ASSUME InvestigationsInv PROVE InvestigationsAreReal
  OBVIOUS
<1>1. detail.code = 0 => ExposureIsReal
  BY DEF ExposureIsReal
<1>2. overview.code = 0 => OverviewIsBounded
  BY DEF OverviewIsBounded
<1> QED
  BY <1>1, <1>2, DetailFollows, OverviewFollows DEF InvestigationsInv, InvestigationsAreReal

(* Whatever a writer does between the statements of an investigation: a    *)
(* service is shown with a way of hops that all name the lockfile of the   *)
(* finding, and no such way that was there all the time is left out        *)
(* without saying so; the lists of a package hold what belongs there,      *)
(* once, and leave nothing out of what was there except at their limit.    *)
THEOREM InvestigationsAlways == RoutesSpec => []InvestigationsAreReal
BY InvestigationsBegin, InvestigationsKeep, InvestigationsFollow, PTL DEF RoutesSpec

=============================================================================
