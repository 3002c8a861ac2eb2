------------------------- MODULE ReleaseFirewallProofs -------------------------
(***************************************************************************)
(* Proofs about the store of release influence and the firewall that       *)
(* evaluates what it reads of it.                                          *)
(*                                                                         *)
(* The store: five statements without a transaction, of any number of      *)
(* rivals, answered, late, lost or never sent, leave a snapshot that is    *)
(* one call's input or is not ready.                                       *)
(*                                                                         *)
(* The firewall: a walk back from a release with a queue and five limits   *)
(* gives the verdict that the ways to the release call for, or says that   *)
(* it was cut short and does not allow.                                    *)
(***************************************************************************)
EXTENDS ReleaseInfluenceStore, FiniteSetTheorems, WellFoundedInduction, TLAPS

-----------------------------------------------------------------------------
(* Numbers, sequences and the order of a set.                              *)

LEMMA LeastNumber ==
  ASSUME NEW T, T \subseteq Nat, T # {}
  PROVE  \E x \in T : \A y \in T : x <= y
<1>1. IsWellFoundedOn(OpToRel(<, Nat), Nat)
  BY NatLessThanWellFounded
<1>2. PICK x \in T : \A y \in T : ~(<<y, x>> \in OpToRel(<, Nat))
  BY <1>1, WFMin
<1>3. \A y \in T : ~(y < x)
  BY <1>2 DEF OpToRel
<1> QED
  BY <1>3

(* What holds of 0 and passes from each number to the next holds of all up *)
(* to a bound.                                                             *)
LEMMA UpTo ==
  ASSUME NEW n \in Nat, NEW G, 0 \in G, \A k \in 0..n : k \in G /\ k < n => k + 1 \in G
  PROVE  0..n \subseteq G
<1> DEFINE Bad == {k \in 0..n : k \notin G}
<1>1. Bad = {}
  <2> SUFFICES ASSUME Bad # {} PROVE FALSE
    OBVIOUS
  <2>0. Bad \subseteq Nat
    OBVIOUS
  <2>1. PICK x \in Bad : \A y \in Bad : x <= y
    <3> HIDE DEF Bad
    <3> QED
      BY <2>0, LeastNumber
  <2>2. x # 0 /\ x \in 0..n
    BY <2>1
  <2>3. x - 1 \in 0..n /\ x - 1 < n /\ x - 1 \notin Bad
    BY <2>1, <2>2
  <2>4. x - 1 + 1 \in G
    BY <2>3
  <2> QED
    BY <2>1, <2>2, <2>4
<1> QED
  BY <1>1

LEMMA AppendFacts ==
  ASSUME NEW S, NEW q \in Seq(S), NEW x \in S
  PROVE  /\ Append(q, x) \in Seq(S) /\ Append(q, x) # <<>>
         /\ Len(Append(q, x)) = Len(q) + 1
         /\ Range(Append(q, x)) = Range(q) \cup {x}
<1>1. /\ Append(q, x) \in Seq(S) /\ Len(Append(q, x)) = Len(q) + 1 /\ Len(q) \in Nat
      /\ DOMAIN q = 1..Len(q) /\ DOMAIN Append(q, x) = 1..(Len(q) + 1)
      /\ \A i \in 1..Len(q) : Append(q, x)[i] = q[i]
      /\ Append(q, x)[Len(q) + 1] = x
  OBVIOUS
<1>2. Range(q) = {q[i] : i \in 1..Len(q)}
  BY <1>1 DEF Range
<1>3. Range(Append(q, x)) = {Append(q, x)[i] : i \in 1..(Len(q) + 1)}
  BY <1>1 DEF Range
<1>4. 1..(Len(q) + 1) = 1..Len(q) \cup {Len(q) + 1}
  BY <1>1
<1>5. Range(Append(q, x)) \subseteq Range(q) \cup {x}
  BY <1>1, <1>2, <1>3, <1>4
<1>6. Range(q) \cup {x} \subseteq Range(Append(q, x))
  BY <1>1, <1>2, <1>3, <1>4
<1> QED
  BY <1>1, <1>5, <1>6

LEMMA TailFacts ==
  ASSUME NEW S, NEW q \in Seq(S), q # <<>>
  PROVE  /\ Tail(q) \in Seq(S) /\ Head(q) \in S
         /\ Range(q) = {Head(q)} \cup Range(Tail(q))
<1>1. /\ Tail(q) \in Seq(S) /\ Len(q) = Len(Tail(q)) + 1 /\ Len(q) \in Nat \ {0} /\ Len(Tail(q)) \in Nat
      /\ DOMAIN q = 1..Len(q) /\ DOMAIN Tail(q) = 1..Len(Tail(q))
      /\ \A i \in 1..Len(Tail(q)) : Tail(q)[i] = q[i + 1]
      /\ Head(q) = q[1] /\ Head(q) \in S
  OBVIOUS
<1>2. Range(q) \subseteq {Head(q)} \cup Range(Tail(q))
  <2> SUFFICES ASSUME NEW i \in 1..Len(q) PROVE q[i] \in {Head(q)} \cup Range(Tail(q))
    BY <1>1 DEF Range
  <2>1. CASE i = 1
    BY <2>1, <1>1
  <2>2. CASE i # 1
    <3>1. i - 1 \in 1..Len(Tail(q)) /\ (i - 1) + 1 = i
      BY <2>2, <1>1
    <3>2. Tail(q)[i - 1] = q[i]
      BY <3>1, <1>1
    <3> QED
      BY <3>1, <3>2, <1>1 DEF Range
  <2> QED
    BY <2>1, <2>2
<1>3. {Head(q)} \cup Range(Tail(q)) \subseteq Range(q)
  <2>1. 1 \in DOMAIN q /\ \A i \in 1..Len(Tail(q)) : i + 1 \in DOMAIN q
    BY <1>1
  <2> QED
    BY <2>1, <1>1 DEF Range
<1> QED
  BY <1>1, <1>2, <1>3

LEMMA EmptySequence == Range(<<>>) = {} /\ (\A S : <<>> \in Seq(S)) /\ Len(<<>>) = 0 /\ DOMAIN <<>> = {}
<1>1. DOMAIN <<>> = {}
  OBVIOUS
<1> QED
  BY <1>1 DEF Range

LEMMA SequenceRange ==
  ASSUME NEW S, NEW q \in Seq(S)
  PROVE  /\ Range(q) \subseteq S
         /\ \A T : Range(q) \subseteq T => q \in Seq(T)
<1>1. Len(q) \in Nat /\ DOMAIN q = 1..Len(q) /\ q = [i \in 1..Len(q) |-> q[i]]
      /\ \A i \in 1..Len(q) : q[i] \in S
  OBVIOUS
<1>2. Range(q) \subseteq S
  BY <1>1 DEF Range
<1>3. ASSUME NEW T, Range(q) \subseteq T PROVE q \in Seq(T)
  <2>1. \A i \in 1..Len(q) : q[i] \in T
    BY <1>1, <1>3 DEF Range
  <2>2. q \in [1..Len(q) -> T]
    BY <1>1, <2>1
  <2> QED
    BY <1>1, <2>2
<1> QED
  BY <1>2, <1>3

(* A subset is no larger, and smaller when something is missing.           *)
LEMMA SubsetSize ==
  ASSUME NEW S, IsFiniteSet(S), NEW T, T \subseteq S
  PROVE  /\ IsFiniteSet(T) /\ Cardinality(T) \in Nat /\ Cardinality(S) \in Nat
         /\ Cardinality(T) <= Cardinality(S)
         /\ T # S => Cardinality(T) < Cardinality(S)
<1>1. T \in SUBSET S
  OBVIOUS
<1>2. /\ IsFiniteSet(T) /\ Cardinality(T) <= Cardinality(S)
      /\ Cardinality(S) = Cardinality(T) => S = T
  BY <1>1, FS_Subset
<1>3. Cardinality(T) \in Nat /\ Cardinality(S) \in Nat
  BY <1>2, FS_CardinalityType
<1> QED
  BY <1>2, <1>3

(* A strict order of a finite set lists it, each of its members once.      *)
OnceOnly(q) == \A i, j \in DOMAIN q : q[i] = q[j] => i = j
StrictOrder(B, S) ==
  /\ \A n \in S : <<n, n>> \notin B
  /\ \A m, n \in S : m # n => <<m, n>> \in B \/ <<n, m>> \in B
  /\ \A k, m, n \in S : <<k, m>> \in B /\ <<m, n>> \in B => <<k, n>> \in B
BelowIn(B, S, n) == {m \in S : <<m, n>> \in B}
RankedBy(B, S, q) ==
  /\ q = [i \in 1..Cardinality(S) |-> q[i]]
  /\ \A i \in 1..Cardinality(S) : (\E n \in S : Cardinality(BelowIn(B, S, n)) = i - 1)
        => q[i] \in S /\ Cardinality(BelowIn(B, S, q[i])) = i - 1

LEMMA RankFacts ==
  ASSUME NEW S, IsFiniteSet(S), NEW B, StrictOrder(B, S), NEW q, RankedBy(B, S, q)
  PROVE  q \in Seq(S) /\ Range(q) = S /\ Len(q) = Cardinality(S) /\ OnceOnly(q)
<1> DEFINE Below(n) == BelowIn(B, S, n)
           rank == [n \in S |-> Cardinality(Below(n))]
           size == Cardinality(S)
<1>1. \A n \in S : IsFiniteSet(Below(n)) /\ rank[n] \in Nat /\ rank[n] < size
  <2> TAKE n \in S
  <2>1. Below(n) \subseteq S /\ Below(n) # S
    BY DEF StrictOrder, BelowIn
  <2> HIDE DEF Below
  <2> QED
    BY <2>1, SubsetSize
<1>2. \A m, n \in S : <<m, n>> \in B => rank[m] < rank[n]
  <2> SUFFICES ASSUME NEW m \in S, NEW n \in S, <<m, n>> \in B PROVE rank[m] < rank[n]
    OBVIOUS
  <2>1. Below(m) \subseteq Below(n) /\ m \in Below(n) /\ m \notin Below(m)
    BY DEF StrictOrder, BelowIn
  <2>2. IsFiniteSet(Below(n)) /\ Below(m) # Below(n)
    BY <1>1, <2>1
  <2> HIDE DEF Below
  <2> QED
    BY <2>1, <2>2, SubsetSize
<1>3. \A m, n \in S : rank[m] = rank[n] => m = n
  <2> SUFFICES ASSUME NEW m \in S, NEW n \in S, rank[m] = rank[n], m # n PROVE FALSE
    OBVIOUS
  <2>1. <<m, n>> \in B \/ <<n, m>> \in B
    BY DEF StrictOrder
  <2>2. rank[m] \in Nat /\ rank[n] \in Nat
    BY <1>1
  <2>3. rank[m] < rank[n] \/ rank[n] < rank[m]
    BY <1>2, <2>1
  <2> HIDE DEF rank
  <2> QED
    BY <2>2, <2>3
<1>4. size \in Nat
  BY FS_CardinalityType
<1> DEFINE Ranks == 0..(size - 1)
<1>5. rank \in [S -> Ranks]
  BY <1>1, <1>4
<1>6. IsFiniteSet(Ranks) /\ Cardinality(Ranks) = size
  <2> HIDE DEF size
  <2> QED
    BY <1>4, FS_Interval
<1>7. rank \in Injection(S, Ranks)
  <2> HIDE DEF rank, Ranks
  <2> QED
    BY <1>3, <1>5 DEF Injection, IsInjective
<1>8. rank \in Surjection(S, Ranks)
  <2> HIDE DEF rank, Ranks
  <2> QED
    BY <1>6, <1>7, FS_Injection
<1>9. \A k \in Ranks : \E n \in S : rank[n] = k
  <2> HIDE DEF rank, Ranks
  <2> QED
    BY <1>8 DEF Surjection
<1>10. /\ q = [i \in 1..size |-> q[i]]
       /\ \A i \in 1..size : (\E n \in S : rank[n] = i - 1) => q[i] \in S /\ rank[q[i]] = i - 1
  BY DEF RankedBy
<1>11. \A i \in 1..size : q[i] \in S /\ rank[q[i]] = i - 1
  <2> TAKE i \in 1..size
  <2>1. i - 1 \in Ranks
    BY <1>4
  <2>2. \E n \in S : rank[n] = i - 1
    BY <1>9, <2>1
  <2> HIDE DEF rank, size
  <2> QED
    BY <1>10, <2>2
<1>12. q \in [1..size -> S]
  <2> HIDE DEF Below, size, rank
  <2> QED
    BY <1>10, <1>11
<1>13. q \in Seq(S) /\ DOMAIN q = 1..size /\ Len(q) = size
  <2> HIDE DEF size
  <2> QED
    BY <1>4, <1>12
<1>14. S \subseteq Range(q)
  <2> SUFFICES ASSUME NEW n \in S PROVE \E i \in 1..size : q[i] = n
    BY <1>13 DEF Range
  <2>1. rank[n] + 1 \in 1..size /\ (rank[n] + 1) - 1 = rank[n]
    <3>1. rank[n] \in Nat /\ rank[n] < size
      BY <1>1
    <3> HIDE DEF rank, size
    <3> QED
      BY <1>4, <3>1
  <2>2. q[rank[n] + 1] = n
    <3> HIDE DEF rank, size
    <3> QED
      BY <1>3, <1>11, <2>1
  <2> HIDE DEF rank, size
  <2> QED
    BY <2>1, <2>2
<1>15. OnceOnly(q)
  <2> SUFFICES ASSUME NEW i \in 1..size, NEW j \in 1..size, q[i] = q[j] PROVE i = j
    BY <1>13 DEF OnceOnly
  <2>1. i - 1 = j - 1
    BY <1>11
  <2> HIDE DEF size
  <2> QED
    BY <1>4, <2>1
<1> QED
  BY <1>13, <1>14, <1>15, SequenceRange


-----------------------------------------------------------------------------
(* The inductive invariant.  SnapshotIsWhole speaks of snapshots that are  *)
(* ready; what makes it hold is that every statement that is outstanding,  *)
(* the next one of a writer or a late one, is `Backed` by what its         *)
(* predecessors have done, and that nobody but the holder has rows.        *)
Known(w) == w \in Writers /\ w \in DOMAIN case.input /\ Valid(Input(w))
Holder(w) == snapshot.state # "absent" /\ snapshot.token = w
AllNodes(w) == entities = Rows(w, Input(w).nodes)
AllEdges(w) == edges = Rows(w, Input(w).edges)

Backed(w, statement) ==
  /\ Known(w)
  /\ statement # "claim" => Holder(w)
  /\ statement \in {"edges", "finalize"} => AllNodes(w)
  /\ statement = "finalize" => AllEdges(w)

Metadata(w) ==
  [state |-> snapshot.state, token |-> w, nodes |-> Cardinality(Input(w).nodes),
   edges |-> Cardinality(Input(w).edges), releases |-> Input(w).releases]

SnapshotInv ==
  /\ snapshot.state \in {"absent", "writing", "ready", "failed"}
  /\ snapshot.state = "absent" => snapshot = NoSnapshot /\ entities = {} /\ edges = {}
  /\ snapshot.state # "absent" =>
       /\ Known(snapshot.token) /\ snapshot = Metadata(snapshot.token)
       /\ entities \subseteq Rows(snapshot.token, Input(snapshot.token).nodes)
       /\ edges \subseteq Rows(snapshot.token, Input(snapshot.token).edges)
  /\ snapshot.state = "ready" => AllNodes(snapshot.token) /\ AllEdges(snapshot.token)

Outcomes == {"none", "refused", "SNAPSHOT_EXISTS", "DATABASE_RESULT_INVALID",
             "DATABASE_QUERY_FAILED", "ready", "stopped"}

WriterInv ==
  /\ case \in Cases
  /\ writer \in [Writers -> [at : Statements \cup {"idle", "begin", "ended"}, outcome : Outcomes]]
  /\ \A w \in Writers :
       /\ writer[w].at = "begin" => w \in DOMAIN case.input
       /\ writer[w].at \in Statements => Backed(w, writer[w].at)
       /\ writer[w].outcome = "ready" => snapshot.state = "ready" /\ snapshot.token = w
  /\ late \subseteq Writers \X Statements
  /\ \A l \in late : Backed(l[1], l[2])

(* A snapshot that is ready changes no more, so that what a reader has     *)
(* read of it is what is stored.                                           *)
ReaderInv ==
  /\ reader = [at |-> reader.at, left |-> reader.left, state |-> reader.state,
               counts |-> reader.counts, nodes |-> reader.nodes, edges |-> reader.edges, reply |-> reader.reply]
  /\ reader.at \in {"snapshot", "rows", "answered"}
  /\ reader.left \subseteq {"nodes", "edges"}
  /\ reader.at = "snapshot" => reader.left = {"nodes", "edges"}
  /\ reader.at # "answered" => reader.reply = [code |-> 0, cause |-> "none"]
  /\ reader.at = "rows" =>
       /\ snapshot.state = "ready" /\ reader.state = "ready"
       /\ reader.counts = [nodes |-> snapshot.nodes, edges |-> snapshot.edges,
                           releases |-> snapshot.releases]
       /\ "nodes" \notin reader.left => reader.nodes = entities
       /\ "edges" \notin reader.left => reader.edges = edges
  /\ reader.reply.code = 200 => snapshot.state = "ready"

StoreInv == SnapshotInv /\ WriterInv /\ ReaderInv /\ ReadIsOnePersist

-----------------------------------------------------------------------------
(* Rows of one writer are as many as the things they hold, and hold those. *)
LEMMA RowsFacts ==
  ASSUME NEW w, NEW S, IsFiniteSet(S)
  PROVE  Cardinality(Rows(w, S)) = Cardinality(S) /\ Contents(Rows(w, S)) = S
<1> DEFINE f == [x \in S |-> <<w, x>>]
<1>1. f \in Bijection(S, Rows(w, S))
  <2>1. f \in [S -> Rows(w, S)]
    BY DEF Rows
  <2>2. IsInjective(f)
    BY DEF IsInjective
  <2>3. \A row \in Rows(w, S) : \E x \in S : f[x] = row
    BY DEF Rows
  <2> QED  BY <2>1, <2>2, <2>3 DEF Bijection, Injection, Surjection
<1>2. Cardinality(Rows(w, S)) = Cardinality(S)
  BY <1>1, FS_Bijection DEF ExistsBijection
<1>3. \A x \in S : <<w, x>> \in Rows(w, S) /\ <<w, x>>[2] = x
  BY DEF Rows
<1>4. \A row \in Rows(w, S) : row[2] \in S
  BY DEF Rows
<1>5. Contents(Rows(w, S)) = S
  BY <1>3, <1>4, Zenon DEF Contents
<1> QED  BY <1>2, <1>5

(* Validation looks at nothing but the three parts of an input.            *)
LEMMA ValidSame ==
  ASSUME NEW a, NEW b, Valid(a),
         b.nodes = a.nodes, b.edges = a.edges, b.releases = a.releases
  PROVE  Valid(b)
<1>1. \A id : Node(b, id) = Node(a, id)
  BY DEF Node
<1> QED  BY <1>1 DEF Valid

-----------------------------------------------------------------------------
(* What a statement does when it is executed, by its writer or late.       *)
LEMMA ClaimEffect ==
  ASSUME NEW w \in Writers, SnapshotInv, Backed(w, "claim"), case' = case,
         Claim(w), UNCHANGED <<entities, edges>>
  PROVE  /\ SnapshotInv'
         /\ \A v, s : Backed(v, s) => Backed(v, s)'
         /\ snapshot.state = "ready" => UNCHANGED <<snapshot, entities, edges>>
<1>1. CASE snapshot.state # "absent"
  BY <1>1 DEF Claim, SnapshotInv, Backed, Known, Holder, AllNodes, AllEdges, Metadata, Input, Rows
<1>2. CASE snapshot.state = "absent"
  <2>1. /\ snapshot' = [state |-> "writing", token |-> w, nodes |-> Cardinality(Input(w).nodes),
                        edges |-> Cardinality(Input(w).edges), releases |-> Input(w).releases]
        /\ entities' = {} /\ edges' = {}
    BY <1>2 DEF Claim, SnapshotInv
  <2>2. Known(w)'
    BY DEF Backed, Known, Input
  <2>3. snapshot' = Metadata(w)'
    BY <2>1 DEF Metadata, Input
  <2>4. SnapshotInv'
    BY <2>1, <2>2, <2>3 DEF SnapshotInv
  <2>5. \A v, s : Backed(v, s) => Backed(v, s)'
    BY <1>2, <2>1 DEF Backed, Known, Holder, AllNodes, AllEdges, Input
  <2> QED  BY <1>2, <2>4, <2>5
<1> QED  BY <1>1, <1>2

LEMMA NodesEffect ==
  ASSUME NEW w \in Writers, SnapshotInv, Backed(w, "nodes"), case' = case,
         WriteNodes(w), UNCHANGED <<snapshot, edges>>
  PROVE  /\ SnapshotInv'
         /\ \A v, s : Backed(v, s) => Backed(v, s)'
         /\ snapshot.state = "ready" => UNCHANGED <<snapshot, entities, edges>>
         /\ Owns(w) => AllNodes(w)'
<1> USE DEF Known, Holder, AllNodes, AllEdges, Metadata, Input
<1>1. CASE ~Owns(w)
  BY <1>1 DEF WriteNodes, SnapshotInv, Backed, Owns
<1>2. CASE Owns(w)
  <2>1. entities' = Rows(w, Input(w).nodes)
    BY <1>2 DEF WriteNodes, Owns, SnapshotInv
  <2> QED  BY <1>2, <2>1 DEF Owns, SnapshotInv, Backed
<1> QED  BY <1>1, <1>2

LEMMA EdgesEffect ==
  ASSUME NEW w \in Writers, SnapshotInv, Backed(w, "edges"), case' = case,
         WriteEdges(w), UNCHANGED <<snapshot, entities>>
  PROVE  /\ SnapshotInv'
         /\ \A v, s : Backed(v, s) => Backed(v, s)'
         /\ snapshot.state = "ready" => UNCHANGED <<snapshot, entities, edges>>
         /\ Joined(w) = Input(w).edges => AllEdges(w)'
<1> USE DEF Known, Holder, AllNodes, AllEdges, Metadata, Input
<1>1. Rows(w, Joined(w)) \subseteq Rows(w, Input(w).edges)
  BY DEF Joined, Rows
<1>2. /\ edges \subseteq edges'
      /\ edges' \subseteq Rows(w, Input(w).edges)
  BY <1>1 DEF WriteEdges, SnapshotInv, Backed
<1>3. Joined(w) = Input(w).edges => edges' = Rows(w, Input(w).edges)
  BY <1>2 DEF WriteEdges
<1>4. edges = Rows(w, Input(w).edges) => edges' = edges
  BY <1>2
<1>5. \A v, s : Backed(v, s) => Backed(v, s)'
  BY <1>4 DEF Backed
<1>6. snapshot.state = "ready" => edges' = edges
  BY <1>4 DEF SnapshotInv, Backed
<1>7. SnapshotInv'
  BY <1>2, <1>6 DEF SnapshotInv, Backed
<1> QED  BY <1>3, <1>5, <1>6, <1>7

LEMMA BecomeEffect ==
  ASSUME NEW w \in Writers, NEW s \in {"finalize", "fail"}, SnapshotInv, Backed(w, s),
         case' = case, UNCHANGED <<entities, edges>>,
         Become(w, IF s = "finalize" THEN "ready" ELSE "failed")
  PROVE  /\ SnapshotInv'
         /\ \A v, r : Backed(v, r) => Backed(v, r)'
         /\ snapshot.state = "ready" => UNCHANGED <<snapshot, entities, edges>>
         /\ Owns(w) /\ s = "finalize" => snapshot'.state = "ready" /\ snapshot'.token = w
<1> USE DEF Known, Holder, AllNodes, AllEdges, Metadata, Input
<1>1. CASE ~Owns(w)
  BY <1>1 DEF Become, SnapshotInv, Backed, Owns
<1>2. CASE Owns(w)
  <2>1. snapshot = Metadata(w) /\ snapshot.token = w /\ snapshot.state = "writing"
    BY <1>2 DEF Owns, SnapshotInv
  <2>2. snapshot' = [Metadata(w) EXCEPT !.state = IF s = "finalize" THEN "ready" ELSE "failed"]
    BY <1>2, <2>1 DEF Become
  <2>3. /\ snapshot'.state = IF s = "finalize" THEN "ready" ELSE "failed"
        /\ snapshot'.token = w /\ snapshot' = Metadata(w)'
    BY <2>2
  <2>4. SnapshotInv'
    BY <2>1, <2>3 DEF SnapshotInv, Backed
  <2>5. \A v, r : Backed(v, r) => Backed(v, r)'
    BY <2>1, <2>3 DEF Backed
  <2> QED  BY <2>1, <2>3, <2>4, <2>5
<1> QED  BY <1>1, <1>2

(* All of them: nothing is taken from what others build on, and a snapshot *)
(* that is ready is left alone.                                            *)
LEMMA ExecuteEffect ==
  ASSUME NEW w \in Writers, NEW s \in Statements, SnapshotInv, Backed(w, s),
         case' = case, Execute(w, s)
  PROVE  /\ SnapshotInv'
         /\ \A v, r : Backed(v, r) => Backed(v, r)'
         /\ snapshot.state = "ready" => UNCHANGED <<snapshot, entities, edges>>
<1>1. CASE s = "claim"
  BY <1>1, ClaimEffect DEF Execute
<1>2. CASE s = "nodes"
  BY <1>2, NodesEffect DEF Execute
<1>3. CASE s = "edges"
  BY <1>3, EdgesEffect DEF Execute
<1>4. CASE s = "finalize"
  BY <1>4, BecomeEffect DEF Execute
<1>5. CASE s = "fail"
  BY <1>5, BecomeEffect DEF Execute
<1> QED  BY <1>1, <1>2, <1>3, <1>4, <1>5 DEF Statements

-----------------------------------------------------------------------------
(* The invariant, action by action.                                        *)
LEMMA StoreInvInit == StoreInit => StoreInv
<1> SUFFICES ASSUME StoreInit PROVE StoreInv
  OBVIOUS
<1>1. SnapshotInv
  BY DEF StoreInit, SnapshotInv, NoSnapshot
<1>2. WriterInv
  <2>1. writer \in [Writers -> [at : Statements \cup {"idle", "begin", "ended"}, outcome : Outcomes]]
    <3>1. \A w \in Writers : (IF w \in DOMAIN case.input THEN "begin" ELSE "idle")
                                \in Statements \cup {"idle", "begin", "ended"}
      OBVIOUS
    <3>2. \A w \in Writers : writer[w] \in [at : Statements \cup {"idle", "begin", "ended"},
                                            outcome : Outcomes]
      BY <3>1 DEF StoreInit, Statements, Outcomes
    <3> QED  BY <3>2 DEF StoreInit
  <2>2. ASSUME NEW w \in Writers
        PROVE  /\ writer[w].at \in {"idle", "begin"}
               /\ writer[w].at = "begin" => w \in DOMAIN case.input
               /\ writer[w].outcome = "none"
    BY DEF StoreInit
  <2> QED  BY <2>1, <2>2 DEF StoreInit, WriterInv, Statements
<1>3. ReaderInv /\ ReadIsOnePersist
  BY DEF StoreInit, ReaderInv, ReadIsOnePersist, NewReader
<1> QED  BY <1>1, <1>2, <1>3 DEF StoreInv

(* What a reader has read outlives every step that leaves a ready snapshot *)
(* alone.                                                                  *)
LEMMA ReaderKeeps ==
  ASSUME ReaderInv, ReadIsOnePersist, UNCHANGED <<case, reader>>,
         snapshot.state = "ready" => UNCHANGED <<snapshot, entities, edges>>
  PROVE  ReaderInv' /\ ReadIsOnePersist'
<1>1. ReaderInv'
  BY DEF ReaderInv
<1>2. ReadIsOnePersist'
  BY DEF ReaderInv, ReadIsOnePersist, Input
<1> QED  BY <1>1, <1>2

(* What the other writers and the late statements have, they keep.         *)
LEMMA OthersKeep ==
  ASSUME NEW w \in Writers, WriterInv, case' = case,
         \A v, r : Backed(v, r) => Backed(v, r)',
         snapshot.state = "ready" => UNCHANGED snapshot,
         NEW at \in Statements \cup {"idle", "begin", "ended"}, NEW outcome \in Outcomes,
         writer' = [writer EXCEPT ![w] = [at |-> at, outcome |-> outcome]],
         late' \subseteq Writers \X Statements,
         \A l \in late' : l \in late \/ Backed(l[1], l[2]),
         at # "begin",
         at \in Statements => Backed(w, at)',
         outcome = "ready" => snapshot'.state = "ready" /\ snapshot'.token = w
  PROVE  WriterInv'
<1>1. writer' \in [Writers -> [at : Statements \cup {"idle", "begin", "ended"}, outcome : Outcomes]]
  BY DEF WriterInv
<1>2. ASSUME NEW v \in Writers
      PROVE  /\ writer'[v].at = "begin" => v \in DOMAIN case.input
             /\ writer'[v].at \in Statements => Backed(v, writer[v].at)'
             /\ writer'[v].outcome = "ready" => snapshot'.state = "ready" /\ snapshot'.token = v
  <2>1. CASE v = w
    <3>1. writer'[v] = [at |-> at, outcome |-> outcome]
      BY <2>1 DEF WriterInv
    <3> QED  BY <2>1, <3>1
  <2>2. CASE v # w
    <3>1. writer'[v] = writer[v]
      BY <2>2 DEF WriterInv
    <3> QED  BY <3>1 DEF WriterInv
  <2> QED  BY <2>1, <2>2
<1>3. \A l \in late' : Backed(l[1], l[2])'
  BY DEF WriterInv
<1> QED  BY <1>1, <1>2, <1>3 DEF WriterInv

(* The writer whose statement was answered has what its next one needs.    *)
LEMMA AcknowledgedKeeps ==
  ASSUME NEW w \in Writers, StoreInv, Acknowledged(w)
  PROVE  StoreInv'
<1> DEFINE s == writer[w].at
<1>1. /\ SnapshotInv /\ WriterInv /\ ReaderInv /\ ReadIsOnePersist
      /\ s \in Statements /\ Execute(w, s) /\ UNCHANGED <<case, late, reader>>
  BY DEF StoreInv, Acknowledged
<1>2. Backed(w, s)
  BY <1>1 DEF WriterInv
<1>3. /\ SnapshotInv'
      /\ \A v, r : Backed(v, r) => Backed(v, r)'
      /\ snapshot.state = "ready" => UNCHANGED <<snapshot, entities, edges>>
  BY <1>1, <1>2, ExecuteEffect
<1>4. ReaderInv' /\ ReadIsOnePersist'
  BY <1>1, <1>3, ReaderKeeps
<1>5. /\ writer[w] \in [at : Statements \cup {"idle", "begin", "ended"}, outcome : Outcomes]
      /\ writer[w] = [at |-> s, outcome |-> writer[w].outcome]
      /\ late \subseteq Writers \X Statements
      /\ writer[w].outcome = "ready" => snapshot.state = "ready" /\ snapshot.token = w
  BY <1>1 DEF WriterInv
<1> HIDE DEF s
<1>6. ASSUME NEW at \in Statements \cup {"idle", "ended"}, NEW outcome \in Outcomes,
             writer' = [writer EXCEPT ![w] = [at |-> at, outcome |-> outcome]],
             at \in Statements => Backed(w, at)',
             outcome = "ready" => snapshot'.state = "ready" /\ snapshot'.token = w
      PROVE  WriterInv'
  <2>1. at \in Statements \cup {"idle", "begin", "ended"} /\ at # "begin"
    BY DEF Statements
  <2> QED  BY <1>1, <1>3, <1>5, <1>6, <2>1, OthersKeep
<1> SUFFICES WriterInv'
  BY <1>3, <1>4 DEF StoreInv
<1>7. CASE s = "claim"
  <2>1. CASE Claimed(w)
    <3>1. writer' = [writer EXCEPT ![w] = [at |-> "nodes", outcome |-> writer[w].outcome]]
      BY <1>1, <1>5, <1>7, <2>1 DEF Acknowledged, Goes, s
    <3>2. Backed(w, "nodes")'
      BY <1>2, <1>3, <2>1 DEF Backed, Holder, Claimed
    <3> QED  BY <1>3, <1>5, <1>6, <3>1, <3>2 DEF Statements, Outcomes
  <2>2. CASE ~Claimed(w)
    <3>1. writer' = [writer EXCEPT ![w] = [at |-> "ended", outcome |-> "SNAPSHOT_EXISTS"]]
      BY <1>1, <1>7, <2>2 DEF Acknowledged, Ends, s
    <3> QED  BY <1>6, <3>1 DEF Statements, Outcomes
  <2> QED  BY <2>1, <2>2
<1>8. ASSUME NEW outcome \in Outcomes, outcome # "ready", WriteFails(w, outcome),
             s \in {"nodes", "edges", "finalize"}
      PROVE  WriterInv'
  <2>1. writer' = [writer EXCEPT ![w] = [at |-> "fail", outcome |-> outcome]]
    BY <1>8 DEF WriteFails, s
  <2>2. Backed(w, "fail")'
    BY <1>2, <1>3, <1>8 DEF Backed
  <2> QED  BY <1>6, <1>8, <2>1, <2>2 DEF Statements
<1>9. CASE s = "nodes"
  <2>1. CASE Owns(w)
    <3>1. writer' = [writer EXCEPT ![w] = [at |-> AfterNodes(w), outcome |-> writer[w].outcome]]
      BY <1>1, <1>5, <1>9, <2>1 DEF Acknowledged, Goes, s
    <3>2. AllNodes(w)'
      BY <1>1, <1>2, <1>9, <2>1, NodesEffect DEF Execute
    <3>3. Backed(w, "edges")' /\ AfterNodes(w) \in {"edges", "finalize"}
      BY <1>2, <1>3, <1>9, <3>2 DEF Backed, AfterNodes
    <3>4. Input(w).edges = {} => edges' = {} /\ AllEdges(w)'
      BY <1>1, <1>2, <1>9, <2>1 DEF SnapshotInv, Owns, Execute, AllEdges, Rows, Input
    <3>5. CASE Input(w).edges = {}
      <4>1. Backed(w, "finalize")' /\ AfterNodes(w) = "finalize"
        BY <3>3, <3>4, <3>5 DEF Backed, AfterNodes
      <4> QED  BY <1>3, <1>5, <1>6, <3>1, <4>1 DEF Statements
    <3>6. CASE Input(w).edges # {}
      <4>1. AfterNodes(w) = "edges"
        BY <3>6 DEF AfterNodes
      <4> QED  BY <1>3, <1>5, <1>6, <3>1, <3>3, <4>1 DEF Statements
    <3> QED  BY <3>5, <3>6
  <2>2. CASE ~Owns(w)
    <3>1. WriteFails(w, "DATABASE_RESULT_INVALID")
      BY <1>1, <1>9, <2>2 DEF Acknowledged, s
    <3> QED  BY <1>8, <1>9, <3>1 DEF Outcomes
  <2> QED  BY <2>1, <2>2
<1>10. CASE s = "edges"
  <2>1. CASE Joined(w) = Input(w).edges
    <3>1. writer' = [writer EXCEPT ![w] = [at |-> "finalize", outcome |-> writer[w].outcome]]
      BY <1>1, <1>5, <1>10, <2>1 DEF Acknowledged, Goes, s
    <3>2. AllEdges(w)'
      BY <1>1, <1>2, <1>10, <2>1, EdgesEffect DEF Execute
    <3>3. Backed(w, "finalize")'
      BY <1>2, <1>3, <1>10, <3>2 DEF Backed
    <3> QED  BY <1>3, <1>5, <1>6, <3>1, <3>3 DEF Statements
  <2>2. CASE Joined(w) # Input(w).edges
    <3>1. WriteFails(w, "DATABASE_RESULT_INVALID")
      BY <1>1, <1>10, <2>2 DEF Acknowledged, s
    <3> QED  BY <1>8, <1>10, <3>1 DEF Outcomes
  <2> QED  BY <2>1, <2>2
<1>11. CASE s = "finalize"
  <2>1. CASE Owns(w)
    <3>1. writer' = [writer EXCEPT ![w] = [at |-> "ended", outcome |-> "ready"]]
      BY <1>1, <1>11, <2>1 DEF Acknowledged, Ends, s
    <3>2. snapshot'.state = "ready" /\ snapshot'.token = w
      BY <1>1, <1>2, <1>11, <2>1, BecomeEffect DEF Execute
    <3> QED  BY <1>6, <3>1, <3>2 DEF Statements, Outcomes
  <2>2. CASE ~Owns(w)
    <3>1. WriteFails(w, "DATABASE_RESULT_INVALID")
      BY <1>1, <1>11, <2>2 DEF Acknowledged, s
    <3> QED  BY <1>8, <1>11, <3>1 DEF Outcomes
  <2> QED  BY <2>1, <2>2
<1>12. CASE s = "fail"
  <2>1. writer' = [writer EXCEPT ![w] = [at |-> "ended", outcome |-> writer[w].outcome]]
    BY <1>1, <1>12 DEF Acknowledged, Ends, s
  <2>2. /\ writer[w].outcome \in Outcomes
        /\ writer[w].outcome = "ready" => snapshot'.state = "ready" /\ snapshot'.token = w
    BY <1>3, <1>5
  <2>3. ASSUME NEW outcome \in Outcomes,
               writer' = [writer EXCEPT ![w] = [at |-> "ended", outcome |-> outcome]],
               outcome = "ready" => snapshot'.state = "ready" /\ snapshot'.token = w
        PROVE  WriterInv'
    BY <1>6, <2>3 DEF Statements
  <2> QED  BY <2>1, <2>2, <2>3
<1> QED  BY <1>1, <1>7, <1>9, <1>10, <1>11, <1>12 DEF Statements

(* A statement whose answer is lost stays outstanding, and the writer goes *)
(* on to say that it failed.                                               *)
LEMMA UnansweredKeeps ==
  ASSUME NEW w \in Writers, StoreInv, Unanswered(w)
  PROVE  StoreInv'
<1>1. /\ SnapshotInv /\ WriterInv /\ ReaderInv /\ ReadIsOnePersist
      /\ writer[w].at \in Statements /\ late' = late \cup {<<w, writer[w].at>>}
      /\ UNCHANGED <<case, snapshot, entities, edges, reader>>
      /\ WriteFails(w, "DATABASE_QUERY_FAILED")
  BY DEF StoreInv, Unanswered
<1>2. SnapshotInv' /\ ReaderInv' /\ ReadIsOnePersist'
  <2>1. SnapshotInv'
    BY <1>1 DEF SnapshotInv, Known, AllNodes, AllEdges, Metadata, Input
  <2> QED  BY <1>1, <2>1, ReaderKeeps
<1>3. \A v, r : Backed(v, r) => Backed(v, r)'
  BY <1>1 DEF Backed, Known, Holder, AllNodes, AllEdges, Input
<1>4. Backed(w, writer[w].at)
  BY <1>1 DEF WriterInv
<1>5. late' \subseteq Writers \X Statements /\ \A l \in late' : l \in late \/ Backed(l[1], l[2])
  BY <1>1, <1>4 DEF WriterInv
<1>6. /\ writer[w].outcome \in Outcomes
      /\ writer[w].outcome = "ready" => snapshot'.state = "ready" /\ snapshot'.token = w
  BY <1>1 DEF WriterInv
<1>7. ASSUME NEW at \in {"fail", "ended"}, NEW outcome \in Outcomes,
             writer' = [writer EXCEPT ![w] = [at |-> at, outcome |-> outcome]],
             at = "fail" => Backed(w, "fail"),
             outcome = "ready" => snapshot'.state = "ready" /\ snapshot'.token = w
      PROVE  WriterInv'
  <2>1. at \in Statements \cup {"idle", "begin", "ended"} /\ at # "begin"
    BY DEF Statements
  <2>2. at \in Statements => Backed(w, at)'
    BY <1>3, <1>7 DEF Statements
  <2> QED  BY <1>1, <1>3, <1>5, <1>7, <2>1, <2>2, OthersKeep
<1> SUFFICES WriterInv'
  BY <1>2 DEF StoreInv
<1>8. CASE writer[w].at = "claim"
  <2>1. writer' = [writer EXCEPT ![w] = [at |-> "ended", outcome |-> "DATABASE_QUERY_FAILED"]]
    BY <1>1, <1>8 DEF WriteFails, Ends
  <2> QED  BY <1>7, <2>1 DEF Outcomes
<1>9. CASE writer[w].at = "fail"
  <2>1. writer' = [writer EXCEPT ![w] = [at |-> "ended", outcome |-> writer[w].outcome]]
    BY <1>1, <1>9 DEF WriteFails, Ends
  <2> QED  BY <1>6, <1>7, <2>1
<1>10. CASE writer[w].at \notin {"claim", "fail"}
  <2>1. writer' = [writer EXCEPT ![w] = [at |-> "fail", outcome |-> "DATABASE_QUERY_FAILED"]]
    BY <1>1, <1>10 DEF WriteFails
  <2>2. Backed(w, "fail")
    BY <1>1, <1>4, <1>10 DEF Backed, Statements
  <2> QED  BY <1>7, <2>1, <2>2 DEF Outcomes
<1> QED  BY <1>8, <1>9, <1>10

(* A statement lands long after its writer has given up.                   *)
LEMMA LandsKeeps == StoreInv /\ Lands => StoreInv'
<1> SUFFICES ASSUME StoreInv, Lands PROVE StoreInv'
  OBVIOUS
<1>1. PICK l \in late : Execute(l[1], l[2]) /\ late' = late \ {l}
  BY DEF Lands
<1>2. /\ SnapshotInv /\ WriterInv /\ ReaderInv /\ ReadIsOnePersist
      /\ UNCHANGED <<case, writer, reader>>
      /\ l[1] \in Writers /\ l[2] \in Statements /\ Backed(l[1], l[2])
  BY DEF StoreInv, Lands, WriterInv
<1>3. /\ SnapshotInv'
      /\ \A v, r : Backed(v, r) => Backed(v, r)'
      /\ snapshot.state = "ready" => UNCHANGED <<snapshot, entities, edges>>
  BY <1>1, <1>2, ExecuteEffect
<1>4. ReaderInv' /\ ReadIsOnePersist'
  BY <1>2, <1>3, ReaderKeeps
<1>5. WriterInv'
  BY <1>1, <1>2, <1>3 DEF WriterInv
<1> QED  BY <1>3, <1>4, <1>5 DEF StoreInv

(* Steps of a writer that store nothing.                                   *)
LEMMA QuietKeeps ==
  ASSUME NEW w \in Writers, StoreInv, Validate(w) \/ Stops(w)
  PROVE  StoreInv'
<1>1. /\ SnapshotInv /\ WriterInv /\ ReaderInv /\ ReadIsOnePersist
      /\ UNCHANGED <<case, snapshot, entities, edges, late, reader>>
  BY DEF StoreInv, Validate, Stops
<1>2. SnapshotInv' /\ ReaderInv' /\ ReadIsOnePersist'
  <2>1. SnapshotInv'
    BY <1>1 DEF SnapshotInv, Known, AllNodes, AllEdges, Metadata, Input
  <2> QED  BY <1>1, <2>1, ReaderKeeps
<1>3. \A v, r : Backed(v, r) => Backed(v, r)'
  BY <1>1 DEF Backed, Known, Holder, AllNodes, AllEdges, Input
<1>4. ASSUME NEW at \in {"claim", "ended"}, NEW outcome \in Outcomes,
             writer' = [writer EXCEPT ![w] = [at |-> at, outcome |-> outcome]],
             at = "claim" => Backed(w, "claim"),
             outcome = "ready" => snapshot'.state = "ready" /\ snapshot'.token = w
      PROVE  WriterInv'
  <2>1. at \in Statements \cup {"idle", "begin", "ended"} /\ at # "begin"
    BY DEF Statements
  <2>2. at \in Statements => Backed(w, at)'
    BY <1>3, <1>4 DEF Statements
  <2>3. late' \subseteq Writers \X Statements /\ \A l \in late' : l \in late
    BY <1>1 DEF WriterInv
  <2> QED  BY <1>1, <1>3, <1>4, <2>1, <2>2, <2>3, OthersKeep
<1> SUFFICES WriterInv'
  BY <1>2 DEF StoreInv
<1>5. CASE Stops(w)
  <2>1. writer' = [writer EXCEPT ![w] = [at |-> "ended", outcome |-> "stopped"]]
    BY <1>5 DEF Stops, Ends
  <2> QED  BY <1>4, <2>1 DEF Outcomes
<1>6. CASE Validate(w) /\ Valid(Input(w)) /\ writer' = [writer EXCEPT ![w].at = "claim"]
  <2>1. Backed(w, "claim")
    BY <1>1, <1>6 DEF Validate, WriterInv, Backed, Known
  <2>2. writer' = [writer EXCEPT ![w] = [at |-> "claim", outcome |-> writer[w].outcome]]
    <3>1. writer[w] = [at |-> writer[w].at, outcome |-> writer[w].outcome]
      BY <1>1 DEF WriterInv
    <3>2. [writer[w] EXCEPT !.at = "claim"] = [at |-> "claim", outcome |-> writer[w].outcome]
      BY <3>1
    <3> QED  BY <1>6, <3>2
  <2>3. /\ writer[w].outcome \in Outcomes
        /\ writer[w].outcome = "ready" => snapshot'.state = "ready" /\ snapshot'.token = w
    BY <1>1 DEF WriterInv
  <2> QED  BY <1>4, <2>1, <2>2, <2>3
<1>7. CASE Validate(w) /\ writer' = [writer EXCEPT ![w] = [at |-> "ended", outcome |-> "refused"]]
  BY <1>4, <1>7 DEF Outcomes
<1> QED  BY <1>5, <1>6, <1>7 DEF Validate, Goes, Ends

-----------------------------------------------------------------------------
(* The reader.                                                             *)
LEMMA AssembledIsInput ==
  ASSUME SnapshotInv, WriterInv, snapshot.state = "ready",
         reader.nodes = entities, reader.edges = edges,
         reader.counts = [nodes |-> snapshot.nodes, edges |-> snapshot.edges,
                          releases |-> snapshot.releases]
  PROVE  LET input == Input(snapshot.token)
         IN  /\ Assembled = [nodes |-> input.nodes, edges |-> input.edges,
                             releases |-> input.releases]
             /\ Cardinality(reader.nodes) = reader.counts.nodes
             /\ Cardinality(reader.edges) = reader.counts.edges
             /\ Valid(Assembled)
             /\ reader.nodes # {}
<1> DEFINE w == snapshot.token
           input == Input(w)
<1>1. /\ Known(w) /\ snapshot = Metadata(w)
      /\ reader.nodes = Rows(w, input.nodes) /\ reader.edges = Rows(w, input.edges)
  BY DEF SnapshotInv, AllNodes, AllEdges
<1>2. /\ snapshot.nodes = Cardinality(input.nodes) /\ snapshot.edges = Cardinality(input.edges)
      /\ snapshot.releases = input.releases
  BY <1>1 DEF Metadata
<1>3. IsFiniteSet(input.nodes) /\ IsFiniteSet(input.edges)
  BY <1>1, StoreAssumption DEF WriterInv, Known, Input
<1>4. /\ Contents(reader.nodes) = input.nodes /\ Contents(reader.edges) = input.edges
      /\ Cardinality(reader.nodes) = Cardinality(input.nodes)
      /\ Cardinality(reader.edges) = Cardinality(input.edges)
  BY <1>1, <1>3, RowsFacts
<1>5. Assembled = [nodes |-> input.nodes, edges |-> input.edges, releases |-> input.releases]
  BY <1>2, <1>4 DEF Assembled
<1>6. Valid(Assembled)
  BY <1>1, <1>5, ValidSame DEF Known
<1>7. reader.nodes # {}
  <2>1. input.releases \in Seq(Nat) /\ input.releases # <<>>
    BY <1>1, <1>5, <1>6, StoreAssumption DEF WriterInv, Known, Input, Valid
  <2>2. 1 \in DOMAIN input.releases
    BY <2>1
  <2>3. input.releases[1] \in Ids(input.nodes)
    BY <2>2, <1>5, <1>6 DEF Valid, ToSet
  <2> QED  BY <2>3, <1>1 DEF Ids, Rows
<1> QED  BY <1>2, <1>4, <1>5, <1>6, <1>7

LEMMA ReaderStepKeeps == StoreInv /\ (ReaderStep \/ ReadFails) => StoreInv'
<1> SUFFICES ASSUME StoreInv, ReaderStep \/ ReadFails PROVE StoreInv'
  OBVIOUS
<1>1. /\ SnapshotInv /\ WriterInv /\ ReaderInv /\ ReadIsOnePersist
      /\ UNCHANGED <<case, snapshot, entities, edges, writer, late>>
  BY DEF StoreInv, ReaderStep, ReadFails, ReadSnapshot, ReadNodes, ReadEdges, Evaluate
<1>2. SnapshotInv'
  BY <1>1 DEF SnapshotInv, Known, AllNodes, AllEdges, Metadata, Input
<1>3. WriterInv'
  <2>1. \A v, r : Backed(v, r) => Backed(v, r)'
    BY <1>1 DEF Backed, Known, Holder, AllNodes, AllEdges, Input
  <2> QED  BY <1>1, <2>1 DEF WriterInv
<1>4. ASSUME NEW cause, NEW state,
             cause = "SNAPSHOT_CORRUPT" => case.nullRow /\ state = "absent",
             reader' = [reader EXCEPT !.at = "answered", !.state = state,
                          !.reply = [code |-> ReadCode(cause), cause |-> cause]]
      PROVE  ReaderInv' /\ ReadIsOnePersist'
  <2>1. ReadCode(cause) \in {404, 409, 503}
    BY DEF ReadCode
  <2>2. reader' = [reader EXCEPT !.at = "answered", !.state = state,
                     !.reply = [code |-> ReadCode(cause), cause |-> cause]]
    BY <1>4
  <2>3. /\ reader'.at = "answered" /\ reader'.state = state
        /\ reader'.reply = [code |-> ReadCode(cause), cause |-> cause]
    BY <1>1, <2>2 DEF ReaderInv
  <2>4. /\ reader'.left = reader.left
        /\ reader' = [at |-> reader'.at, left |-> reader'.left, state |-> reader'.state, counts |-> reader'.counts,
                      nodes |-> reader'.nodes, edges |-> reader'.edges, reply |-> reader'.reply]
    BY <1>1, <2>2 DEF ReaderInv
  <2>5. ReaderInv'
    BY <1>1, <2>1, <2>3, <2>4 DEF ReaderInv
  <2>6. ReadIsOnePersist'
    BY <1>1, <1>4, <2>1, <2>3 DEF ReadIsOnePersist
  <2> QED  BY <2>5, <2>6
<1>5. ASSUME ReadSnapshot PROVE ReaderInv' /\ ReadIsOnePersist'
  <2>1. CASE snapshot.state = "ready" /\ ~(snapshot.nodes > MaxNodes \/ snapshot.edges > MaxEdges)
    <3>1. /\ reader.at = "snapshot"
          /\ reader' = [reader EXCEPT !.at = "rows", !.state = "ready",
                          !.counts = [nodes |-> snapshot.nodes, edges |-> snapshot.edges,
                                      releases |-> snapshot.releases]]
      BY <1>5, <2>1 DEF ReadSnapshot
    <3>2. /\ reader'.at = "rows" /\ reader'.left = {"nodes", "edges"} /\ reader'.state = "ready"
          /\ reader'.counts = [nodes |-> snapshot.nodes, edges |-> snapshot.edges,
                                releases |-> snapshot.releases]
          /\ reader'.reply = [code |-> 0, cause |-> "none"]
          /\ reader' = [at |-> reader'.at, left |-> reader'.left, state |-> reader'.state, counts |-> reader'.counts,
                        nodes |-> reader'.nodes, edges |-> reader'.edges, reply |-> reader'.reply]
      BY <1>1, <3>1 DEF ReaderInv
    <3>3. ReaderInv'
      BY <1>1, <2>1, <3>2 DEF ReaderInv
    <3>4. ReadIsOnePersist'
      BY <3>2 DEF ReadIsOnePersist
    <3> QED  BY <3>3, <3>4
  <2>2. CASE ~(snapshot.state = "ready" /\ ~(snapshot.nodes > MaxNodes \/ snapshot.edges > MaxEdges))
    <3>1. \E cause :
            /\ cause = "SNAPSHOT_CORRUPT" => case.nullRow /\ snapshot.state = "absent"
            /\ reader' = [reader EXCEPT !.at = "answered", !.state = snapshot.state,
                             !.reply = [code |-> ReadCode(cause), cause |-> cause]]
      BY <1>5, <2>2 DEF ReadSnapshot
    <3> QED  BY <1>4, <3>1
  <2> QED  BY <2>1, <2>2
<1>6. ASSUME ReadNodes PROVE ReaderInv' /\ ReadIsOnePersist'
  <2>1. /\ reader.at = "rows" /\ snapshot.state = "ready"
        /\ reader' = [reader EXCEPT !.left = reader.left \ {"nodes"}, !.nodes = entities]
    BY <1>1, <1>6 DEF ReadNodes, ReaderInv
  <2>2. /\ reader'.at = "rows" /\ reader'.left = reader.left \ {"nodes"}
        /\ reader'.nodes = entities /\ reader'.edges = reader.edges
        /\ reader'.state = reader.state
        /\ reader'.counts = reader.counts /\ reader'.reply = reader.reply
        /\ reader' = [at |-> reader'.at, left |-> reader'.left, state |-> reader'.state, counts |-> reader'.counts,
                      nodes |-> reader'.nodes, edges |-> reader'.edges, reply |-> reader'.reply]
    BY <1>1, <2>1 DEF ReaderInv
  <2>3. ReaderInv'
    BY <1>1, <2>1, <2>2 DEF ReaderInv
  <2>4. ReadIsOnePersist'
    BY <1>1, <2>1, <2>2 DEF ReadIsOnePersist, ReaderInv
  <2> QED  BY <2>3, <2>4
<1>7. ASSUME ReadEdges PROVE ReaderInv' /\ ReadIsOnePersist'
  <2>1. /\ reader.at = "rows"
        /\ reader' = [reader EXCEPT !.left = reader.left \ {"edges"}, !.edges = edges]
    BY <1>7 DEF ReadEdges
  <2>2. /\ reader'.at = "rows" /\ reader'.left = reader.left \ {"edges"}
        /\ reader'.edges = edges /\ reader'.nodes = reader.nodes
        /\ reader'.state = reader.state
        /\ reader'.counts = reader.counts /\ reader'.reply = reader.reply
        /\ reader' = [at |-> reader'.at, left |-> reader'.left, state |-> reader'.state, counts |-> reader'.counts,
                      nodes |-> reader'.nodes, edges |-> reader'.edges, reply |-> reader'.reply]
    BY <1>1, <2>1 DEF ReaderInv
  <2>3. ReaderInv'
    BY <1>1, <2>1, <2>2 DEF ReaderInv
  <2>4. ReadIsOnePersist'
    BY <1>1, <2>1, <2>2 DEF ReadIsOnePersist, ReaderInv
  <2> QED  BY <2>3, <2>4
<1>8. ASSUME Evaluate PROVE ReaderInv' /\ ReadIsOnePersist'
  <2> DEFINE input == Input(snapshot.token)
             whole == [nodes |-> input.nodes, edges |-> input.edges, releases |-> input.releases]
  <2>1. /\ snapshot.state = "ready" /\ reader.nodes = entities /\ reader.edges = edges
        /\ reader.counts = [nodes |-> snapshot.nodes, edges |-> snapshot.edges,
                            releases |-> snapshot.releases]
    BY <1>1, <1>8 DEF Evaluate, ReaderInv
  <2>2. /\ Assembled = whole /\ Valid(Assembled) /\ reader.nodes # {}
        /\ Cardinality(reader.nodes) = reader.counts.nodes
        /\ Cardinality(reader.edges) = reader.counts.edges
    BY <1>1, <2>1, AssembledIsInput
  <2>3. reader.at = "rows" /\ reader.state = "ready" /\ ~NullRow(reader.nodes)
    BY <1>1, <1>8, <2>2 DEF Evaluate, ReaderInv, NullRow
  <2>4. ASSUME NEW reply, reader' = [reader EXCEPT !.at = "answered", !.reply = reply]
        PROVE  /\ reader'.at = "answered" /\ reader'.left = reader.left
               /\ reader'.state = "ready" /\ reader'.reply = reply /\ ReaderInv'
    <3>1. /\ reader'.at = "answered" /\ reader'.left = reader.left
          /\ reader'.state = "ready" /\ reader'.reply = reply
          /\ reader' = [at |-> reader'.at, left |-> reader'.left, state |-> reader'.state,
                        counts |-> reader'.counts, nodes |-> reader'.nodes,
                        edges |-> reader'.edges, reply |-> reader'.reply]
      BY <1>1, <2>3, <2>4 DEF ReaderInv
    <3> QED  BY <1>1, <2>1, <3>1 DEF ReaderInv
  <2>5. CASE NullRow(reader.edges)
    <3>1. reader' = [reader EXCEPT !.at = "answered",
                       !.reply = [code |-> ReadCode("SNAPSHOT_CORRUPT"), cause |-> "SNAPSHOT_CORRUPT"]]
      BY <1>8, <2>5 DEF Evaluate, ReadEnds, Replies
    <3>2. /\ reader'.state = "ready" /\ ReaderInv'
          /\ reader'.reply = [code |-> 503, cause |-> "SNAPSHOT_CORRUPT"]
      BY <2>4, <3>1 DEF ReadCode
    <3>3. case.nullRow /\ Rows(snapshot.token, input.edges) = {}
      BY <1>1, <2>1, <2>5 DEF NullRow, SnapshotInv, AllEdges
    <3>4. input.edges = {}
      BY <3>3 DEF Rows
    <3>5. Input(snapshot.token)'.edges = {} /\ case'.nullRow /\ snapshot'.state = "ready"
      BY <1>1, <2>1, <3>3, <3>4 DEF Input
    <3>6. ReadIsOnePersist'
      BY <3>2, <3>5 DEF ReadIsOnePersist
    <3> QED  BY <3>2, <3>6
  <2>6. CASE ~NullRow(reader.edges)
    <3>1. reader' = [reader EXCEPT !.at = "answered",
                                   !.reply = [code |-> 200, cause |-> "none", input |-> whole]]
      BY <1>8, <2>2, <2>3, <2>6 DEF Evaluate, Replies
    <3> HIDE DEF whole
    <3>2. ReaderInv' /\ reader'.reply.cause = "none" /\ reader'.reply.input = whole
      BY <2>4, <3>1
    <3>3. whole = [nodes |-> Input(snapshot.token)'.nodes, edges |-> Input(snapshot.token)'.edges,
                   releases |-> Input(snapshot.token)'.releases]
      BY <1>1 DEF whole, Input
    <3>4. ReadIsOnePersist'
      BY <3>2, <3>3 DEF ReadIsOnePersist
    <3> QED  BY <3>2, <3>4
  <2> QED  BY <2>5, <2>6
<1>9. ASSUME ReadFails PROVE ReaderInv' /\ ReadIsOnePersist'
  <2>1. reader' = [reader EXCEPT !.at = "answered",
                     !.reply = [code |-> ReadCode("DATABASE_QUERY_FAILED"), cause |-> "DATABASE_QUERY_FAILED"]]
    BY <1>9 DEF ReadFails, ReadEnds, Replies
  <2>2. reader' = [reader EXCEPT !.at = "answered", !.state = reader.state,
                     !.reply = [code |-> ReadCode("DATABASE_QUERY_FAILED"), cause |-> "DATABASE_QUERY_FAILED"]]
    BY <1>1, <2>1 DEF ReaderInv
  <2>3. \E cause :
          /\ cause = "SNAPSHOT_CORRUPT" => case.nullRow /\ reader.state = "absent"
          /\ reader' = [reader EXCEPT !.at = "answered", !.state = reader.state,
                          !.reply = [code |-> ReadCode(cause), cause |-> cause]]
    BY <2>2
  <2> QED  BY <1>4, <2>3
<1>10. ReaderInv' /\ ReadIsOnePersist'
  BY <1>5, <1>6, <1>7, <1>8, <1>9 DEF ReaderStep
<1> QED  BY <1>2, <1>3, <1>10 DEF StoreInv

-----------------------------------------------------------------------------
LEMMA StoreInvStep == StoreInv /\ [StoreNext]_storeVars => StoreInv'
<1> SUFFICES ASSUME StoreInv, [StoreNext]_storeVars PROVE StoreInv'
  OBVIOUS
<1>1. CASE WriterStep
  BY <1>1, QuietKeeps, AcknowledgedKeeps DEF WriterStep
<1>2. CASE WriterTrouble
  BY <1>2, UnansweredKeeps, QuietKeeps, LandsKeeps DEF WriterTrouble
<1>3. CASE ReaderStep \/ ReadFails
  BY <1>3, ReaderStepKeeps
<1>4. CASE UNCHANGED storeVars
  <2>1. UNCHANGED <<case, snapshot, entities, edges, writer, late, reader>>
    BY <1>4 DEF storeVars
  <2>2. SnapshotInv'
    BY <2>1 DEF StoreInv, SnapshotInv, Known, AllNodes, AllEdges, Metadata, Input
  <2>3. \A v, r : Backed(v, r) => Backed(v, r)'
    BY <2>1 DEF Backed, Known, Holder, AllNodes, AllEdges, Input
  <2>4. WriterInv'
    BY <2>1, <2>3 DEF StoreInv, WriterInv
  <2>5. ReaderInv' /\ ReadIsOnePersist'
    BY <2>1, ReaderKeeps DEF StoreInv
  <2> QED  BY <2>2, <2>4, <2>5 DEF StoreInv
<1> QED  BY <1>1, <1>2, <1>3, <1>4 DEF StoreNext

LEMMA StoreInvImpliesWhole == StoreInv => SnapshotIsWhole
<1>1. ASSUME StoreInv, snapshot.state = "ready"
      PROVE  /\ entities = Rows(snapshot.token, Input(snapshot.token).nodes)
             /\ edges = Rows(snapshot.token, Input(snapshot.token).edges)
             /\ snapshot.releases = Input(snapshot.token).releases
  <2>1. AllNodes(snapshot.token) /\ AllEdges(snapshot.token) /\ snapshot = Metadata(snapshot.token)
    BY <1>1 DEF StoreInv, SnapshotInv
  <2>2. snapshot.releases = Input(snapshot.token).releases
    BY <2>1 DEF Metadata
  <2> QED  BY <2>1, <2>2 DEF AllNodes, AllEdges
<1> QED  BY <1>1 DEF StoreInv, WriterInv, SnapshotIsWhole

(* A snapshot that is ready holds every node and every edge of the one     *)
(* call that claimed it, and no other, whatever was lost, late or stopped; *)
(* and an evaluation reads one call's input, never a snapshot in the       *)
(* making (persistSnapshot and readSnapshot), for any number of writers.   *)
(* Corrupt is what it calls a row of nulls: of a snapshot nobody claimed,  *)
(* or of one without edges.                                                *)
THEOREM ReadsWholeSnapshots == StoreSpec => []ReadsAreWhole
<1>1. StoreInit => StoreInv
  BY StoreInvInit
<1>2. StoreInv /\ [StoreNext]_storeVars => StoreInv'
  BY StoreInvStep
<1>3. StoreInv => ReadsAreWhole
  BY StoreInvImpliesWhole DEF ReadsAreWhole, StoreInv
<1> QED  BY <1>1, <1>2, <1>3, PTL DEF StoreSpec

(* Rows, statements and the writer's and reader's places keep their types. *)
THEOREM StoreTypes == StoreSpec => []StoreTypeOK
<1>1. StoreInv => StoreTypeOK
  <2> SUFFICES ASSUME StoreInv PROVE StoreTypeOK
    OBVIOUS
  <2>1. /\ case \in Cases /\ late \subseteq Writers \X Statements
        /\ \A w \in Writers : writer[w].at \in Statements \cup {"idle", "begin", "ended"}
        /\ reader.at \in {"snapshot", "rows", "answered"}
    BY DEF StoreInv, WriterInv, ReaderInv
  <2>2. CASE snapshot.state = "absent"
    BY <2>1, <2>2 DEF StoreInv, SnapshotInv, NoSnapshot, StoreTypeOK
  <2>3. CASE snapshot.state # "absent"
    <3>1. /\ snapshot.token \in Writers /\ snapshot.token \in DOMAIN case.input
          /\ snapshot.state \in {"absent", "writing", "ready", "failed"}
          /\ entities \subseteq Rows(snapshot.token, Input(snapshot.token).nodes)
          /\ edges \subseteq Rows(snapshot.token, Input(snapshot.token).edges)
      BY <2>3 DEF StoreInv, SnapshotInv, Known
    <3> QED  BY <2>1, <3>1 DEF StoreTypeOK
  <2> QED  BY <2>2, <2>3
<1> QED  BY <1>1, StoreInvInit, StoreInvStep, PTL DEF StoreSpec

-----------------------------------------------------------------------------
(* Sequences that are put together.                                        *)
LEMMA ConcatFacts ==
  ASSUME NEW S, NEW p \in Seq(S), NEW q \in Seq(S)
  PROVE  /\ p \o q \in Seq(S) /\ Len(p \o q) = Len(p) + Len(q)
         /\ Range(p \o q) = Range(p) \cup Range(q)
<1>1. /\ p \o q \in Seq(S) /\ Len(p \o q) = Len(p) + Len(q) /\ Len(p) \in Nat /\ Len(q) \in Nat
      /\ DOMAIN p = 1..Len(p) /\ DOMAIN q = 1..Len(q) /\ DOMAIN (p \o q) = 1..(Len(p) + Len(q))
      /\ \A i \in 1..Len(p) : (p \o q)[i] = p[i]
      /\ \A i \in 1..Len(q) : (p \o q)[Len(p) + i] = q[i]
  OBVIOUS
<1>2. Range(p \o q) \subseteq Range(p) \cup Range(q)
  <2> SUFFICES ASSUME NEW i \in 1..(Len(p) + Len(q)) PROVE (p \o q)[i] \in Range(p) \cup Range(q)
    BY <1>1 DEF Range
  <2>1. CASE i \in 1..Len(p)
    BY <1>1, <2>1 DEF Range
  <2>2. CASE i \notin 1..Len(p)
    <3>1. i - Len(p) \in 1..Len(q) /\ Len(p) + (i - Len(p)) = i
      BY <1>1, <2>2
    <3>2. (p \o q)[i] = q[i - Len(p)]
      BY <1>1, <3>1
    <3> QED
      BY <1>1, <3>1, <3>2 DEF Range
  <2> QED
    BY <2>1, <2>2
<1>3. Range(p) \subseteq Range(p \o q)
  <2>1. \A i \in 1..Len(p) : i \in 1..(Len(p) + Len(q))
    BY <1>1
  <2> QED
    BY <1>1, <2>1 DEF Range
<1>4. Range(q) \subseteq Range(p \o q)
  <2>1. \A i \in 1..Len(q) : Len(p) + i \in 1..(Len(p) + Len(q))
    BY <1>1
  <2> QED
    BY <1>1, <2>1 DEF Range
<1> QED
  BY <1>1, <1>2, <1>3, <1>4

LEMMA PrependFacts ==
  ASSUME NEW S, NEW x \in S, NEW q \in Seq(S)
  PROVE  /\ <<x>> \o q \in Seq(S) /\ <<x>> \o q # <<>> /\ Len(<<x>> \o q) = Len(q) + 1
         /\ (<<x>> \o q)[1] = x /\ Range(<<x>> \o q) = {x} \cup Range(q)
<1>1. <<x>> \in Seq(S) /\ Len(<<x>>) = 1 /\ DOMAIN <<x>> = {1} /\ <<x>>[1] = x
  OBVIOUS
<1>2. Range(<<x>>) = {x}
  BY <1>1 DEF Range
<1>3. (<<x>> \o q)[1] = x /\ Len(q) \in Nat
  OBVIOUS
<1>a. \A one \in Seq(S) : /\ one \o q \in Seq(S) /\ Len(one \o q) = Len(one) + Len(q)
                          /\ Range(one \o q) = Range(one) \cup Range(q)
  BY ConcatFacts
<1>4. Len(<<x>> \o q) = Len(q) + 1 /\ <<x>> \o q \in Seq(S) /\ Range(<<x>> \o q) = {x} \cup Range(q)
  <2>1. /\ <<x>> \o q \in Seq(S) /\ Len(<<x>> \o q) = Len(<<x>>) + Len(q)
        /\ Range(<<x>> \o q) = Range(<<x>>) \cup Range(q)
    BY <1>1, <1>a, Zenon
  <2>2. Len(<<x>>) + Len(q) = Len(q) + 1
    BY <1>3
  <2> QED
    BY <1>2, <2>1, <2>2, Zenon
<1>5. <<x>> \o q # <<>>
  BY <1>3, <1>4, EmptySequence
<1> QED
  BY <1>3, <1>4, <1>5

LEMMA ToSetIsRange == \A q : ToSet(q) = Range(q)
BY DEF ToSet, Range

-----------------------------------------------------------------------------
(* What is doubted is a list.                                              *)
LEMMA WhenFacts ==
  ASSUME NEW holds, NEW f, NEW S, f \in S
  PROVE  When(holds, f) \in Seq(S)
BY DEF When

LEMMA ConcernsAreLists ==
  ASSUME NEW o, NEW input
  PROVE  /\ \A way : WayConcerns(o, input, way) \in Seq(ToSet(WayConcerns(o, input, way)))
         /\ \A r : ReleaseConcerns(o, input, r) \in Seq(ToSet(ReleaseConcerns(o, input, r)))
<1>1. ASSUME NEW way, NEW e PROVE \E S : EdgeConcerns(o, e, way) \in Seq(S)
  <2> DEFINE f1 == Finding("missing-edge-evidence", "quarantine", e.id, way)
             f2 == Finding("untrusted-edge", o.untrusted, e.id, way)
             f3 == Finding("unknown-edge", o.unknown, e.id, way)
             f4 == Finding("cross-boundary-cache", o.cross, e.id, way)
             f5 == Finding("unknown-cache-boundary", o.unclear, e.id, way)
             cache == e.kind \in {"writes_cache", "restores_cache"}
             S == {f1, f2, f3, f4, f5}
             h1 == o.evidence /\ ~e.evidence
             h2 == e.trust = "untrusted"
             h3 == e.trust = "unknown"
             h4 == cache /\ e.boundary = "cross-trust-boundary"
             h5 == cache /\ e.boundary = "unknown"
  <2>1. EdgeConcerns(o, e, way) = When(h1, f1) \o When(h2, f2) \o When(h3, f3) \o When(h4, f4) \o When(h5, f5)
    BY DEF EdgeConcerns
  <2> HIDE DEF h1, h2, h3, h4, h5, f1, f2, f3, f4, f5
  <2>2. /\ When(h1, f1) \in Seq(S) /\ When(h2, f2) \in Seq(S) /\ When(h3, f3) \in Seq(S)
        /\ When(h4, f4) \in Seq(S) /\ When(h5, f5) \in Seq(S)
    BY WhenFacts
  <2> HIDE DEF S
  <2>3. When(h1, f1) \o When(h2, f2) \in Seq(S)
    BY <2>2
  <2>4. When(h1, f1) \o When(h2, f2) \o When(h3, f3) \in Seq(S)
    BY <2>2, <2>3
  <2>5. When(h1, f1) \o When(h2, f2) \o When(h3, f3) \o When(h4, f4) \in Seq(S)
    BY <2>2, <2>4
  <2>6. When(h1, f1) \o When(h2, f2) \o When(h3, f3) \o When(h4, f4) \o When(h5, f5) \in Seq(S)
    BY <2>2, <2>5
  <2> QED
    BY <2>1, <2>6
<1>2. ASSUME NEW way, NEW n PROVE \E S : NodeConcerns(o, n, way) \in Seq(S)
  <2> DEFINE f1 == Finding("missing-node-evidence", "quarantine", n.id, way)
             f2 == Finding("untrusted-node", o.untrusted, n.id, way)
             f3 == Finding("unknown-node", o.unknown, n.id, way)
             S == {f1, f2, f3}
             h1 == o.evidence /\ ~n.evidence
             h2 == n.trust = "untrusted"
             h3 == n.trust = "unknown"
  <2>1. NodeConcerns(o, n, way) = When(h1, f1) \o When(h2, f2) \o When(h3, f3)
    BY DEF NodeConcerns
  <2> HIDE DEF h1, h2, h3, f1, f2, f3
  <2>2. When(h1, f1) \in Seq(S) /\ When(h2, f2) \in Seq(S) /\ When(h3, f3) \in Seq(S)
    BY WhenFacts
  <2> HIDE DEF S
  <2>3. When(h1, f1) \o When(h2, f2) \in Seq(S)
    BY <2>2
  <2>4. When(h1, f1) \o When(h2, f2) \o When(h3, f3) \in Seq(S)
    BY <2>2, <2>3
  <2> QED
    BY <2>1, <2>4
<1>3. ASSUME NEW q, \E S : q \in Seq(S) PROVE q \in Seq(ToSet(q))
  BY <1>3, SequenceRange, ToSetIsRange
<1>4. ASSUME NEW way PROVE WayConcerns(o, input, way) \in Seq(ToSet(WayConcerns(o, input, way)))
  <2> DEFINE p == EdgeConcerns(o, Edge(input, way.edges[1]), way)
             q == NodeConcerns(o, Node(input, way.nodes[1]), way)
  <2>1. p \in Seq(ToSet(p)) /\ q \in Seq(ToSet(q)) /\ WayConcerns(o, input, way) = p \o q
    BY <1>1, <1>2, <1>3 DEF WayConcerns
  <2> HIDE DEF p, q
  <2>2. p \in Seq(ToSet(p) \cup ToSet(q)) /\ q \in Seq(ToSet(p) \cup ToSet(q))
    BY <2>1, SequenceRange, ToSetIsRange
  <2>3. p \o q \in Seq(ToSet(p) \cup ToSet(q))
    BY <2>2
  <2> QED
    BY <1>3, <2>1, <2>3
<1>5. ASSUME NEW r PROVE ReleaseConcerns(o, input, r) \in Seq(ToSet(ReleaseConcerns(o, input, r)))
  <2> DEFINE f1 == Finding("missing-node-evidence", "quarantine", r, NoWay)
             f2 == Finding("missing-artifact-publication", "quarantine", r, NoWay)
             h1 == o.evidence /\ ~Node(input, r).evidence
             h2 == \A e \in Into(input, r) : e.kind # "publishes"
             S == {f1, f2}
  <2>1. ReleaseConcerns(o, input, r) = When(h1, f1) \o When(h2, f2)
    BY DEF ReleaseConcerns
  <2> HIDE DEF h1, h2, f1, f2
  <2>2. When(h1, f1) \in Seq(S) /\ When(h2, f2) \in Seq(S)
    BY WhenFacts
  <2> HIDE DEF S
  <2>3. When(h1, f1) \o When(h2, f2) \in Seq(S)
    BY <2>2
  <2> QED
    BY <1>3, <2>1, <2>3
<1> QED
  BY <1>4, <1>5

-----------------------------------------------------------------------------
(* The recursive functions of the firewall are of one form, a step that is *)
(* done again and again; `how` says which.                                 *)
Redone(how, i, s) ==
  CASE how.of = "concerns" -> AddFinding(s, how.o, how.list[i])
    [] how.of = "incoming" -> Inspect(s, how.o, how.input, how.way, how.list[i])
    [] how.of = "turns" -> Turn(s, how.o, how.input)
    [] how.of = "ways" -> UNION {{Preceded(w, e) : e \in Leading(how.input, w)} : w \in s}

Redoes(f, N, B, how) == f = [i \in 0..N |-> IF i = 0 THEN B ELSE Redone(how, i, f[i - 1])]
Unwinds(f, N, B, how) == f[0] = B /\ \A i \in 1..N : f[i] = Redone(how, i, f[i - 1])

LEMMA RedoneAgain ==
  ASSUME NEW N \in Nat, NEW B, NEW how
  PROVE  \E f : Redoes(f, N, B, how)
<1> DEFINE F(f, n) == [i \in 0..n |-> IF i = 0 THEN B ELSE Redone(how, i, f[i - 1])]
           G == {n \in 0..N : \E f : f = F(f, n)}
<1>1. 0 \in G
  <2> DEFINE f == [i \in 0..0 |-> B]
  <2>0. \A i \in 0..0 : i = 0
    OBVIOUS
  <2>1. f = F(f, 0)
    BY <2>0
  <2>2. 0 \in 0..N
    OBVIOUS
  <2> QED
    BY <2>1, <2>2
<1>2. ASSUME NEW n \in 0..N, n \in G, n < N PROVE n + 1 \in G
  <2>1. PICK f : f = F(f, n)
    BY <1>2
  <2> DEFINE h == [i \in 0..(n + 1) |-> IF i <= n THEN f[i] ELSE Redone(how, n + 1, f[n])]
  <2>2. \A i \in 0..n : f[i] = IF i = 0 THEN B ELSE Redone(how, i, f[i - 1])
    <3> TAKE i \in 0..n
    <3>1. F(f, n)[i] = IF i = 0 THEN B ELSE Redone(how, i, f[i - 1])
      OBVIOUS
    <3> QED
      BY <2>1, <3>1
  <2>3. \A i \in 0..(n + 1) : h[i] = IF i = 0 THEN B ELSE Redone(how, i, h[i - 1])
    <3> TAKE i \in 0..(n + 1)
    <3>1. CASE i = 0
      <4>1. 0 \in 0..n /\ 0 \in 0..(n + 1) /\ 0 <= n
        OBVIOUS
      <4>2. f[0] = B
        BY <4>1, <2>2
      <4>3. h[0] = f[0]
        BY <4>1
      <4> QED
        BY <3>1, <4>2, <4>3
    <3>2. CASE i # 0 /\ i <= n
      <4>1. i \in 0..n /\ i - 1 \in 0..(n + 1) /\ i - 1 <= n
        BY <3>2
      <4>2. h[i] = f[i] /\ h[i - 1] = f[i - 1]
        BY <3>2, <4>1
      <4> QED
        BY <3>2, <4>1, <4>2, <2>2
    <3>3. CASE i = n + 1
      <4>1. ~(i <= n) /\ i - 1 = n /\ n \in 0..(n + 1) /\ i # 0 /\ n <= n
        BY <3>3
      <4>2. h[i] = Redone(how, n + 1, f[n]) /\ h[i - 1] = f[n]
        BY <4>1
      <4> QED
        BY <3>3, <4>1, <4>2
    <3> QED
      BY <3>1, <3>2, <3>3
  <2>4. h = F(h, n + 1)
    <3> HIDE DEF h
    <3>1. h = [i \in 0..(n + 1) |-> h[i]]
      BY DEF h
    <3> QED
      BY <2>3, <3>1
  <2>5. n + 1 \in 0..N
    BY <1>2
  <2> QED
    BY <2>4, <2>5
<1>3. N \in G
  <2> HIDE DEF G
  <2>1. 0..N \subseteq G
    BY <1>1, <1>2, UpTo
  <2> QED
    BY <2>1
<1> QED
  BY <1>3 DEF Redoes

LEMMA RedoesUnwinds ==
  ASSUME NEW N \in Nat, NEW B, NEW how, NEW f, Redoes(f, N, B, how)
  PROVE  Unwinds(f, N, B, how)
<1> DEFINE F == [i \in 0..N |-> IF i = 0 THEN B ELSE Redone(how, i, f[i - 1])]
<1>1. f = F
  BY DEF Redoes
<1>2. F[0] = B
  OBVIOUS
<1>3. \A i \in 1..N : F[i] = Redone(how, i, f[i - 1])
  <2> TAKE i \in 1..N
  <2>1. i \in 0..N /\ i # 0
    OBVIOUS
  <2> QED
    BY <2>1
<1> HIDE DEF F
<1> QED
  BY <1>1, <1>2, <1>3 DEF Unwinds

ConcernsHow(o, list) == [of |-> "concerns", o |-> o, list |-> list]
IncomingHow(o, input, way, list) ==
  [of |-> "incoming", o |-> o, input |-> input, way |-> way, list |-> list]
TurnsHow(o, input) == [of |-> "turns", o |-> o, input |-> input]
WaysHow(input) == [of |-> "ways", input |-> input]

LEMMA HowsRedo ==
  /\ \A o, list, i, s : Redone(ConcernsHow(o, list), i, s) = AddFinding(s, o, list[i])
  /\ \A o, input, way, list, i, s :
       Redone(IncomingHow(o, input, way, list), i, s) = Inspect(s, o, input, way, list[i])
  /\ \A o, input, i, s : Redone(TurnsHow(o, input), i, s) = Turn(s, o, input)
  /\ \A input, i, s : Redone(WaysHow(input), i, s)
                        = UNION {{Preceded(w, e) : e \in Leading(input, w)} : w \in s}
BY DEF Redone, ConcernsHow, IncomingHow, TurnsHow, WaysHow

LEMMA AddAllRuns ==
  ASSUME NEW t, NEW o, NEW concerns, Len(concerns) \in Nat
  PROVE  \E f : /\ Unwinds(f, Len(concerns), t, ConcernsHow(o, concerns))
                /\ AddAll(t, o, concerns) = f[Len(concerns)]
<1> DEFINE N == Len(concerns)
           how == ConcernsHow(o, concerns)
           F(f) == [i \in 0..N |-> IF i = 0 THEN t ELSE AddFinding(f[i - 1], o, concerns[i])]
           after == CHOOSE f : f = F(f)
<1>1. AddAll(t, o, concerns) = after[N]
  BY DEF AddAll
<1> HIDE DEF N, how
<1>2. \A f : f = F(f) <=> Redoes(f, N, t, how)
  BY HowsRedo DEF Redoes, how
<1>3. \E f : f = F(f)
  BY <1>2, RedoneAgain DEF N
<1>4. after = F(after)
  BY <1>3
<1>5. Redoes(after, N, t, how)
  BY <1>2, <1>4
<1> HIDE DEF after
<1>6. Unwinds(after, N, t, how)
  BY <1>5, RedoesUnwinds DEF N
<1> QED
  BY <1>1, <1>6 DEF N, how

LEMMA InspectAllRuns ==
  ASSUME NEW t, NEW o, NEW input, NEW way, NEW list, Lesser(Len(list), o.incoming) \in Nat
  PROVE  \E f : /\ Unwinds(f, Lesser(Len(list), o.incoming), LeftOut(t, o, way.nodes[1], list),
                           IncomingHow(o, input, way, list))
                /\ InspectAll(t, o, input, way, list) = f[Lesser(Len(list), o.incoming)]
<1> DEFINE N == Lesser(Len(list), o.incoming)
           how == IncomingHow(o, input, way, list)
           B == LeftOut(t, o, way.nodes[1], list)
           F(f) == [i \in 0..N |-> IF i = 0 THEN B ELSE Inspect(f[i - 1], o, input, way, list[i])]
           after == CHOOSE f : f = F(f)
<1>1. InspectAll(t, o, input, way, list) = after[N]
  BY DEF InspectAll
<1> HIDE DEF N, how, B
<1>2. \A f : f = F(f) <=> Redoes(f, N, B, how)
  BY HowsRedo DEF Redoes, how
<1>3. \E f : f = F(f)
  BY <1>2, RedoneAgain DEF N
<1>4. after = F(after)
  BY <1>3
<1>5. Redoes(after, N, B, how)
  BY <1>2, <1>4
<1> HIDE DEF after
<1>6. Unwinds(after, N, B, how)
  BY <1>5, RedoesUnwinds DEF N
<1> QED
  BY <1>1, <1>6 DEF N, how, B

LEMMA EvaluationRuns ==
  ASSUME NEW o, NEW input, NEW release, o.states \in Nat
  PROVE  \E f : /\ Unwinds(f, o.states, BeginRelease(o, input, release), TurnsHow(o, input))
                /\ EvaluateRelease(o, input, release) = f[o.states]
<1> DEFINE N == o.states
           how == TurnsHow(o, input)
           B == BeginRelease(o, input, release)
           F(f) == [i \in 0..N |-> IF i = 0 THEN B ELSE Turn(f[i - 1], o, input)]
           after == CHOOSE f : f = F(f)
<1>1. EvaluateRelease(o, input, release) = after[N]
  BY DEF EvaluateRelease
<1> HIDE DEF N, how, B
<1>2. \A f : f = F(f) <=> Redoes(f, N, B, how)
  BY HowsRedo DEF Redoes, how
<1>3. \E f : f = F(f)
  BY <1>2, RedoneAgain DEF N
<1>4. after = F(after)
  BY <1>3
<1>5. Redoes(after, N, B, how)
  BY <1>2, <1>4
<1> HIDE DEF after
<1>6. Unwinds(after, N, B, how)
  BY <1>5, RedoesUnwinds DEF N
<1> QED
  BY <1>1, <1>6 DEF N, how, B

LEMMA WaysRun ==
  ASSUME NEW input, NEW release, Cardinality(input.nodes) \in Nat
  PROVE  \E f : /\ Unwinds(f, Cardinality(input.nodes), {Start(release)}, WaysHow(input))
                /\ Ways(input, release) = UNION {f[k] : k \in 1..Cardinality(input.nodes)}
<1> DEFINE N == Cardinality(input.nodes)
           how == WaysHow(input)
           B == {Start(release)}
           Step(s) == UNION {{Preceded(w, e) : e \in Leading(input, w)} : w \in s}
           F(f) == [k \in 0..N |-> IF k = 0 THEN B ELSE Step(f[k - 1])]
           after == CHOOSE f : f = F(f)
<1>1. Ways(input, release) = UNION {after[k] : k \in 1..N}
  BY DEF Ways
<1>a. \A i, s : Redone(how, i, s) = Step(s)
  BY HowsRedo
<1> HIDE DEF N, how, B, Step
<1>2. \A f : f = F(f) <=> Redoes(f, N, B, how)
  BY <1>a DEF Redoes
<1>3. \E f : f = F(f)
  BY <1>2, RedoneAgain DEF N
<1>4. after = F(after)
  BY <1>3
<1>5. Redoes(after, N, B, how)
  BY <1>2, <1>4
<1> HIDE DEF after
<1>6. Unwinds(after, N, B, how)
  BY <1>5, RedoesUnwinds DEF N
<1> QED
  BY <1>1, <1>6 DEF N, how, B

-----------------------------------------------------------------------------
(* An input that is evaluated: validated, and finite.                      *)
Sane(input) == Valid(input) /\ IsFiniteSet(input.nodes) /\ IsFiniteSet(input.edges)

LEMMA ValidFacts ==
  ASSUME NEW input, Valid(input)
  PROVE  /\ \A e \in input.edges : /\ {e.source, e.target} \subseteq Ids(input.nodes)
                                   /\ e.id \in Ids(input.edges) /\ e.id \in Nat
                                   /\ Edge(input, e.id) = e
         /\ \A d, e \in input.edges : d.id = e.id => d = e
         /\ \A r \in ToSet(input.releases) : r \in Ids(input.nodes)
<1>1. \A d, e \in input.edges : d.id = e.id => d = e
  BY DEF Valid, OnceEach
<1>2. ASSUME NEW e \in input.edges
      PROVE  /\ {e.source, e.target} \subseteq Ids(input.nodes)
             /\ e.id \in Ids(input.edges) /\ e.id \in Nat /\ Edge(input, e.id) = e
  <2>1. {e.source, e.target} \subseteq Ids(input.nodes)
    BY DEF Valid
  <2>2. e.id \in Ids(input.edges)
    BY DEF Ids
  <2>3. e.id \in Nat
    BY <2>2 DEF Valid
  <2>4. Edge(input, e.id) = e
    BY <1>1 DEF Edge
  <2> QED
    BY <2>1, <2>2, <2>3, <2>4
<1>3. \A r \in ToSet(input.releases) : r \in Ids(input.nodes)
  BY DEF Valid
<1> QED
  BY <1>1, <1>2, <1>3

(* The incoming edges are listed, each of them once.                       *)
LEMMA IncomingFacts ==
  ASSUME NEW input, Sane(input), NEW id
  PROVE  /\ Incoming(input, id) \in Seq(Into(input, id))
         /\ Range(Incoming(input, id)) = Into(input, id)
<1> DEFINE S == Into(input, id)
           B == {p \in S \X S : p[1].id < p[2].id}
           q == Incoming(input, id)
           size == Cardinality(S)
<1>1. S \subseteq input.edges /\ IsFiniteSet(S)
  BY SubsetSize DEF Into, Sane
<1>2. \A d \in S : d.id \in Nat
  BY <1>1, ValidFacts DEF Sane
<1>3. \A d, e \in S : d.id = e.id => d = e
  BY <1>1, ValidFacts DEF Sane
<1>4. \A d, e \in S : <<d, e>> \in B <=> d.id < e.id
  OBVIOUS
<1> HIDE DEF B
<1>5. q = [i \in 1..size |-> CHOOSE e \in S : Cardinality({d \in S : d.id < e.id}) = i - 1]
  BY DEF Incoming
<1> HIDE DEF S, q
<1>6. StrictOrder(B, S)
  <2>1. \A n \in S : <<n, n>> \notin B
    BY <1>2, <1>4
  <2>2. \A m, n \in S : m # n => <<m, n>> \in B \/ <<n, m>> \in B
    BY <1>2, <1>3, <1>4
  <2>3. \A k, m, n \in S : <<k, m>> \in B /\ <<m, n>> \in B => <<k, n>> \in B
    BY <1>2, <1>4
  <2> QED
    BY <2>1, <2>2, <2>3 DEF StrictOrder
<1>7. \A n \in S : BelowIn(B, S, n) = {m \in S : m.id < n.id}
  BY <1>4 DEF BelowIn
<1> DEFINE Below(n) == {m \in S : m.id < n.id}
<1>8. \A i \in 1..size : (\E n \in S : Cardinality(Below(n)) = i - 1)
         => q[i] \in S /\ Cardinality(Below(q[i])) = i - 1
  <2> TAKE i \in 1..size
  <2>1. q[i] = CHOOSE n \in S : Cardinality(Below(n)) = i - 1
    BY <1>5
  <2> HIDE DEF Below, size
  <2> QED
    BY <2>1
<1>9. q = [i \in 1..size |-> q[i]]
  <2> DEFINE at(i) == CHOOSE n \in S : Cardinality(Below(n)) = i - 1
  <2>1. q = [i \in 1..size |-> at(i)]
    BY <1>5
  <2> HIDE DEF at, size
  <2> QED
    BY <2>1
<1>10. RankedBy(B, S, q)
  BY <1>7, <1>8, <1>9 DEF RankedBy
<1>11. q \in Seq(S) /\ Range(q) = S
  BY <1>1, <1>6, <1>10, RankFacts
<1> QED
  BY <1>11 DEF q, S

(* There are no more ids than nodes.                                       *)
LEMMA FewIds ==
  ASSUME NEW S, IsFiniteSet(S)
  PROVE  IsFiniteSet(Ids(S)) /\ Cardinality(Ids(S)) \in Nat /\ Cardinality(Ids(S)) <= Cardinality(S)
<1> DEFINE g == [x \in S |-> x.id]
<1>1. g \in Surjection(S, Ids(S))
  BY DEF Surjection, Ids
<1> HIDE DEF g
<1>2. IsFiniteSet(Ids(S)) /\ Cardinality(Ids(S)) <= Cardinality(S)
  BY <1>1, FS_Surjection
<1> QED
  BY <1>2, FS_CardinalityType

-----------------------------------------------------------------------------
(* The ways to a release.  A way of k edges meets k + 1 nodes, so that no  *)
(* way is longer than there are nodes.                                     *)
Placed(input, w) ==
  w.nodes \in Seq(Ids(input.nodes)) /\ w.nodes # <<>> /\ w.edges \in Seq(Ids(input.edges))
Meets(w, k) == IsFiniteSet(Range(w.nodes)) /\ Cardinality(Range(w.nodes)) = k

LEMMA StartIsPlaced ==
  ASSUME NEW input, NEW r \in Ids(input.nodes)
  PROVE  Placed(input, Start(r)) /\ Meets(Start(r), 1)
<1>1. Start(r).nodes = <<r>> /\ Start(r).edges = <<>>
  BY DEF Start
<1>2. <<r>> \in Seq(Ids(input.nodes)) /\ <<r>> # <<>> /\ DOMAIN <<r>> = {1} /\ <<r>>[1] = r
  OBVIOUS
<1>3. Range(<<r>>) = {r}
  BY <1>2 DEF Range
<1>4. IsFiniteSet({r}) /\ Cardinality({r}) = 1
  BY FS_Singleton
<1>5. <<>> \in Seq(Ids(input.edges))
  OBVIOUS
<1> QED
  BY <1>1, <1>2, <1>3, <1>4, <1>5, Zenon DEF Placed, Meets

LEMMA PrecededIsPlaced ==
  ASSUME NEW input, Valid(input), NEW w, Placed(input, w), NEW e \in Leading(input, w)
  PROVE  /\ Placed(input, Preceded(w, e))
         /\ Preceded(w, e).nodes[1] = e.source /\ Preceded(w, e).edges[1] = e.id
         /\ \A k \in Nat : Meets(w, k) => Meets(Preceded(w, e), k + 1)
<1>1. e \in input.edges /\ e.source \notin Range(w.nodes)
  BY ToSetIsRange DEF Leading, Into
<1>2. e.source \in Ids(input.nodes) /\ e.id \in Ids(input.edges)
  BY <1>1, ValidFacts
<1>3. /\ Preceded(w, e).nodes = <<e.source>> \o w.nodes
      /\ Preceded(w, e).edges = <<e.id>> \o w.edges
  BY DEF Preceded
<1>4. w.nodes \in Seq(Ids(input.nodes)) /\ w.edges \in Seq(Ids(input.edges))
  BY DEF Placed
<1>5. /\ <<e.source>> \o w.nodes \in Seq(Ids(input.nodes)) /\ <<e.source>> \o w.nodes # <<>>
      /\ (<<e.source>> \o w.nodes)[1] = e.source
      /\ Range(<<e.source>> \o w.nodes) = {e.source} \cup Range(w.nodes)
  BY <1>2, <1>4, PrependFacts
<1>6. <<e.id>> \o w.edges \in Seq(Ids(input.edges)) /\ (<<e.id>> \o w.edges)[1] = e.id
  BY <1>2, <1>4, PrependFacts
<1>7. Placed(input, Preceded(w, e))
  BY <1>3, <1>5, <1>6, Zenon DEF Placed
<1>8. ASSUME NEW k \in Nat, Meets(w, k) PROVE Meets(Preceded(w, e), k + 1)
  <2>1. Range(Preceded(w, e).nodes) = Range(w.nodes) \cup {e.source}
    BY <1>3, <1>5, Zenon
  <2>2. IsFiniteSet(Range(w.nodes)) /\ Cardinality(Range(w.nodes)) = k
    BY <1>8 DEF Meets
  <2>3. /\ IsFiniteSet(Range(w.nodes) \cup {e.source})
        /\ Cardinality(Range(w.nodes) \cup {e.source}) = k + 1
    BY <1>1, <2>2, FS_AddElement
  <2> QED
    BY <2>1, <2>3 DEF Meets
<1> QED
  BY <1>3, <1>5, <1>6, <1>7, <1>8

(* The ways, with the one of no edge: every edge that leads on makes a     *)
(* way, every other way is made so, and there are no others.               *)
WaysTo(input, r) == Ways(input, r) \cup {Start(r)}
WaysAreClosed(input, r) ==
  /\ \A w \in WaysTo(input, r) : Placed(input, w)
  /\ \A w \in WaysTo(input, r) : \A e \in Leading(input, w) : Preceded(w, e) \in Ways(input, r)
  /\ \A v \in Ways(input, r) : \E w \in WaysTo(input, r) : \E e \in Leading(input, w) : v = Preceded(w, e)
WaysAreLeast(input, r) ==
  \A D : Start(r) \in D /\ (\A w \in D : \A e \in Leading(input, w) : Preceded(w, e) \in D)
           => WaysTo(input, r) \subseteq D

LEMMA WaysToFacts ==
  ASSUME NEW input, Sane(input), NEW r \in Ids(input.nodes)
  PROVE  WaysAreClosed(input, r) /\ WaysAreLeast(input, r)
<1> DEFINE N == Cardinality(input.nodes)
           W == WaysTo(input, r)
<1>1. N \in Nat /\ IsFiniteSet(Ids(input.nodes)) /\ Cardinality(Ids(input.nodes)) \in Nat
      /\ Cardinality(Ids(input.nodes)) <= N
  BY FewIds, FS_CardinalityType DEF Sane
<1>2. PICK f : /\ Unwinds(f, N, {Start(r)}, WaysHow(input))
               /\ Ways(input, r) = UNION {f[k] : k \in 1..N}
  BY <1>1, WaysRun
<1>3. f[0] = {Start(r)}
  BY <1>2 DEF Unwinds
<1>4. \A k \in 1..N : f[k] = UNION {{Preceded(w, e) : e \in Leading(input, w)} : w \in f[k - 1]}
  BY <1>2, HowsRedo DEF Unwinds
<1>5. \A k \in 1..N : \A v : v \in f[k] <=> \E w \in f[k - 1] : \E e \in Leading(input, w) : v = Preceded(w, e)
  BY <1>4
<1> DEFINE G == {k \in 0..N : \A w \in f[k] : Placed(input, w) /\ Meets(w, k + 1)}
<1>6. 0..N \subseteq G
  <2>1. 0 \in G
    BY <1>1, <1>3, StartIsPlaced
  <2>2. ASSUME NEW k \in 0..N, k \in G, k < N PROVE k + 1 \in G
    <3>1. k + 1 \in 1..N /\ k + 1 \in 0..N /\ (k + 1) - 1 = k /\ k + 1 \in Nat
      BY <1>1, <2>2
    <3>2. ASSUME NEW v \in f[k + 1] PROVE Placed(input, v) /\ Meets(v, (k + 1) + 1)
      <4>1. PICK w \in f[k] : \E e \in Leading(input, w) : v = Preceded(w, e)
        BY <1>5, <3>1
      <4>2. PICK e \in Leading(input, w) : v = Preceded(w, e)
        BY <4>1
      <4>3. Placed(input, w) /\ Meets(w, k + 1)
        BY <2>2
      <4> QED
        BY <3>1, <4>2, <4>3, PrecededIsPlaced DEF Sane
    <3> QED
      BY <3>1, <3>2
  <2> HIDE DEF G
  <2> QED
    BY <1>1, <2>1, <2>2, UpTo
<1>7. \A k \in 0..N : \A w \in f[k] : Placed(input, w) /\ Meets(w, k + 1)
  BY <1>6
<1> HIDE DEF G
<1>8. \A w : w \in W <=> \E k \in 0..N : w \in f[k]
  <2>1. 0..N = {0} \cup 1..N
    BY <1>1
  <2> HIDE DEF N
  <2>2. \A w : w \in Ways(input, r) <=> \E k \in 1..N : w \in f[k]
    BY <1>2
  <2> QED
    BY <1>3, <2>1, <2>2 DEF WaysTo
<1>9. \A w \in W : Placed(input, w)
  BY <1>7, <1>8
<1>10. ASSUME NEW w \in W, NEW e \in Leading(input, w) PROVE Preceded(w, e) \in Ways(input, r)
  <2>1. PICK k \in 0..N : w \in f[k]
    BY <1>8
  <2>2. Placed(input, w) /\ Meets(w, k + 1) /\ k + 1 \in Nat
    BY <1>1, <1>7, <2>1
  <2>3. Placed(input, Preceded(w, e)) /\ Meets(Preceded(w, e), (k + 1) + 1)
    BY <2>2, PrecededIsPlaced DEF Sane
  <2>4. Range(Preceded(w, e).nodes) \subseteq Ids(input.nodes)
    BY <2>3, SequenceRange DEF Placed
  <2>5. (k + 1) + 1 <= Cardinality(Ids(input.nodes))
    BY <1>1, <2>3, <2>4, SubsetSize DEF Meets
  <2>6. k + 1 \in 1..N /\ (k + 1) - 1 = k
    BY <1>1, <2>5
  <2>7. Preceded(w, e) \in f[k + 1]
    BY <1>5, <2>1, <2>6
  <2> QED
    BY <1>2, <2>6, <2>7
<1>11. ASSUME NEW v \in Ways(input, r)
       PROVE  \E w \in W : \E e \in Leading(input, w) : v = Preceded(w, e)
  <2>1. PICK k \in 1..N : v \in f[k]
    BY <1>2
  <2>2. PICK w \in f[k - 1] : \E e \in Leading(input, w) : v = Preceded(w, e)
    BY <1>5, <2>1
  <2>3. k - 1 \in 0..N
    BY <1>1
  <2> QED
    BY <1>8, <2>2, <2>3
<1>12. ASSUME NEW D, Start(r) \in D, \A w \in D : \A e \in Leading(input, w) : Preceded(w, e) \in D
       PROVE  W \subseteq D
  <2> DEFINE H == {k \in 0..N : f[k] \subseteq D}
  <2>1. 0 \in H
    BY <1>1, <1>3, <1>12
  <2>2. ASSUME NEW k \in 0..N, k \in H, k < N PROVE k + 1 \in H
    <3>1. k + 1 \in 1..N /\ k + 1 \in 0..N /\ (k + 1) - 1 = k
      BY <1>1, <2>2
    <3>2. \A v \in f[k + 1] : \E w \in f[k] : \E e \in Leading(input, w) : v = Preceded(w, e)
      BY <1>5, <3>1
    <3>3. f[k + 1] \subseteq D
      BY <1>12, <2>2, <3>2
    <3> QED
      BY <3>1, <3>3
  <2>3. 0..N \subseteq H
    <3> HIDE DEF H
    <3> QED
      BY <1>1, <2>1, <2>2, UpTo
  <2> QED
    BY <1>8, <2>3
<1> QED
  BY <1>9, <1>10, <1>11, <1>12 DEF WaysAreClosed, WaysAreLeast

-----------------------------------------------------------------------------
(* A walk back from a release, over the ways W, of at most `most` states:  *)
(* what it has found is of `all`, or warns, or says that it was cut short. *)
Walk(queue, states, findings, risks, inspected, truncated, stop) ==
  [queue |-> queue, states |-> states, findings |-> findings, risks |-> risks,
   inspected |-> inspected, truncated |-> truncated, stop |-> stop]
IsWalk(t) == t = Walk(t.queue, t.states, t.findings, t.risks, t.inspected, t.truncated, t.stop)

Notice(f) == f.way = NoWay /\ f.severity = "quarantine"
Warranted(all, t, f) ==
  f \in all \/ (f.way = NoWay /\ f.severity = "warning") \/ (t.truncated /\ Notice(f))
GoodWalk(all, W, most, t) ==
  /\ IsWalk(t)
  /\ t.queue \in Seq(W) /\ t.states \in Nat /\ t.states <= most
  /\ t.truncated \in BOOLEAN /\ t.stop \in BOOLEAN /\ (t.stop => t.truncated)
  /\ \A f \in t.findings : Warranted(all, t, f)

Keeps(t, u) ==
  t.findings \subseteq u.findings /\ (t.truncated => u.truncated) /\ (t.stop => u.stop)
Gains(all, W, most, t, u) ==
  GoodWalk(all, W, most, u) /\ Keeps(t, u) /\ u.queue = t.queue /\ u.states = t.states

(* The seven fields, one of them changed.                                  *)
LEMMA WalkUpdates ==
  ASSUME NEW t, IsWalk(t)
  PROVE  /\ \A q : [t EXCEPT !.queue = q]
                     = Walk(q, t.states, t.findings, t.risks, t.inspected, t.truncated, t.stop)
         /\ \A q, n : [t EXCEPT !.states = n, !.queue = q]
                     = Walk(q, n, t.findings, t.risks, t.inspected, t.truncated, t.stop)
         /\ \A s : [t EXCEPT !.findings = s]
                     = Walk(t.queue, t.states, s, t.risks, t.inspected, t.truncated, t.stop)
         /\ \A s : [t EXCEPT !.risks = s]
                     = Walk(t.queue, t.states, t.findings, s, t.inspected, t.truncated, t.stop)
         /\ \A s : [t EXCEPT !.inspected = s]
                     = Walk(t.queue, t.states, t.findings, t.risks, s, t.truncated, t.stop)
         /\ [t EXCEPT !.truncated = TRUE]
                     = Walk(t.queue, t.states, t.findings, t.risks, t.inspected, TRUE, t.stop)
         /\ [t EXCEPT !.stop = TRUE]
                     = Walk(t.queue, t.states, t.findings, t.risks, t.inspected, t.truncated, TRUE)
         /\ \A s : [t EXCEPT !.truncated = TRUE, !.stop = TRUE, !.findings = s]
                     = Walk(t.queue, t.states, s, t.risks, t.inspected, TRUE, TRUE)
<1>1. t = [queue |-> t.queue, states |-> t.states, findings |-> t.findings, risks |-> t.risks,
           inspected |-> t.inspected, truncated |-> t.truncated, stop |-> t.stop]
  BY DEF IsWalk, Walk
<1>2. \A q : [t EXCEPT !.queue = q]
                     = Walk(q, t.states, t.findings, t.risks, t.inspected, t.truncated, t.stop)
  BY <1>1 DEF Walk
<1>a. ASSUME NEW q, NEW n
      PROVE  [t EXCEPT !.states = n, !.queue = q]
               = Walk(q, n, t.findings, t.risks, t.inspected, t.truncated, t.stop)
  <2>1. PICK u : u = [t EXCEPT !.states = n]
    OBVIOUS
  <2>2. u = Walk(t.queue, n, t.findings, t.risks, t.inspected, t.truncated, t.stop)
    BY <1>1, <2>1 DEF Walk
  <2>3. [u EXCEPT !.queue = q] = Walk(q, n, t.findings, t.risks, t.inspected, t.truncated, t.stop)
    BY <2>2 DEF Walk
  <2>4. [t EXCEPT !.states = n, !.queue = q] = [u EXCEPT !.queue = q]
    BY <2>1
  <2> QED
    BY <2>3, <2>4
<1>3. \A s : [t EXCEPT !.findings = s]
                     = Walk(t.queue, t.states, s, t.risks, t.inspected, t.truncated, t.stop)
  BY <1>1 DEF Walk
<1>4. \A s : [t EXCEPT !.risks = s]
                     = Walk(t.queue, t.states, t.findings, s, t.inspected, t.truncated, t.stop)
  BY <1>1 DEF Walk
<1>5. \A s : [t EXCEPT !.inspected = s]
                     = Walk(t.queue, t.states, t.findings, t.risks, s, t.truncated, t.stop)
  BY <1>1 DEF Walk
<1>6. \A b : [t EXCEPT !.truncated = b]
                     = Walk(t.queue, t.states, t.findings, t.risks, t.inspected, b, t.stop)
  BY <1>1 DEF Walk
<1>7. \A b : [t EXCEPT !.stop = b]
                     = Walk(t.queue, t.states, t.findings, t.risks, t.inspected, t.truncated, b)
  BY <1>1 DEF Walk
<1>8. ASSUME NEW a, NEW b, NEW s
      PROVE  [t EXCEPT !.truncated = a, !.stop = b, !.findings = s]
               = Walk(t.queue, t.states, s, t.risks, t.inspected, a, b)
  <2>1. PICK u : u = [t EXCEPT !.truncated = a]
    OBVIOUS
  <2>2. PICK v : v = [u EXCEPT !.stop = b]
    OBVIOUS
  <2>3. v = Walk(t.queue, t.states, t.findings, t.risks, t.inspected, a, b)
    BY <1>1, <2>1, <2>2 DEF Walk
  <2>4. [v EXCEPT !.findings = s] = Walk(t.queue, t.states, s, t.risks, t.inspected, a, b)
    BY <2>3 DEF Walk
  <2>5. [t EXCEPT !.truncated = a, !.stop = b, !.findings = s] = [v EXCEPT !.findings = s]
    BY <2>1, <2>2
  <2> QED
    BY <2>4, <2>5
<1>9. [t EXCEPT !.truncated = TRUE]
                     = Walk(t.queue, t.states, t.findings, t.risks, t.inspected, TRUE, t.stop)
  BY <1>6, Zenon
<1>10. [t EXCEPT !.stop = TRUE]
                     = Walk(t.queue, t.states, t.findings, t.risks, t.inspected, t.truncated, TRUE)
  BY <1>7, Zenon
<1>11. \A s : [t EXCEPT !.truncated = TRUE, !.stop = TRUE, !.findings = s]
                     = Walk(t.queue, t.states, s, t.risks, t.inspected, TRUE, TRUE)
  BY <1>8, Zenon
<1> QED
  BY <1>2, <1>a, <1>3, <1>4, <1>5, <1>9, <1>10, <1>11, Zenon

LEMMA WalkFields ==
  ASSUME NEW a, NEW b, NEW c, NEW d, NEW e, NEW g, NEW h
  PROVE  LET t == Walk(a, b, c, d, e, g, h)
         IN  /\ IsWalk(t) /\ t.queue = a /\ t.states = b /\ t.findings = c /\ t.risks = d
             /\ t.inspected = e /\ t.truncated = g /\ t.stop = h
BY DEF IsWalk, Walk

LEMMA GainsAgain ==
  ASSUME NEW all, NEW W, NEW most, NEW t, NEW u, NEW v, Gains(all, W, most, t, u), Gains(all, W, most, u, v)
  PROVE  Gains(all, W, most, t, v)
BY DEF Gains, Keeps

LEMMA NothingGained ==
  ASSUME NEW all, NEW W, NEW most, NEW t, GoodWalk(all, W, most, t)
  PROVE  /\ Gains(all, W, most, t, t)
         /\ \A s : Gains(all, W, most, t, [t EXCEPT !.risks = s])
         /\ \A s : Gains(all, W, most, t, [t EXCEPT !.inspected = s])
         /\ Gains(all, W, most, t, [t EXCEPT !.truncated = TRUE])
         /\ t.truncated => Gains(all, W, most, t, [t EXCEPT !.stop = TRUE])
<1>1. IsWalk(t)
  BY DEF GoodWalk
<1>2. Gains(all, W, most, t, t)
  BY DEF Gains, Keeps
<1>3. ASSUME NEW s PROVE Gains(all, W, most, t, [t EXCEPT !.risks = s])
  <2>1. PICK u : u = Walk(t.queue, t.states, t.findings, s, t.inspected, t.truncated, t.stop)
    OBVIOUS
  <2>2. [t EXCEPT !.risks = s] = u
    BY <1>1, <2>1, WalkUpdates
  <2>3. /\ IsWalk(u) /\ u.queue = t.queue /\ u.states = t.states /\ u.findings = t.findings
        /\ u.truncated = t.truncated /\ u.stop = t.stop
    BY <2>1, WalkFields
  <2>4. Gains(all, W, most, t, u)
    BY <2>3 DEF Gains, Keeps, GoodWalk, Warranted
  <2> QED
    BY <2>2, <2>4
<1>4. ASSUME NEW s PROVE Gains(all, W, most, t, [t EXCEPT !.inspected = s])
  <2>1. PICK u : u = Walk(t.queue, t.states, t.findings, t.risks, s, t.truncated, t.stop)
    OBVIOUS
  <2>2. [t EXCEPT !.inspected = s] = u
    BY <1>1, <2>1, WalkUpdates
  <2>3. /\ IsWalk(u) /\ u.queue = t.queue /\ u.states = t.states /\ u.findings = t.findings
        /\ u.truncated = t.truncated /\ u.stop = t.stop
    BY <2>1, WalkFields
  <2>4. Gains(all, W, most, t, u)
    BY <2>3 DEF Gains, Keeps, GoodWalk, Warranted
  <2> QED
    BY <2>2, <2>4
<1>5. Gains(all, W, most, t, [t EXCEPT !.truncated = TRUE])
  <2>1. PICK u : u = Walk(t.queue, t.states, t.findings, t.risks, t.inspected, TRUE, t.stop)
    OBVIOUS
  <2>2. [t EXCEPT !.truncated = TRUE] = u
    BY <1>1, <2>1, WalkUpdates
  <2>3. /\ IsWalk(u) /\ u.queue = t.queue /\ u.states = t.states /\ u.findings = t.findings
        /\ u.truncated = TRUE /\ u.stop = t.stop
    BY <2>1 DEF IsWalk, Walk
  <2>4. Gains(all, W, most, t, u)
    BY <2>3 DEF Gains, Keeps, GoodWalk, Warranted
  <2> QED
    BY <2>2, <2>4
<1>6. ASSUME t.truncated PROVE Gains(all, W, most, t, [t EXCEPT !.stop = TRUE])
  <2>1. PICK u : u = Walk(t.queue, t.states, t.findings, t.risks, t.inspected, t.truncated, TRUE)
    OBVIOUS
  <2>2. [t EXCEPT !.stop = TRUE] = u
    BY <1>1, <2>1, WalkUpdates
  <2>3. /\ IsWalk(u) /\ u.queue = t.queue /\ u.states = t.states /\ u.findings = t.findings
        /\ u.truncated = t.truncated /\ u.stop = TRUE
    BY <2>1 DEF IsWalk, Walk
  <2>4. Gains(all, W, most, t, u)
    BY <1>6, <2>3 DEF Gains, Keeps, GoodWalk, Warranted
  <2> QED
    BY <2>2, <2>4
<1> QED
  BY <1>2, <1>3, <1>4, <1>5, <1>6

(* A finding that is due is recorded, or the walk is cut short.            *)
LEMMA RecordFacts ==
  ASSUME NEW all, NEW W, NEW most, NEW t, GoodWalk(all, W, most, t), NEW o, NEW f, Warranted(all, t, f)
  PROVE  /\ Gains(all, W, most, t, Record(t, o, f))
         /\ ~Record(t, o, f).truncated => f \in Record(t, o, f).findings
<1>1. IsWalk(t)
  BY DEF GoodWalk
<1>2. CASE f \in t.findings
  <2>1. Record(t, o, f) = t
    BY <1>2 DEF Record
  <2> QED
    BY <1>2, <2>1, NothingGained
<1>3. CASE f \notin t.findings /\ Cardinality(t.findings) >= o.findings - 1
  <2> DEFINE g == General("finding-limit-reached")
             s == t.findings \cup {g}
  <2>1. PICK u : u = Walk(t.queue, t.states, s, t.risks, t.inspected, TRUE, TRUE)
    OBVIOUS
  <2>2. Record(t, o, f) = u
    BY <1>1, <1>3, <2>1, WalkUpdates DEF Record
  <2>3. Notice(g)
    BY DEF Notice, General, Finding
  <2> HIDE DEF g
  <2>4. /\ IsWalk(u) /\ u.queue = t.queue /\ u.states = t.states /\ u.findings = t.findings \cup {g}
        /\ u.truncated = TRUE /\ u.stop = TRUE
    BY <2>1 DEF IsWalk, Walk
  <2>5. Gains(all, W, most, t, u)
    BY <2>3, <2>4 DEF Gains, Keeps, GoodWalk, Warranted
  <2> QED
    BY <2>2, <2>4, <2>5
<1>4. CASE f \notin t.findings /\ ~(Cardinality(t.findings) >= o.findings - 1)
  <2>1. PICK u : u = Walk(t.queue, t.states, t.findings \cup {f}, t.risks, t.inspected, t.truncated, t.stop)
    OBVIOUS
  <2>2. Record(t, o, f) = u
    BY <1>1, <1>4, <2>1, WalkUpdates DEF Record
  <2>3. /\ IsWalk(u) /\ u.queue = t.queue /\ u.states = t.states /\ u.findings = t.findings \cup {f}
        /\ u.truncated = t.truncated /\ u.stop = t.stop
    BY <2>1, WalkFields
  <2>4. Gains(all, W, most, t, u)
    BY <2>3 DEF Gains, Keeps, GoodWalk, Warranted
  <2> QED
    BY <2>2, <2>3, <2>4
<1> QED
  BY <1>2, <1>3, <1>4

LEMMA AddFindingFacts ==
  ASSUME NEW all, NEW W, NEW most, NEW t, GoodWalk(all, W, most, t), NEW o, NEW f, Warranted(all, t, f)
  PROVE  /\ Gains(all, W, most, t, AddFinding(t, o, f))
         /\ ~AddFinding(t, o, f).truncated => f \in AddFinding(t, o, f).findings
<1>1. PICK u : u = Record(t, o, f)
  OBVIOUS
<1>2. Gains(all, W, most, t, u) /\ (~u.truncated => f \in u.findings) /\ GoodWalk(all, W, most, u)
  BY <1>1, RecordFacts DEF Gains
<1> DEFINE passed == \/ f \in t.findings \/ f \notin u.findings
                     \/ f.way = NoWay \/ f.severity = "warning" \/ f.way \in t.risks
<1>3. AddFinding(t, o, f)
        = IF passed THEN u
          ELSE IF Cardinality(t.risks) < o.paths THEN [u EXCEPT !.risks = @ \cup {f.way}]
          ELSE Record([u EXCEPT !.truncated = TRUE], o, General("risk-path-limit-reached"))
  BY <1>1 DEF AddFinding
<1> HIDE DEF passed
<1>4. CASE passed
  BY <1>2, <1>3, <1>4
<1>5. CASE ~passed /\ Cardinality(t.risks) < o.paths
  <2>1. PICK v : v = [u EXCEPT !.risks = u.risks \cup {f.way}]
    OBVIOUS
  <2>2. Gains(all, W, most, u, v)
    BY <1>2, <2>1, NothingGained
  <2>3. AddFinding(t, o, f) = v
    BY <1>3, <1>5, <2>1
  <2>4. Gains(all, W, most, t, v)
    BY <1>2, <2>2, GainsAgain
  <2>5. ~v.truncated => f \in v.findings
    BY <1>2, <2>2 DEF Gains, Keeps
  <2> QED
    BY <2>3, <2>4, <2>5
<1>6. CASE ~passed /\ ~(Cardinality(t.risks) < o.paths)
  <2> DEFINE g == General("risk-path-limit-reached")
  <2>1. PICK v : v = [u EXCEPT !.truncated = TRUE]
    OBVIOUS
  <2>2. Gains(all, W, most, u, v)
    BY <1>2, <2>1, NothingGained
  <2>3. v.truncated = TRUE
    BY <1>2, <2>1 DEF GoodWalk, IsWalk, Walk
  <2>4. Warranted(all, v, g) /\ GoodWalk(all, W, most, v)
    BY <2>2, <2>3 DEF Warranted, Notice, General, Finding, Gains
  <2> HIDE DEF g
  <2>5. PICK x : x = Record(v, o, g)
    OBVIOUS
  <2>6. Gains(all, W, most, v, x)
    BY <2>4, <2>5, RecordFacts
  <2>7. AddFinding(t, o, f) = x
    BY <1>3, <1>6, <2>1, <2>5 DEF g
  <2>8. Gains(all, W, most, t, v)
    BY <1>2, <2>2, GainsAgain
  <2>9. Gains(all, W, most, t, x)
    BY <2>6, <2>8, GainsAgain
  <2>10. x.truncated
    BY <2>3, <2>6 DEF Gains, Keeps
  <2> QED
    BY <2>7, <2>9, <2>10
<1> QED
  BY <1>4, <1>5, <1>6

LEMMA TruncateFacts ==
  ASSUME NEW all, NEW W, NEW most, NEW t, GoodWalk(all, W, most, t), NEW o, NEW f, Notice(f)
  PROVE  Gains(all, W, most, t, Truncate(t, o, f)) /\ Truncate(t, o, f).truncated
<1>1. PICK v : v = [t EXCEPT !.truncated = TRUE]
  OBVIOUS
<1>2. Gains(all, W, most, t, v)
  BY <1>1, NothingGained
<1>3. v.truncated = TRUE
  BY <1>1 DEF GoodWalk, IsWalk, Walk
<1>4. Warranted(all, v, f) /\ GoodWalk(all, W, most, v)
  BY <1>2, <1>3 DEF Warranted, Gains
<1>5. PICK x : x = AddFinding(v, o, f)
  OBVIOUS
<1>6. Gains(all, W, most, v, x)
  BY <1>4, <1>5, AddFindingFacts
<1>7. Truncate(t, o, f) = x
  BY <1>1, <1>5 DEF Truncate
<1>8. Gains(all, W, most, t, x)
  BY <1>2, <1>6, GainsAgain
<1>9. x.truncated
  BY <1>3, <1>6 DEF Gains, Keeps
<1> QED
  BY <1>7, <1>8, <1>9

LEMMA AddAllFacts ==
  ASSUME NEW all, NEW W, NEW most, NEW t, GoodWalk(all, W, most, t), NEW o,
         NEW list \in Seq(all)
  PROVE  /\ Gains(all, W, most, t, AddAll(t, o, list))
         /\ ~AddAll(t, o, list).truncated => ToSet(list) \subseteq AddAll(t, o, list).findings
<1>1. Len(list) \in Nat /\ DOMAIN list = 1..Len(list) /\ \A i \in 1..Len(list) : list[i] \in all
  OBVIOUS
<1> DEFINE N == Len(list)
<1>2. PICK f : Unwinds(f, N, t, ConcernsHow(o, list)) /\ AddAll(t, o, list) = f[N]
  BY <1>1, AddAllRuns
<1> HIDE DEF N
<1>3. f[0] = t /\ \A i \in 1..N : f[i] = AddFinding(f[i - 1], o, list[i])
  BY <1>2, HowsRedo DEF Unwinds
<1> DEFINE Has(i) == \A j \in 1..i : list[j] \in f[i].findings
           G == {i \in 0..N : Gains(all, W, most, t, f[i]) /\ (~f[i].truncated => Has(i))}
<1>4. 0 \in G
  <2>1. 1..0 = {} /\ 0 \in 0..N
    BY <1>1 DEF N
  <2>2. Gains(all, W, most, t, f[0])
    BY <1>3, NothingGained
  <2> QED
    BY <2>1, <2>2
<1>5. ASSUME NEW i \in 0..N, i \in G, i < N PROVE i + 1 \in G
  <2>1. i + 1 \in 1..N /\ i + 1 \in 0..N /\ (i + 1) - 1 = i /\ i \in Nat
    BY <1>1, <1>5 DEF N
  <2>2. f[i + 1] = AddFinding(f[i], o, list[i + 1])
    BY <1>3, <2>1
  <2>3. PICK u : u = f[i]
    OBVIOUS
  <2>4. PICK v : v = f[i + 1]
    OBVIOUS
  <2>5. Gains(all, W, most, t, u) /\ GoodWalk(all, W, most, u)
    BY <1>5, <2>3 DEF Gains
  <2>6. Warranted(all, u, list[i + 1])
    BY <1>1, <2>1 DEF Warranted, N
  <2>7. Gains(all, W, most, u, v) /\ (~v.truncated => list[i + 1] \in v.findings)
    BY <2>2, <2>3, <2>4, <2>5, <2>6, AddFindingFacts
  <2>8. Gains(all, W, most, t, v)
    BY <2>5, <2>7, GainsAgain
  <2>9. ASSUME ~v.truncated, NEW j \in 1..(i + 1) PROVE list[j] \in v.findings
    <3>1. ~u.truncated /\ u.findings \subseteq v.findings
      BY <2>7, <2>9 DEF Gains, Keeps
    <3>2. CASE j = i + 1
      BY <2>7, <2>9, <3>2
    <3>3. CASE j \in 1..i
      BY <1>5, <2>3, <3>1, <3>3
    <3> QED
      BY <2>1, <3>2, <3>3
  <2> QED
    BY <2>1, <2>4, <2>8, <2>9
<1>6. N \in G
  <2> HIDE DEF G
  <2>1. 0..N \subseteq G
    BY <1>1, <1>4, <1>5, UpTo DEF N
  <2> QED
    BY <1>1, <2>1 DEF N
<1>7. ToSet(list) = {list[j] : j \in 1..N}
  BY <1>1 DEF ToSet, N
<1> QED
  BY <1>2, <1>6, <1>7

-----------------------------------------------------------------------------
(* The walk of one evaluation.                                             *)
Proper(o, input, r) ==
  /\ Sane(input) /\ r \in Ids(input.nodes)
  /\ o.states \in Nat \ {0} /\ o.incoming \in Nat \ {0}
Good(o, input, r, t) == GoodWalk(Concerns(o, input, r), WaysTo(input, r), o.states, t)
Gained(o, input, r, t, u) == Gains(Concerns(o, input, r), WaysTo(input, r), o.states, t, u)

(* A walk goes on: as many states as are waiting are new.                  *)
Advances(o, input, r, t, u) ==
  /\ Good(o, input, r, u) /\ Keeps(t, u) /\ Range(t.queue) \subseteq Range(u.queue)
  /\ u.states + Len(t.queue) = t.states + Len(u.queue)

(* What an edge leads to is waiting, and what there is to doubt is found.  *)
LookedAt(o, input, w, e, u) ==
  e.source \notin ToSet(w.nodes) =>
    /\ Preceded(w, e) \in Range(u.queue)
    /\ ToSet(WayConcerns(o, input, Preceded(w, e))) \subseteq u.findings

LEMMA AdvancesFacts ==
  ASSUME NEW o, NEW input, NEW r
  PROVE  /\ \A t, u : Good(o, input, r, t) /\ Gained(o, input, r, t, u) => Advances(o, input, r, t, u)
         /\ \A t, u, v :
              Good(o, input, r, t) /\ Advances(o, input, r, t, u) /\ Advances(o, input, r, u, v)
                => Advances(o, input, r, t, v)
         /\ \A w, e, u, v : Advances(o, input, r, u, v) /\ LookedAt(o, input, w, e, u) => LookedAt(o, input, w, e, v)
<1>0. \A t : Good(o, input, r, t) => t.states \in Nat /\ Len(t.queue) \in Nat
  BY DEF Good, GoodWalk
<1>1. ASSUME NEW t, NEW u, Good(o, input, r, t), Gained(o, input, r, t, u)
      PROVE  Advances(o, input, r, t, u)
  BY <1>0, <1>1 DEF Gained, Gains, Advances, Good
<1>2. ASSUME NEW t, NEW u, NEW v, Good(o, input, r, t),
             Advances(o, input, r, t, u), Advances(o, input, r, u, v)
      PROVE  Advances(o, input, r, t, v)
  <2>1. Good(o, input, r, u) /\ Good(o, input, r, v)
    BY <1>2 DEF Advances
  <2>2. /\ t.states \in Nat /\ Len(t.queue) \in Nat /\ u.states \in Nat /\ Len(u.queue) \in Nat
        /\ v.states \in Nat /\ Len(v.queue) \in Nat
    BY <1>0, <1>2, <2>1
  <2>3. u.states + Len(t.queue) = t.states + Len(u.queue) /\ v.states + Len(u.queue) = u.states + Len(v.queue)
    BY <1>2 DEF Advances
  <2> DEFINE a == t.states
             b == u.states
             c == v.states
             i == Len(t.queue)
             j == Len(u.queue)
             k == Len(v.queue)
  <2> HIDE DEF a, b, c, i, j, k
  <2>a. a \in Nat /\ b \in Nat /\ c \in Nat /\ i \in Nat /\ j \in Nat /\ k \in Nat
    BY <2>2 DEF a, b, c, i, j, k
  <2>b. b + i = a + j /\ c + j = b + k
    BY <2>3 DEF a, b, c, i, j, k
  <2>c. c + i = a + k
    BY <2>a, <2>b
  <2>4. v.states + Len(t.queue) = t.states + Len(v.queue)
    BY <2>c DEF a, b, c, i, j, k
  <2> QED
    BY <1>2, <2>1, <2>4 DEF Advances, Keeps
<1>3. ASSUME NEW w, NEW e, NEW u, NEW v, Advances(o, input, r, u, v), LookedAt(o, input, w, e, u)
      PROVE  LookedAt(o, input, w, e, v)
  BY <1>3 DEF Advances, Keeps, LookedAt
<1>4. \A t, u : Good(o, input, r, t) /\ Gained(o, input, r, t, u) => Advances(o, input, r, t, u)
  BY <1>1
<1>5. \A t, u, v :
        Good(o, input, r, t) /\ Advances(o, input, r, t, u) /\ Advances(o, input, r, u, v)
          => Advances(o, input, r, t, v)
  BY <1>2
<1>6. \A w, e, u, v : Advances(o, input, r, u, v) /\ LookedAt(o, input, w, e, u) => LookedAt(o, input, w, e, v)
  BY <1>3
<1> QED
  BY <1>4, <1>5, <1>6

LEMMA ConcernsOfWays ==
  ASSUME NEW o, NEW input, NEW r
  PROVE  /\ \A w \in Ways(input, r) : WayConcerns(o, input, w) \in Seq(Concerns(o, input, r))
         /\ ReleaseConcerns(o, input, r) \in Seq(Concerns(o, input, r))
<1>1. \A w \in Ways(input, r) : ToSet(WayConcerns(o, input, w)) \subseteq Concerns(o, input, r)
  BY Zenon DEF Concerns
<1>2. ToSet(ReleaseConcerns(o, input, r)) \subseteq Concerns(o, input, r)
  BY Zenon DEF Concerns
<1>3. ASSUME NEW q, q \in Seq(ToSet(q)), ToSet(q) \subseteq Concerns(o, input, r)
      PROVE  q \in Seq(Concerns(o, input, r))
  BY <1>3, SequenceRange, ToSetIsRange
<1> QED
  BY <1>1, <1>2, <1>3, ConcernsAreLists

(* One incoming edge.                                                      *)
LEMMA InspectFacts ==
  ASSUME NEW o, NEW input, NEW r, Proper(o, input, r), NEW t, Good(o, input, r, t),
         NEW w \in WaysTo(input, r), NEW e \in Into(input, w.nodes[1])
  PROVE  /\ Advances(o, input, r, t, Inspect(t, o, input, w, e))
         /\ ~Inspect(t, o, input, w, e).truncated => LookedAt(o, input, w, e, Inspect(t, o, input, w, e))
<1> DEFINE all == Concerns(o, input, r)
           W == WaysTo(input, r)
           most == o.states
<1>0. /\ GoodWalk(all, W, most, t) /\ IsWalk(t) /\ most \in Nat
      /\ \A u : Gained(o, input, r, t, u) <=> Gains(all, W, most, t, u)
  BY DEF Good, GoodWalk, Gained, Proper
<1> HIDE DEF all, W, most
<1>1. CASE t.stop
  <2>1. Inspect(t, o, input, w, e) = t
    BY <1>1 DEF Inspect
  <2>2. t.truncated
    BY <1>0, <1>1 DEF GoodWalk
  <2>3. Gains(all, W, most, t, t)
    BY <1>0, NothingGained
  <2>4. Advances(o, input, r, t, t)
    BY <1>0, <2>3, AdvancesFacts
  <2> QED
    BY <2>1, <2>2, <2>4
<1>2. CASE ~t.stop /\ e.source \in ToSet(w.nodes)
  <2> DEFINE f == Finding("cycle-skipped", "warning", e.id, NoWay)
  <2>1. PICK looked : looked = [t EXCEPT !.inspected = t.inspected \cup {e.id}]
    OBVIOUS
  <2>l. Gains(all, W, most, t, looked)
    BY <1>0, <2>1, NothingGained
  <2>2. Gains(all, W, most, t, looked) /\ GoodWalk(all, W, most, looked)
    BY <2>l DEF Gains
  <2>3. Warranted(all, looked, f)
    BY DEF Warranted, Finding
  <2>4. Inspect(t, o, input, w, e) = AddFinding(looked, o, f)
    BY <1>2, <2>1 DEF Inspect
  <2> HIDE DEF f
  <2>5. PICK u : u = AddFinding(looked, o, f)
    OBVIOUS
  <2>6. Gains(all, W, most, looked, u)
    BY <2>2, <2>3, <2>5, AddFindingFacts
  <2>7. Gains(all, W, most, t, u)
    BY <2>2, <2>6, GainsAgain
  <2>8. Advances(o, input, r, t, u)
    BY <1>0, <2>7, AdvancesFacts
  <2> QED
    BY <1>2, <2>4, <2>5, <2>8 DEF LookedAt
<1>3. CASE ~t.stop /\ e.source \notin ToSet(w.nodes)
  <2> DEFINE list == WayConcerns(o, input, Preceded(w, e))
             way == Preceded(w, e)
  <2>1. e \in Leading(input, w)
    BY <1>3 DEF Leading
  <2>a. WaysAreClosed(input, r)
    BY WaysToFacts DEF Proper
  <2>b. way \in Ways(input, r)
    BY <2>a, <2>1, Zenon DEF WaysAreClosed
  <2>2. way \in Ways(input, r) /\ way \in W
    BY <2>b DEF WaysTo, W
  <2>3. list \in Seq(all)
    BY <2>2, ConcernsOfWays DEF all
  <2>4. PICK looked : looked = [t EXCEPT !.inspected = t.inspected \cup {e.id}]
    OBVIOUS
  <2>l. Gains(all, W, most, t, looked)
    BY <1>0, <2>4, NothingGained
  <2>5. Gains(all, W, most, t, looked) /\ GoodWalk(all, W, most, looked)
    BY <2>l DEF Gains
  <2>6. PICK judged : judged = AddAll(looked, o, list)
    OBVIOUS
  <2> HIDE DEF list
  <2>7. Gains(all, W, most, looked, judged) /\ (~judged.truncated => ToSet(list) \subseteq judged.findings)
    BY <2>3, <2>5, <2>6, AddAllFacts
  <2>8. Gains(all, W, most, t, judged) /\ GoodWalk(all, W, most, judged)
    BY <2>5, <2>7, GainsAgain DEF Gains
  <2>9. Inspect(t, o, input, w, e)
          = IF judged.states >= o.states
            THEN Truncate([judged EXCEPT !.stop = TRUE], o, General("traversal-state-limit-reached"))
            ELSE [judged EXCEPT !.states = judged.states + 1, !.queue = Append(judged.queue, way)]
    BY <1>3, <2>4, <2>6 DEF Inspect, list
  <2> HIDE DEF way
  <2>10. CASE judged.states >= o.states
    <3> DEFINE f == General("traversal-state-limit-reached")
    <3>1. PICK cut : cut = [judged EXCEPT !.truncated = TRUE]
      OBVIOUS
    <3>2. PICK ended : ended = [cut EXCEPT !.stop = TRUE]
      OBVIOUS
    <3>a. Gains(all, W, most, judged, cut)
      BY <2>8, <3>1, NothingGained
    <3>b. cut.truncated = TRUE
      BY <2>8, <3>1 DEF GoodWalk, IsWalk, Walk
    <3>3. Gains(all, W, most, judged, cut) /\ GoodWalk(all, W, most, cut) /\ cut.truncated = TRUE
      BY <3>a, <3>b DEF Gains
    <3>c. Gains(all, W, most, cut, ended)
      BY <3>2, <3>3, NothingGained
    <3>4. Gains(all, W, most, cut, ended) /\ GoodWalk(all, W, most, ended)
      BY <3>c DEF Gains
    <3>5. [[judged EXCEPT !.stop = TRUE] EXCEPT !.truncated = TRUE] = ended
      <4>1. judged = [queue |-> judged.queue, states |-> judged.states, findings |-> judged.findings,
                      risks |-> judged.risks, inspected |-> judged.inspected,
                      truncated |-> judged.truncated, stop |-> judged.stop]
        BY <2>8 DEF GoodWalk, IsWalk, Walk
      <4>2. PICK x : x = [judged EXCEPT !.stop = TRUE]
        OBVIOUS
      <4>4. [x EXCEPT !.truncated = TRUE] = [cut EXCEPT !.stop = TRUE]
        BY <3>1, <4>1, <4>2
      <4> QED
        BY <3>2, <4>2, <4>4
    <3>6. ended.truncated /\ Notice(f)
      BY <3>3, <3>4 DEF Gains, Keeps, Notice, General, Finding
    <3>7. Warranted(all, ended, f)
      BY <3>6 DEF Warranted
    <3>8. Inspect(t, o, input, w, e) = AddFinding(ended, o, f)
      BY <2>9, <2>10, <3>5 DEF Truncate
    <3> HIDE DEF f
    <3>9. PICK u : u = AddFinding(ended, o, f)
      OBVIOUS
    <3>10. Gains(all, W, most, ended, u)
      BY <3>4, <3>7, <3>9, AddFindingFacts
    <3>11. Gains(all, W, most, t, u)
      BY <2>8, <3>3, <3>4, <3>10, GainsAgain
    <3>12. u.truncated
      BY <3>6, <3>10 DEF Gains, Keeps
    <3>13. Advances(o, input, r, t, u)
      BY <1>0, <3>11, AdvancesFacts
    <3> QED
      BY <3>8, <3>9, <3>12, <3>13
  <2>11. CASE ~(judged.states >= o.states)
    <3>1. PICK u : u = [judged EXCEPT !.states = judged.states + 1, !.queue = Append(judged.queue, way)]
      OBVIOUS
    <3>2. u = Walk(Append(judged.queue, way), judged.states + 1, judged.findings, judged.risks,
                   judged.inspected, judged.truncated, judged.stop)
      BY <2>8, <3>1, WalkUpdates DEF GoodWalk
    <3>3. /\ IsWalk(u) /\ u.queue = Append(judged.queue, way) /\ u.states = judged.states + 1
          /\ u.findings = judged.findings /\ u.truncated = judged.truncated /\ u.stop = judged.stop
      BY <3>2 DEF IsWalk, Walk
    <3>4. /\ judged.queue \in Seq(W) /\ judged.states \in Nat /\ Len(judged.queue) \in Nat
          /\ t.states = judged.states /\ t.queue = judged.queue
      BY <2>8 DEF GoodWalk, Gains
    <3>5. /\ u.queue \in Seq(W) /\ Len(u.queue) = Len(judged.queue) + 1
          /\ Range(u.queue) = Range(judged.queue) \cup {way}
      BY <2>2, <3>3, <3>4, AppendFacts
    <3>6. u.states \in Nat /\ u.states <= most
      BY <1>0, <2>11, <3>3, <3>4 DEF most
    <3>7. GoodWalk(all, W, most, u)
      BY <2>8, <3>3, <3>5, <3>6 DEF GoodWalk, Warranted
    <3>8. Keeps(t, u)
      BY <2>8, <3>3 DEF Gains, Keeps
    <3>9. u.states + Len(t.queue) = t.states + Len(u.queue)
      BY <3>3, <3>4, <3>5
    <3>10. Advances(o, input, r, t, u)
      BY <3>4, <3>5, <3>7, <3>8, <3>9 DEF Advances, Good, all, W, most
    <3>11. ~u.truncated => LookedAt(o, input, w, e, u)
      BY <2>7, <3>3, <3>5 DEF LookedAt, way, list
    <3>12. Inspect(t, o, input, w, e) = u
      BY <2>9, <2>11, <3>1
    <3> QED
      BY <3>10, <3>11, <3>12
  <2> QED
    BY <2>10, <2>11
<1> QED
  BY <1>1, <1>2, <1>3

-----------------------------------------------------------------------------
(* The incoming edges of the node a way has reached, one after the other.  *)
LEMMA LeftOutFacts ==
  ASSUME NEW o, NEW input, NEW r, Proper(o, input, r), NEW t, Good(o, input, r, t),
         NEW node, NEW list
  PROVE  /\ Advances(o, input, r, t, LeftOut(t, o, node, list))
         /\ ~LeftOut(t, o, node, list).truncated => Len(list) <= o.incoming
<1> DEFINE all == Concerns(o, input, r)
           W == WaysTo(input, r)
           most == o.states
<1>1. /\ GoodWalk(all, W, most, t)
      /\ \A u : Gained(o, input, r, t, u) <=> Gains(all, W, most, t, u)
  BY DEF Good, Gained
<1> HIDE DEF all, W, most
<1>2. CASE Len(list) <= o.incoming
  <2>1. LeftOut(t, o, node, list) = t
    BY <1>2 DEF LeftOut
  <2>2. Gains(all, W, most, t, t)
    BY <1>1, NothingGained
  <2>3. Advances(o, input, r, t, t)
    BY <1>1, <2>2, AdvancesFacts
  <2> QED
    BY <1>2, <2>1, <2>3
<1>3. CASE ~(Len(list) <= o.incoming)
  <2> DEFINE f == Finding("incoming-edge-limit-reached", "quarantine", node, NoWay)
  <2>1. Notice(f)
    BY DEF Notice, Finding
  <2>2. LeftOut(t, o, node, list) = Truncate(t, o, f)
    BY <1>3 DEF LeftOut
  <2> HIDE DEF f
  <2>3. PICK u : u = Truncate(t, o, f)
    OBVIOUS
  <2>4. Gains(all, W, most, t, u) /\ u.truncated
    BY <1>1, <2>1, <2>3, TruncateFacts
  <2>5. Advances(o, input, r, t, u)
    BY <1>1, <2>4, AdvancesFacts
  <2> QED
    BY <2>2, <2>3, <2>4, <2>5
<1> QED
  BY <1>2, <1>3

LEMMA InspectAllFacts ==
  ASSUME NEW o, NEW input, NEW r, Proper(o, input, r), NEW t, Good(o, input, r, t),
         NEW w \in WaysTo(input, r),
         NEW list \in Seq(Into(input, w.nodes[1])), Range(list) = Into(input, w.nodes[1])
  PROVE  /\ Advances(o, input, r, t, InspectAll(t, o, input, w, list))
         /\ ~InspectAll(t, o, input, w, list).truncated =>
              \A e \in Into(input, w.nodes[1]) : LookedAt(o, input, w, e, InspectAll(t, o, input, w, list))
<1> DEFINE N == Lesser(Len(list), o.incoming)
           B == LeftOut(t, o, w.nodes[1], list)
           into == Into(input, w.nodes[1])
           Go(u, v) == Advances(o, input, r, u, v)
           See(e, v) == LookedAt(o, input, w, e, v)
<1>0. /\ N \in Nat /\ N <= Len(list) /\ (Len(list) <= o.incoming => N = Len(list))
      /\ Len(list) \in Nat /\ DOMAIN list = 1..Len(list) /\ \A i \in 1..Len(list) : list[i] \in into
  BY DEF Lesser, Proper
<1>1. /\ N \in Nat /\ N <= Len(list)
      /\ Len(list) \in Nat /\ DOMAIN list = 1..Len(list) /\ \A i \in 1..Len(list) : list[i] \in into
  BY <1>0
<1>2. PICK f : /\ Unwinds(f, N, B, IncomingHow(o, input, w, list))
               /\ InspectAll(t, o, input, w, list) = f[N]
  BY <1>1, InspectAllRuns
<1>3. f[0] = B /\ \A i \in 1..N : f[i] = Inspect(f[i - 1], o, input, w, list[i])
  BY <1>2, HowsRedo DEF Unwinds
<1>4. Go(t, B) /\ (~B.truncated => Len(list) <= o.incoming)
  BY LeftOutFacts
<1>5. Good(o, input, r, B)
  BY <1>4 DEF Advances
<1> HIDE DEF N, B, into
<1>6. \A u : Good(o, input, r, u) => \A e \in into :
        /\ Go(u, Inspect(u, o, input, w, e))
        /\ ~Inspect(u, o, input, w, e).truncated => See(e, Inspect(u, o, input, w, e))
  BY InspectFacts DEF into
<1>7. Go(B, B)
  <2>1. Gains(Concerns(o, input, r), WaysTo(input, r), o.states, B, B)
    BY <1>5, NothingGained DEF Good
  <2> QED
    BY <1>5, <2>1, AdvancesFacts DEF Gained
<1>8. \A u, v : Go(B, u) /\ Go(u, v) => Go(B, v)
  BY <1>5, AdvancesFacts
<1>9. Go(B, f[N]) => Go(t, f[N])
  BY <1>4, AdvancesFacts
<1>10. \A e, u, v : Go(u, v) /\ See(e, u) => See(e, v)
  BY AdvancesFacts
<1>11. \A u, v : Go(u, v) => Good(o, input, r, v) /\ (u.truncated => v.truncated)
  BY DEF Advances, Keeps
<1> HIDE DEF Go, See
<1> DEFINE G == {i \in 0..N : Go(B, f[i]) /\ (~f[i].truncated => \A j \in 1..i : See(list[j], f[i]))}
<1>12. 0 \in G
  <2>1. 1..0 = {} /\ 0 \in 0..N
    BY <1>1
  <2> QED
    BY <1>3, <1>7, <2>1
<1>13. ASSUME NEW i \in 0..N, i \in G, i < N PROVE i + 1 \in G
  <2>1. /\ i + 1 \in 1..N /\ i + 1 \in 0..N /\ (i + 1) - 1 = i /\ i \in Nat /\ i + 1 \in 1..Len(list)
    BY <1>1, <1>13
  <2>2. f[i + 1] = Inspect(f[i], o, input, w, list[i + 1]) /\ list[i + 1] \in into
    BY <1>1, <1>3, <2>1
  <2>3. PICK u : u = f[i]
    OBVIOUS
  <2>4. PICK v : v = f[i + 1]
    OBVIOUS
  <2>5. Go(B, u) /\ (~u.truncated => \A j \in 1..i : See(list[j], u))
    BY <1>13, <2>3
  <2>a. Good(o, input, r, u)
    BY <1>11, <2>5
  <2>b. PICK e \in into : e = list[i + 1]
    BY <2>2
  <2>c. v = Inspect(u, o, input, w, e)
    BY <2>2, <2>3, <2>4, <2>b
  <2>6. Go(u, v) /\ (~v.truncated => See(list[i + 1], v))
    BY <1>6, <2>a, <2>b, <2>c
  <2>7. Go(B, v)
    BY <1>8, <2>5, <2>6
  <2>8. ASSUME ~v.truncated, NEW j \in 1..(i + 1) PROVE See(list[j], v)
    <3>1. CASE j = i + 1
      BY <2>6, <2>8, <3>1
    <3>2. CASE j \in 1..i
      BY <1>10, <1>11, <2>5, <2>6, <2>8, <3>2
    <3> QED
      BY <2>1, <3>1, <3>2
  <2> QED
    BY <2>1, <2>4, <2>7, <2>8
<1>14. N \in G
  <2> HIDE DEF G
  <2>1. 0..N \subseteq G
    BY <1>1, <1>12, <1>13, UpTo
  <2> QED
    BY <1>1, <2>1
<1>15. PICK u : u = f[N]
  OBVIOUS
<1>16. Go(B, u) /\ (~u.truncated => \A j \in 1..N : See(list[j], u))
  BY <1>14, <1>15
<1>17. ASSUME ~u.truncated, NEW e \in into PROVE See(e, u)
  <2>1. N = Len(list)
    BY <1>0, <1>4, <1>11, <1>16, <1>17
  <2>2. PICK j \in 1..Len(list) : e = list[j]
    BY <1>1, <1>17 DEF Range, into
  <2> QED
    BY <1>16, <1>17, <2>1, <2>2
<1>18. Go(t, u)
  BY <1>9, <1>15, <1>16
<1> QED
  BY <1>2, <1>15, <1>17, <1>18 DEF Go, See, into

-----------------------------------------------------------------------------
(* One way of the queue: it leaves, and what leads to it has been seen.    *)
Expands(o, input, r, t, u) ==
  /\ Good(o, input, r, u) /\ Keeps(t, u)
  /\ Head(t.queue) \in WaysTo(input, r)
  /\ Range(t.queue) \subseteq Range(u.queue) \cup {Head(t.queue)}
  /\ u.states + Len(t.queue) = t.states + Len(u.queue) + 1
  /\ ~u.truncated => \A e \in Into(input, Head(t.queue).nodes[1]) : LookedAt(o, input, Head(t.queue), e, u)

LEMMA ExpandWayFacts ==
  ASSUME NEW o, NEW input, NEW r, Proper(o, input, r), NEW t, Good(o, input, r, t), t.queue # <<>>
  PROVE  Expands(o, input, r, t, ExpandWay(t, o, input))
<1> DEFINE all == Concerns(o, input, r)
           W == WaysTo(input, r)
           most == o.states
           w == Head(t.queue)
           list == Incoming(input, w.nodes[1])
<1>1. GoodWalk(all, W, most, t) /\ \A u : Good(o, input, r, u) <=> GoodWalk(all, W, most, u)
  BY DEF Good
<1>2. IsWalk(t) /\ t.queue \in Seq(W) /\ t.states \in Nat
  BY <1>1 DEF GoodWalk
<1>3. /\ w \in W /\ Tail(t.queue) \in Seq(W) /\ Len(t.queue) \in Nat
      /\ Len(Tail(t.queue)) + 1 = Len(t.queue) /\ Len(Tail(t.queue)) \in Nat
  BY <1>2
<1>4. Range(t.queue) \subseteq Range(Tail(t.queue)) \cup {w}
  <2>1. ASSUME NEW i \in 1..Len(t.queue), i # 1 PROVE t.queue[i] \in Range(Tail(t.queue))
    <3>1. i - 1 \in 1..Len(Tail(t.queue)) /\ (i - 1) + 1 = i
      BY <1>3, <2>1
    <3>2. Tail(t.queue)[i - 1] = t.queue[(i - 1) + 1] /\ DOMAIN Tail(t.queue) = 1..Len(Tail(t.queue))
      BY <1>2, <1>3, <3>1
    <3> QED
      BY <3>1, <3>2 DEF Range
  <2>2. t.queue[1] = w /\ DOMAIN t.queue = 1..Len(t.queue)
    BY <1>2
  <2> QED
    BY <2>1, <2>2 DEF Range
<1>5. list \in Seq(Into(input, w.nodes[1])) /\ Range(list) = Into(input, w.nodes[1])
  BY IncomingFacts DEF Proper
<1>6. PICK rest : rest = [t EXCEPT !.queue = Tail(t.queue)]
  OBVIOUS
<1>7. ExpandWay(t, o, input)
        = IF Len(w.edges) >= o.depth /\ list # <<>>
          THEN Truncate(rest, o, Finding("depth-limit-reached", "quarantine", w.nodes[1], NoWay))
          ELSE InspectAll(rest, o, input, w, list)
  BY <1>6 DEF ExpandWay
<1> HIDE DEF all, W, most, w, list
<1>8. rest = Walk(Tail(t.queue), t.states, t.findings, t.risks, t.inspected, t.truncated, t.stop)
  BY <1>2, <1>6, WalkUpdates
<1>9. /\ IsWalk(rest) /\ rest.queue = Tail(t.queue) /\ rest.states = t.states
      /\ rest.findings = t.findings /\ rest.truncated = t.truncated /\ rest.stop = t.stop
  BY <1>8 DEF IsWalk, Walk
<1>10. GoodWalk(all, W, most, rest) /\ Keeps(t, rest)
  BY <1>1, <1>3, <1>9 DEF GoodWalk, Warranted, Keeps
<1>11. ASSUME NEW u, Advances(o, input, r, rest, u),
              ~u.truncated => \A e \in Into(input, w.nodes[1]) : LookedAt(o, input, w, e, u)
       PROVE  Expands(o, input, r, t, u)
  <2>1. /\ Good(o, input, r, u) /\ Keeps(rest, u) /\ Range(rest.queue) \subseteq Range(u.queue)
        /\ u.states + Len(rest.queue) = rest.states + Len(u.queue)
    BY <1>11 DEF Advances
  <2>2. u.states \in Nat /\ Len(u.queue) \in Nat
    BY <2>1 DEF Good, GoodWalk
  <2>3. u.states + Len(Tail(t.queue)) = t.states + Len(u.queue)
    BY <1>9, <2>1
  <2> DEFINE a == u.states
             b == t.states
             i == Len(Tail(t.queue))
             j == Len(u.queue)
             k == Len(t.queue)
  <2> HIDE DEF a, b, i, j, k
  <2>4. a \in Nat /\ b \in Nat /\ i \in Nat /\ j \in Nat /\ k \in Nat /\ i + 1 = k /\ a + i = b + j
    BY <1>2, <1>3, <2>2, <2>3 DEF a, b, i, j, k
  <2>5. a + k = b + j + 1
    BY <2>4
  <2>6. u.states + Len(t.queue) = t.states + Len(u.queue) + 1
    BY <2>5 DEF a, b, j, k
  <2>7. Keeps(t, u)
    BY <1>10, <2>1 DEF Keeps
  <2>8. Range(t.queue) \subseteq Range(u.queue) \cup {w}
    BY <1>4, <1>9, <2>1
  <2>9. w \in WaysTo(input, r)
    BY <1>3 DEF W
  <2> QED
    BY <1>11, <2>1, <2>6, <2>7, <2>8, <2>9 DEF Expands, w
<1>12. Good(o, input, r, rest)
  BY <1>1, <1>10
<1>13. CASE Len(w.edges) >= o.depth /\ list # <<>>
  <2> DEFINE f == Finding("depth-limit-reached", "quarantine", w.nodes[1], NoWay)
  <2>1. Notice(f)
    BY DEF Notice, Finding
  <2>2. ExpandWay(t, o, input) = Truncate(rest, o, f)
    BY <1>7, <1>13
  <2> HIDE DEF f
  <2>3. PICK u : u = Truncate(rest, o, f)
    OBVIOUS
  <2>4. Gains(all, W, most, rest, u) /\ u.truncated
    BY <1>10, <2>1, <2>3, TruncateFacts
  <2>5. Advances(o, input, r, rest, u)
    BY <1>12, <2>4, AdvancesFacts DEF Gained, all, W, most
  <2> QED
    BY <1>11, <2>2, <2>3, <2>4, <2>5
<1>14. CASE ~(Len(w.edges) >= o.depth /\ list # <<>>)
  <2>1. PICK u : u = InspectAll(rest, o, input, w, list)
    OBVIOUS
  <2>2. w \in WaysTo(input, r)
    BY <1>3 DEF W
  <2>3. /\ Advances(o, input, r, rest, u)
        /\ ~u.truncated => \A e \in Into(input, w.nodes[1]) : LookedAt(o, input, w, e, u)
    BY <1>5, <1>12, <2>1, <2>2, InspectAllFacts
  <2> QED
    BY <1>7, <1>11, <1>14, <2>1, <2>3
<1> QED
  BY <1>13, <1>14

-----------------------------------------------------------------------------
(* Ways that are done with: those that lead to them are done with or are   *)
(* waiting, and all there is to doubt about those has been found.          *)
DoneWith(o, input, r, t, D) ==
  /\ D \subseteq WaysTo(input, r) /\ Start(r) \in D \cup Range(t.queue)
  /\ \A w \in D : \A e \in Leading(input, w) :
       /\ Preceded(w, e) \in D \cup Range(t.queue)
       /\ ToSet(WayConcerns(o, input, Preceded(w, e))) \subseteq t.findings
Covered(o, input, r, t) ==
  ~t.truncated => /\ ToSet(ReleaseConcerns(o, input, r)) \subseteq t.findings
                  /\ \E D : DoneWith(o, input, r, t, D)

(* After i turns: a way that left the queue makes room for those it led to.*)
Turned(o, input, r, i, t) ==
  /\ Good(o, input, r, t) /\ Covered(o, input, r, t)
  /\ t.stop \/ t.queue = <<>> \/ i + Len(t.queue) <= t.states

LEMMA WalkBegins ==
  ASSUME NEW o, NEW input, NEW r, Proper(o, input, r)
  PROVE  Turned(o, input, r, 0, BeginRelease(o, input, r))
<1> DEFINE all == Concerns(o, input, r)
           W == WaysTo(input, r)
           most == o.states
           list == ReleaseConcerns(o, input, r)
           q == <<Start(r)>>
<1>1. \A u : Good(o, input, r, u) <=> GoodWalk(all, W, most, u)
  BY DEF Good
<1>2. list \in Seq(all)
  BY ConcernsOfWays
<1>3. q \in Seq(W) /\ Len(q) = 1 /\ Range(q) = {Start(r)} /\ q # <<>>
  <2>1. Start(r) \in W
    BY DEF WaysTo
  <2>2. DOMAIN q = {1} /\ q[1] = Start(r)
    OBVIOUS
  <2> QED
    BY <2>1, <2>2 DEF Range
<1>4. most \in Nat /\ 1 <= most
  BY DEF Proper
<1>5. BeginRelease(o, input, r) = AddAll(FreshSearch(r), o, list)
  BY DEF BeginRelease
<1>6. PICK t : t = FreshSearch(r)
  OBVIOUS
<1>7. /\ IsWalk(t) /\ t.queue = q /\ t.states = 1 /\ t.findings = {}
      /\ t.truncated = FALSE /\ t.stop = FALSE
  BY <1>6 DEF FreshSearch, IsWalk, Walk
<1> HIDE DEF all, W, most, list, q
<1>8. GoodWalk(all, W, most, t)
  <2>1. t.truncated \in BOOLEAN /\ t.stop \in BOOLEAN /\ (t.stop => t.truncated)
    BY <1>7
  <2>2. t.queue \in Seq(W) /\ t.states \in Nat /\ t.states <= most
    BY <1>3, <1>4, <1>7
  <2>3. \A f \in t.findings : Warranted(all, t, f)
    BY <1>7
  <2> QED
    BY <1>7, <2>1, <2>2, <2>3 DEF GoodWalk
<1>9. PICK u : u = AddAll(t, o, list)
  OBVIOUS
<1>10. Gains(all, W, most, t, u) /\ (~u.truncated => ToSet(list) \subseteq u.findings)
  BY <1>2, <1>8, <1>9, AddAllFacts
<1>11. GoodWalk(all, W, most, u) /\ u.queue = q /\ u.states = 1
  BY <1>7, <1>10 DEF Gains
<1>12. DoneWith(o, input, r, u, {})
  BY <1>3, <1>11 DEF DoneWith
<1>13. Covered(o, input, r, u)
  BY <1>10, <1>12 DEF Covered, list
<1>14. 0 + Len(u.queue) <= u.states
  <2>1. Len(u.queue) = 1 /\ u.states = 1
    BY <1>3, <1>11, Zenon
  <2> QED
    BY <2>1
<1>15. Good(o, input, r, u)
  BY <1>1, <1>11
<1>16. Turned(o, input, r, 0, u)
  BY <1>13, <1>14, <1>15 DEF Turned
<1>17. BeginRelease(o, input, r) = u
  BY <1>5, <1>6, <1>9
<1> QED
  BY <1>16, <1>17

LEMMA WalkGoesOn ==
  ASSUME NEW o, NEW input, NEW r, Proper(o, input, r), NEW i \in Nat, NEW t, Turned(o, input, r, i, t)
  PROVE  Turned(o, input, r, i + 1, Turn(t, o, input))
<1>1. CASE t.stop \/ t.queue = <<>>
  BY <1>1 DEF Turn, Turned
<1>2. CASE ~t.stop /\ t.queue # <<>>
  <2> DEFINE w == Head(t.queue)
             W == WaysTo(input, r)
             list == ReleaseConcerns(o, input, r)
  <2>1. PICK u : u = ExpandWay(t, o, input)
    OBVIOUS
  <2>2. Turn(t, o, input) = u
    BY <1>2, <2>1 DEF Turn
  <2>3. Good(o, input, r, t) /\ Expands(o, input, r, t, u)
    BY <1>2, <2>1, ExpandWayFacts DEF Turned
  <2>4. /\ Good(o, input, r, u) /\ Keeps(t, u) /\ w \in W
        /\ Range(t.queue) \subseteq Range(u.queue) \cup {w}
        /\ u.states + Len(t.queue) = t.states + Len(u.queue) + 1
        /\ ~u.truncated => \A e \in Into(input, w.nodes[1]) : LookedAt(o, input, w, e, u)
    BY <2>3 DEF Expands
  <2>5. (i + 1) + Len(u.queue) <= u.states
    <3> DEFINE a == t.states
               b == u.states
               j == Len(t.queue)
               k == Len(u.queue)
    <3>1. a \in Nat /\ b \in Nat /\ j \in Nat /\ k \in Nat
      BY <2>3, <2>4 DEF Good, GoodWalk
    <3>2. i + j <= a
      BY <1>2 DEF Turned
    <3>3. b + j = a + k + 1
      BY <2>4
    <3> HIDE DEF a, b, j, k
    <3>4. (i + 1) + k <= b
      BY <3>1, <3>2, <3>3
    <3> QED
      BY <3>4 DEF b, k
  <2>6. ASSUME ~u.truncated
        PROVE  ToSet(list) \subseteq u.findings /\ \E D : DoneWith(o, input, r, u, D)
    <3>1. ~t.truncated /\ t.findings \subseteq u.findings
      BY <2>4, <2>6 DEF Keeps
    <3>2. ToSet(list) \subseteq t.findings
      BY <3>1 DEF Turned, Covered
    <3>3. PICK D : DoneWith(o, input, r, t, D)
      BY <3>1 DEF Turned, Covered
    <3>4. /\ D \subseteq W /\ Start(r) \in D \cup Range(t.queue)
          /\ \A v \in D : \A e \in Leading(input, v) :
               /\ Preceded(v, e) \in D \cup Range(t.queue)
               /\ ToSet(WayConcerns(o, input, Preceded(v, e))) \subseteq t.findings
      BY <3>3 DEF DoneWith
    <3>5. D \cup Range(t.queue) \subseteq (D \cup {w}) \cup Range(u.queue)
      BY <2>4
    <3>6. \A e \in Leading(input, w) :
            /\ Preceded(w, e) \in Range(u.queue)
            /\ ToSet(WayConcerns(o, input, Preceded(w, e))) \subseteq u.findings
      BY <2>4, <2>6 DEF Leading, LookedAt
    <3>7. D \cup {w} \subseteq W
      BY <2>4, <3>4
    <3> HIDE DEF w, W, list
    <3>8. ASSUME NEW v \in D \cup {w}, NEW e \in Leading(input, v)
          PROVE  /\ Preceded(v, e) \in (D \cup {w}) \cup Range(u.queue)
                 /\ ToSet(WayConcerns(o, input, Preceded(v, e))) \subseteq u.findings
      <4>1. CASE v = w
        BY <3>6, <3>8, <4>1
      <4>2. CASE v \in D
        <5>1. /\ Preceded(v, e) \in D \cup Range(t.queue)
              /\ ToSet(WayConcerns(o, input, Preceded(v, e))) \subseteq t.findings
          BY <3>4, <3>8, <4>2
        <5> QED
          BY <3>1, <3>5, <5>1
      <4> QED
        BY <4>1, <4>2
    <3>9. DoneWith(o, input, r, u, D \cup {w})
      BY <3>4, <3>5, <3>7, <3>8 DEF DoneWith, W
    <3> QED
      BY <3>1, <3>2, <3>9
  <2>7. Covered(o, input, r, u)
    BY <2>6 DEF Covered
  <2> QED
    BY <2>2, <2>4, <2>5, <2>7 DEF Turned
<1> QED
  BY <1>1, <1>2

(* As many turns as there may be states are enough: the walk is over.      *)
LEMMA WalkEnds ==
  ASSUME NEW o, NEW input, NEW r, Proper(o, input, r)
  PROVE  LET t == EvaluateRelease(o, input, r)
         IN  Good(o, input, r, t) /\ (~t.truncated => Concerns(o, input, r) \subseteq t.findings)
<1> DEFINE N == o.states
<1>1. N \in Nat
  BY DEF Proper
<1>2. PICK f : /\ Unwinds(f, N, BeginRelease(o, input, r), TurnsHow(o, input))
               /\ EvaluateRelease(o, input, r) = f[N]
  BY <1>1, EvaluationRuns
<1>3. f[0] = BeginRelease(o, input, r) /\ \A i \in 1..N : f[i] = Turn(f[i - 1], o, input)
  BY <1>2, HowsRedo DEF Unwinds
<1> DEFINE G == {i \in 0..N : Turned(o, input, r, i, f[i])}
<1>4. 0 \in G
  BY <1>1, <1>3, WalkBegins
<1>5. ASSUME NEW i \in 0..N, i \in G, i < N PROVE i + 1 \in G
  <2>1. i + 1 \in 1..N /\ i + 1 \in 0..N /\ (i + 1) - 1 = i /\ i \in Nat
    BY <1>1, <1>5
  <2>2. f[i + 1] = Turn(f[i], o, input)
    BY <1>3, <2>1
  <2>3. Turned(o, input, r, i, f[i])
    BY <1>5
  <2>4. Turned(o, input, r, i + 1, f[i + 1])
    BY <2>1, <2>2, <2>3, WalkGoesOn
  <2> QED
    BY <2>1, <2>4
<1>6. N \in G
  <2> HIDE DEF G, N
  <2>1. 0..N \subseteq G
    BY <1>1, <1>4, <1>5, UpTo
  <2> QED
    BY <1>1, <2>1
<1>7. PICK t : t = f[N]
  OBVIOUS
<1>8. Turned(o, input, r, N, t)
  BY <1>6, <1>7
<1>9. /\ Good(o, input, r, t) /\ Covered(o, input, r, t)
      /\ t.stop \/ t.queue = <<>> \/ N + Len(t.queue) <= t.states
  BY <1>8 DEF Turned
<1>10. /\ t.states \in Nat /\ Len(t.queue) \in Nat /\ t.states <= N /\ (t.stop => t.truncated)
       /\ t.queue \in Seq(WaysTo(input, r))
  BY <1>9 DEF Good, GoodWalk
<1>11. ASSUME ~t.truncated PROVE Concerns(o, input, r) \subseteq t.findings
  <2>1. t.queue = <<>>
    <3>1. CASE N + Len(t.queue) <= t.states
      <4>1. Len(t.queue) = 0
        BY <1>1, <1>10, <3>1
      <4> QED
        BY <1>10, <4>1
    <3> QED
      BY <1>9, <1>10, <1>11, <3>1
  <2>2. Range(t.queue) = {}
    BY <2>1, EmptySequence
  <2>3. ToSet(ReleaseConcerns(o, input, r)) \subseteq t.findings /\ \E D : DoneWith(o, input, r, t, D)
    BY <1>9, <1>11 DEF Covered
  <2>4. PICK D : DoneWith(o, input, r, t, D)
    BY <2>3
  <2>5. /\ Start(r) \in D
        /\ \A w \in D : \A e \in Leading(input, w) :
             /\ Preceded(w, e) \in D
             /\ ToSet(WayConcerns(o, input, Preceded(w, e))) \subseteq t.findings
    BY <2>2, <2>4 DEF DoneWith
  <2>6. WaysAreClosed(input, r) /\ WaysAreLeast(input, r)
    BY WaysToFacts DEF Proper
  <2>7. WaysTo(input, r) \subseteq D
    BY <2>5, <2>6 DEF WaysAreLeast
  <2>8. ASSUME NEW v \in Ways(input, r) PROVE ToSet(WayConcerns(o, input, v)) \subseteq t.findings
    <3>1. PICK w \in WaysTo(input, r) : \E e \in Leading(input, w) : v = Preceded(w, e)
      BY <2>6 DEF WaysAreClosed
    <3>2. PICK e \in Leading(input, w) : v = Preceded(w, e)
      BY <3>1
    <3> QED
      BY <2>5, <2>7, <3>2
  <2> QED
    BY <2>3, <2>8 DEF Concerns
<1> QED
  BY <1>2, <1>7, <1>9, <1>11

(* The verdict of a walk that is over.                                     *)
LEMMA DecisionIsSound ==
  ASSUME NEW o, NEW input, NEW r, Proper(o, input, r)
  PROVE  Sound(Concerns(o, input, r), Decision(o, input, r))
<1> DEFINE all == Concerns(o, input, r)
<1>1. PICK t : t = EvaluateRelease(o, input, r)
  OBVIOUS
<1>2. Good(o, input, r, t) /\ (~t.truncated => all \subseteq t.findings)
  BY <1>1, WalkEnds
<1>3. PICK d : d = Decision(o, input, r)
  OBVIOUS
<1>4. d.verdict = Verdict(t) /\ d.truncated = t.truncated /\ d.findings = t.findings
  BY <1>1, <1>3 DEF Decision
<1>5. t.truncated \in BOOLEAN /\ \A f \in t.findings : Warranted(all, t, f)
  BY <1>2 DEF Good, GoodWalk
<1> HIDE DEF all
<1>6. \A f \in t.findings : \/ f \in all
                            \/ f.way = NoWay /\ f.severity = "warning"
                            \/ t.truncated /\ f.way = NoWay /\ f.severity = "quarantine"
  BY <1>5 DEF Warranted, Notice
<1> DEFINE blocked == \E f \in t.findings : f.severity = "block"
           doubted == \E f \in t.findings : f.severity = "quarantine"
           severities == {f.severity : f \in all}
<1>7. d.verdict = IF blocked THEN "block" ELSE IF t.truncated \/ doubted THEN "quarantine" ELSE "allow"
  BY <1>4 DEF Verdict
<1>8. blocked => "block" \in severities
  BY <1>6
<1>9. ~t.truncated /\ doubted => "quarantine" \in severities
  BY <1>6
<1>10. ~t.truncated => (blocked <=> "block" \in severities) /\ (doubted <=> "quarantine" \in severities)
  BY <1>2, <1>8, <1>9
<1>11. {f \in d.findings : f.way # NoWay} \subseteq all
  BY <1>4, <1>6
<1> HIDE DEF blocked, doubted
<1>12. d.verdict = "block" => "block" \in severities
  BY <1>7, <1>8
<1>13. d.truncated => d.verdict # "allow"
  BY <1>4, <1>7
<1>14. ~d.truncated =>
         /\ all \subseteq d.findings
         /\ d.verdict = (IF "block" \in severities THEN "block"
                         ELSE IF "quarantine" \in severities THEN "quarantine" ELSE "allow")
  BY <1>2, <1>4, <1>7, <1>10
<1>15. Sound(all, d)
  BY <1>11, <1>12, <1>13, <1>14 DEF Sound
<1> QED
  BY <1>3, <1>15 DEF all

-----------------------------------------------------------------------------
(* VerdictIsSound: for every input that can be stored, of any size, under  *)
(* any limits, the verdict of evaluateRelease is the one that the ways to  *)
(* the release call for, or the evaluation says that it was cut short and  *)
(* does not allow.                                                         *)
THEOREM VerdictAlways == StoreSpec => []VerdictIsSound
<1>1. StoreInit => StoreInv
  BY StoreInvInit
<1>2. StoreInv /\ [StoreNext]_storeVars => StoreInv'
  BY StoreInvStep
<1>3. StoreInv => VerdictIsSound
  <2> SUFFICES ASSUME StoreInv, reader.reply.code = 200,
                      NEW r \in ToSet(reader.reply.input.releases)
               PROVE  Sound(Concerns(case.options, reader.reply.input, r),
                            Decision(case.options, reader.reply.input, r))
    BY DEF VerdictIsSound
  <2> DEFINE given == Input(snapshot.token)
             input == [nodes |-> given.nodes, edges |-> given.edges, releases |-> given.releases]
             o == case.options
  <2>1. /\ snapshot.state = "ready" /\ reader.reply.input = input /\ case \in Cases
        /\ Known(snapshot.token)
    BY DEF StoreInv, ReaderInv, ReadIsOnePersist, SnapshotInv, WriterInv, Metadata
  <2>2. Valid(given) /\ IsFiniteSet(given.nodes) /\ IsFiniteSet(given.edges)
    BY <2>1, StoreAssumption DEF Known, Input
  <2>3. Valid(input)
    BY <2>2, ValidSame
  <2>4. Sane(input)
    BY <2>2, <2>3 DEF Sane
  <2>5. o.states \in Nat \ {0} /\ o.incoming \in Nat \ {0}
    BY <2>1, StoreAssumption
  <2>6. r \in Ids(input.nodes)
    BY <2>1, <2>3, ValidFacts
  <2> HIDE DEF input, o
  <2>7. Sound(Concerns(o, input, r), Decision(o, input, r))
    BY <2>4, <2>5, <2>6, DecisionIsSound DEF Proper
  <2> QED
    BY <2>1, <2>7 DEF o
<1> QED
  BY <1>1, <1>2, <1>3, PTL DEF StoreSpec

=============================================================================
