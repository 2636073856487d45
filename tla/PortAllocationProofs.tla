----------------------- MODULE PortAllocationProofs ------------------------
(***************************************************************************)
(* Proofs about PortAllocation.  The loops over the nodes are folds, which *)
(* the provers cannot unfold: the first part shows once that a fold is a   *)
(* pass that adds node after node.  The search for a free port succeeds    *)
(* because SpaceAssumption leaves one: a port is blocked by another node,  *)
(* by the pool, by another program or by the instance that still listens,  *)
(* and there are few of each.  With that, what normalize, NormalizeWith-   *)
(* PortMap and reassignConflictingPort return is stated in one lemma each, *)
(* and the invariants need no more than those.                             *)
(***************************************************************************)
EXTENDS PortAllocation, FiniteSetTheorems, SequenceTheorems, TLAPS

-----------------------------------------------------------------------------
(* Least elements, and FoldLeft as a pass over the nodes                   *)

\* A set of naturals has a least element; Min and Max return the extreme ones.
LEMMA Least ==
    ASSUME NEW T \in SUBSET Nat, T # {}
    PROVE \E x \in T : \A y \in T : x <= y
<1> DEFINE R == {p \in Nat \X Nat : p[1] < p[2]}
<1>1. IsWellFoundedOn(R, Nat)
  BY NatLessThanWellFounded DEF OpToRel
<1> HIDE DEF R
<1>2. PICK x \in T : \A y \in T : <<y, x>> \notin R
  <2>1. T \subseteq Nat
    OBVIOUS
  <2> QED
    BY <1>1, <2>1, WFMin, Zenon
<1>3. ASSUME NEW y \in T PROVE x <= y
  <2>1. <<y, x>> \in R <=> y < x
    BY DEF R
  <2> QED
    BY <1>2, <2>1
<1> QED
  BY <1>3

\* What Min returns, in FirstFree and where the first conflict is looked for.
LEMMA MinIs ==
    ASSUME NEW T \in SUBSET Nat, T # {}
    PROVE  Min(T) \in T /\ \A y \in T : Min(T) <= y
  BY Least DEF Min

\* What Max returns, in PortMap: the last node with a URI.
LEMMA MaxIs ==
    ASSUME NEW n \in Nat, NEW T \in SUBSET (0 .. n), T # {}
    PROVE  Max(T) \in T /\ \A y \in T : Max(T) >= y
<1> DEFINE U == {k \in Nat : \A y \in T : y <= k}
<1>1. n \in U
  OBVIOUS
<1>2. PICK x \in U : \A k \in U : x <= k
  BY <1>1, Least
<1>3. x \in T
  <2> SUFFICES ASSUME x \notin T PROVE FALSE
    OBVIOUS
  <2>1. \A y \in T : y \in Nat /\ y <= x /\ y # x
    BY <1>2
  <2>2. PICK z \in T : TRUE
    OBVIOUS
  <2>3. x \in Nat /\ x >= 1
    BY <2>1, <2>2, <1>2
  <2>4. x - 1 \in Nat /\ \A y \in T : y <= x - 1
    BY <2>1, <2>3
  <2>5. x - 1 \in U
    BY <2>4
  <2> QED
    BY <2>3, <2>5, <1>2
<1>4. \E z : z \in T /\ \A y \in T : z >= y
  BY <1>2, <1>3
<1> QED
  BY <1>4, Zenon DEF Max

\* The largest element of a set is its Max.
LEMMA MaxOf ==
    ASSUME NEW T, T \subseteq Int, NEW m \in T, \A y \in T : y <= m
    PROVE  Max(T) = m
<1>1. \E z : z \in T /\ \A y \in T : z >= y
  OBVIOUS
<1>2. Max(T) \in T /\ \A y \in T : Max(T) >= y
  BY <1>1, Zenon DEF Max
<1>3. Max(T) \in Int /\ m \in Int /\ Max(T) <= m /\ Max(T) >= m
  <2>1. Max(T) >= m /\ Max(T) <= m
    BY <1>2, Zenon
  <2> QED
    BY <1>2, <2>1
<1> QED
  BY <1>3

\* Induction on the naturals, stated of a set.
LEMMA Induct ==
    ASSUME NEW T, 0 \in T, \A n \in Nat : n \in T => n + 1 \in T
    PROVE  Nat \subseteq T
<1> SUFFICES ASSUME Nat \ T # {} PROVE FALSE
  OBVIOUS
<1>1. PICK x \in Nat \ T : \A y \in Nat \ T : x <= y
  BY Least
<1>2. x - 1 \in Nat /\ x - 1 \in T
  BY <1>1
<1> QED
  BY <1>1, <1>2

\* One step of the pass named kind over the nodes.
Step(kind, acc, n, U) ==
    CASE kind = "assign" -> Assign(acc, n, U)
      [] kind = "move"   -> MoveOffPool(acc, n, U)
      [] kind = "unused" -> AssignUnused(acc, n, U)
      [] kind = "inline" -> IF n.name \in Inline THEN Append(acc, n) ELSE acc

\* FoldLeft is defined by recursion on the set of indices that are left.
Folds(g, kind, b, s, n, U) ==
    g = [S \in SUBSET (1 .. n) |->
            IF S = {} THEN b ELSE Step(kind, g[S \ {Max(S)}], s[Max(S)], U)]

\* a[i] is what the pass carries after i nodes.
Passes(a, kind, b, s, n, U) ==
    a[0] = b /\ \A i \in 1 .. n : a[i] = Step(kind, a[i - 1], s[i], U)

\* The recursion of FoldLeft has a solution, by induction on the number of nodes.
LEMMA FoldExists ==
    ASSUME NEW n \in Nat, NEW kind, NEW b, NEW s, NEW U
    PROVE  \E g : Folds(g, kind, b, s, n, U)
<1> DEFINE T == {k \in Nat : \E g : Folds(g, kind, b, s, k, U)}
<1>1. 0 \in T
  <2>1. Folds([S \in SUBSET (1 .. 0) |-> b], kind, b, s, 0, U)
    <3>1. \A S \in SUBSET (1 .. 0) : S = {}
      OBVIOUS
    <3> QED
      BY <3>1 DEF Folds
  <2> QED
    BY <2>1
<1>2. ASSUME NEW k \in T PROVE k + 1 \in T
  <2>1. PICK g : Folds(g, kind, b, s, k, U)
    OBVIOUS
  <2> DEFINE h == [S \in SUBSET (1 .. (k + 1)) |->
                      IF k + 1 \notin S THEN g[S]
                      ELSE Step(kind, g[S \ {k + 1}], s[k + 1], U)]
  <2>2. ASSUME NEW S \in SUBSET (1 .. (k + 1))
        PROVE  h[S] = IF S = {} THEN b ELSE Step(kind, h[S \ {Max(S)}], s[Max(S)], U)
    <3>1. CASE k + 1 \notin S
      <4>1. S \in SUBSET (1 .. k)
        BY <3>1
      <4>2. h[S] = g[S] /\ h[S \ {Max(S)}] = g[S \ {Max(S)}]
        BY <3>1
      <4>3. g[S] = IF S = {} THEN b ELSE Step(kind, g[S \ {Max(S)}], s[Max(S)], U)
        BY <4>1, <2>1 DEF Folds
      <4> QED
        BY <4>2, <4>3
    <3>2. CASE k + 1 \in S
      <4>1. Max(S) = k + 1
        <5>1. S \subseteq Int /\ \A y \in S : y <= k + 1
          OBVIOUS
        <5> QED
          BY <3>2, <5>1, MaxOf
      <4>2. S \ {k + 1} \in SUBSET (1 .. k) /\ k + 1 \notin S \ {k + 1}
        BY <3>2
      <4>3. h[S \ {k + 1}] = g[S \ {k + 1}]
        BY <4>2
      <4>4. h[S] = Step(kind, g[S \ {k + 1}], s[k + 1], U)
        BY <3>2
      <4> QED
        BY <3>2, <4>1, <4>3, <4>4
    <3> QED
      BY <3>1, <3>2
  <2>3. h = [S \in SUBSET (1 .. (k + 1)) |-> h[S]]
    OBVIOUS
  <2> HIDE DEF h
  <2>4. Folds(h, kind, b, s, k + 1, U)
    BY <2>2, <2>3 DEF Folds
  <2> QED
    BY <2>4
<1> HIDE DEF T
<1>3. n \in T
  BY <1>1, <1>2, Induct DEF T
<1> QED
  BY <1>3 DEF T

\* The solution, read along the indices, is the pass node by node.
LEMMA FoldPasses ==
    ASSUME NEW n \in Nat, NEW kind, NEW b, NEW s, NEW U, NEW g, Folds(g, kind, b, s, n, U)
    PROVE  \E a : Passes(a, kind, b, s, n, U) /\ a[n] = g[1 .. n]
<1> DEFINE a == [i \in 0 .. n |-> g[1 .. i]]
<1>0. \A S \in SUBSET (1 .. n) :
          g[S] = IF S = {} THEN b ELSE Step(kind, g[S \ {Max(S)}], s[Max(S)], U)
  BY DEF Folds
<1>1. a[0] = b
  <2>1. 1 .. 0 = {} /\ {} \in SUBSET (1 .. n)
    OBVIOUS
  <2>2. g[{}] = b
    BY <1>0, <2>1
  <2> QED
    BY <2>1, <2>2
<1>2. ASSUME NEW i \in 1 .. n PROVE a[i] = Step(kind, a[i - 1], s[i], U)
  <2>1. Max(1 .. i) = i
    <3>1. 1 .. i \subseteq Int /\ i \in 1 .. i /\ \A y \in 1 .. i : y <= i
      OBVIOUS
    <3> QED
      BY <3>1, MaxOf
  <2>2. (1 .. i) \ {i} = 1 .. (i - 1) /\ 1 .. i # {} /\ 1 .. i \in SUBSET (1 .. n)
    OBVIOUS
  <2>3. g[1 .. i] = Step(kind, g[(1 .. i) \ {Max(1 .. i)}], s[Max(1 .. i)], U)
    BY <1>0, <2>2
  <2>4. i \in 0 .. n /\ i - 1 \in 0 .. n
    OBVIOUS
  <2> QED
    BY <2>1, <2>2, <2>3, <2>4
<1>3. a[n] = g[1 .. n]
  OBVIOUS
<1> HIDE DEF a
<1> QED
  BY <1>1, <1>2, <1>3 DEF Passes

\* The next step of a pass.
LEMMA PassesNext ==
    ASSUME NEW n \in Nat, NEW a, NEW kind, NEW b, NEW s, NEW U, Passes(a, kind, b, s, n, U),
           NEW i \in 0 .. (n - 1)
    PROVE  a[i + 1] = Step(kind, a[i], s[i + 1], U)
<1>1. i + 1 \in 1 .. n /\ (i + 1) - 1 = i
  OBVIOUS
<1> QED
  BY <1>1 DEF Passes

\* normalize's loop over the nodes, as a pass.
LEMMA AssignPass ==
    ASSUME NEW n \in Nat, NEW s, DOMAIN s = 1 .. n, NEW U
    PROVE  \E a : /\ Passes(a, "assign", Fresh({}), s, n, U)
                  /\ a[n].nodes = AssignAll(s, U)
<1> DEFINE Body(g) == [S \in SUBSET (1 .. n) |->
                          IF S = {} THEN Fresh({})
                          ELSE Assign(g[S \ {Max(S)}], s[Max(S)], U)]
           g == CHOOSE f : f = Body(f)
<1>1. \A f : Folds(f, "assign", Fresh({}), s, n, U) <=> f = Body(f)
  BY DEF Folds, Step
<1>2. g = Body(g)
  <2>1. \E f : f = Body(f)
    BY <1>1, FoldExists
  <2> QED
    BY <2>1, Zenon
<1>3. AssignAll(s, U) = g[1 .. n].nodes
  BY DEF AssignAll, FoldLeft, MapThenFoldSet
<1> HIDE DEF g
<1>4. Folds(g, "assign", Fresh({}), s, n, U)
  BY <1>1, <1>2
<1>5. PICK a : Passes(a, "assign", Fresh({}), s, n, U) /\ a[n] = g[1 .. n]
  BY <1>4, FoldPasses
<1> QED
  BY <1>3, <1>5

\* The loop of hybrid mode that leaves the pool's port, as a pass.
LEMMA MovePass ==
    ASSUME NEW n \in Nat, NEW s, DOMAIN s = 1 .. n, NEW U
    PROVE  \E a : /\ Passes(a, "move", Fresh(PortsOf(s) \cup {PoolPort}), s, n, U)
                  /\ a[n].nodes = MoveAllOffPool(s, U)
<1> DEFINE Body(g) == [S \in SUBSET (1 .. n) |->
                          IF S = {} THEN Fresh(PortsOf(s) \cup {PoolPort})
                          ELSE MoveOffPool(g[S \ {Max(S)}], s[Max(S)], U)]
           g == CHOOSE f : f = Body(f)
<1>1. \A f : Folds(f, "move", Fresh(PortsOf(s) \cup {PoolPort}), s, n, U) <=> f = Body(f)
  BY DEF Folds, Step
<1>2. g = Body(g)
  <2>1. \E f : f = Body(f)
    BY <1>1, FoldExists
  <2> QED
    BY <2>1, Zenon
<1>3. MoveAllOffPool(s, U) = g[1 .. n].nodes
  BY DEF MoveAllOffPool, FoldLeft, MapThenFoldSet
<1> HIDE DEF g
<1>4. Folds(g, "move", Fresh(PortsOf(s) \cup {PoolPort}), s, n, U)
  BY <1>1, <1>2
<1>5. PICK a : Passes(a, "move", Fresh(PortsOf(s) \cup {PoolPort}), s, n, U) /\ a[n] = g[1 .. n]
  BY <1>4, FoldPasses
<1> QED
  BY <1>3, <1>5

\* The second loop of NormalizeWithPortMap, as a pass.
LEMMA UnusedPass ==
    ASSUME NEW n \in Nat, NEW s, DOMAIN s = 1 .. n, NEW u, NEW U
    PROVE  \E a : /\ Passes(a, "unused", Fresh(u), s, n, U)
                  /\ a[n].nodes = AssignAllUnused(s, u, U)
<1> DEFINE Body(g) == [S \in SUBSET (1 .. n) |->
                          IF S = {} THEN Fresh(u)
                          ELSE AssignUnused(g[S \ {Max(S)}], s[Max(S)], U)]
           g == CHOOSE f : f = Body(f)
<1>1. \A f : Folds(f, "unused", Fresh(u), s, n, U) <=> f = Body(f)
  BY DEF Folds, Step
<1>2. g = Body(g)
  <2>1. \E f : f = Body(f)
    BY <1>1, FoldExists
  <2> QED
    BY <2>1, Zenon
<1>3. AssignAllUnused(s, u, U) = g[1 .. n].nodes
  BY DEF AssignAllUnused, FoldLeft, MapThenFoldSet
<1> HIDE DEF g
<1>4. Folds(g, "unused", Fresh(u), s, n, U)
  BY <1>1, <1>2
<1>5. PICK a : Passes(a, "unused", Fresh(u), s, n, U) /\ a[n] = g[1 .. n]
  BY <1>4, FoldPasses
<1> QED
  BY <1>3, <1>5

-----------------------------------------------------------------------------
(* Small sets of ports, and the search for a free one                      *)

\* What the assumptions say of the constants.
LEMMA Bounds ==
    /\ PortSpace \in Nat \ {0} /\ PoolPort \in Ports \ {0} /\ BasePort \in Ports \ {0}
    /\ MaxBusy \in Nat /\ Cardinality(Names) \in Nat
    /\ 2 * Cardinality(Names) + MaxBusy < PortSpace
  BY PortAssumption, SpaceAssumption, FS_CardinalityType DEF Ports

\* S has at most k elements.
Few(S, k) == IsFiniteSet(S) /\ Cardinality(S) <= k

\* The size of such a set is a natural number.
LEMMA FewType == ASSUME NEW S, NEW k, Few(S, k) PROVE Cardinality(S) \in Nat
  BY FS_CardinalityType DEF Few

\* A subset of few elements has few.
LEMMA FewSubset ==
    ASSUME NEW S, NEW k \in Int, NEW m \in Int, Few(S, k), NEW T \in SUBSET S, k <= m
    PROVE  Few(T, m)
<1>1. IsFiniteSet(T) /\ Cardinality(T) <= Cardinality(S)
  BY FS_Subset DEF Few
<1>2. Cardinality(S) \in Nat /\ Cardinality(T) \in Nat
  BY <1>1, FS_CardinalityType DEF Few
<1> QED
  BY <1>1, <1>2 DEF Few

\* So has a union, with the sum of the bounds.
LEMMA FewUnion ==
    ASSUME NEW S, NEW T, NEW k \in Int, NEW m \in Int, Few(S, k), Few(T, m)
    PROVE  Few(S \cup T, k + m)
<1>1. /\ IsFiniteSet(S \cup T) /\ IsFiniteSet(S \cap T)
      /\ Cardinality(S \cup T) = Cardinality(S) + Cardinality(T) - Cardinality(S \cap T)
  BY FS_Union, FS_Intersection DEF Few
<1>2. Cardinality(S) \in Nat /\ Cardinality(T) \in Nat /\ Cardinality(S \cap T) \in Nat
  BY <1>1, FS_CardinalityType DEF Few
<1> QED
  BY <1>1, <1>2 DEF Few

\* So have the images under h.
LEMMA FewImages ==
    ASSUME NEW J, NEW k \in Int, Few(J, k), NEW h
    PROVE  Few({h[j] : j \in J}, k)
<1> DEFINE f == [j \in J |-> h[j]]
           T == {h[j] : j \in J}
<1>1. f \in Surjection(J, T)
  BY DEF Surjection
<1> HIDE DEF f, T
<1>2. IsFiniteSet(T) /\ Cardinality(T) <= Cardinality(J)
  BY <1>1, FS_Surjection DEF Few
<1>3. Cardinality(T) \in Nat /\ Cardinality(J) \in Nat
  BY <1>2, FS_CardinalityType DEF Few
<1>4. Few(T, k)
  BY <1>2, <1>3 DEF Few
<1> QED
  BY <1>4 DEF T

\* The indices of n nodes, and those without one of them.
LEMMA FewIndices ==
    ASSUME NEW n \in Nat
    PROVE  Few(1 .. n, n) /\ \A i \in 1 .. n : Few((1 .. n) \ {i}, n - 1)
<1>1. IsFiniteSet(1 .. n) /\ Cardinality(1 .. n) = n
  BY FS_Interval
<1>2. ASSUME NEW i \in 1 .. n PROVE Few((1 .. n) \ {i}, n - 1)
  <2>1. IsFiniteSet((1 .. n) \ {i}) /\ Cardinality((1 .. n) \ {i}) = Cardinality(1 .. n) - 1
    BY <1>1, FS_RemoveElement, Zenon
  <2> QED
    BY <1>1, <2>1 DEF Few
<1> QED
  BY <1>1, <1>2 DEF Few

\* A single element.
LEMMA FewOne == ASSUME NEW x PROVE Few({x}, 1)
<1>1. IsFiniteSet({x}) /\ Cardinality({x}) = 1
  BY FS_Singleton, Zenon
<1> QED
  BY <1>1 DEF Few

\* Addition in uint16, while at most one wrap can occur.
LEMMA ModIs ==
    ASSUME NEW P \in Nat \ {0}, NEW a \in 0 .. (2 * P - 1)
    PROVE  a % P = IF a < P THEN a ELSE a - P
  OBVIOUS

\* Counting up from p reaches every port once.
LEMMA Wraps ==
    ASSUME NEW p \in Ports, NEW k \in Ports
    PROVE  /\ (p + k) % PortSpace \in Ports
           /\ \A m \in Ports : (p + k) % PortSpace = (p + m) % PortSpace => k = m
<1>1. \A m \in Ports : (p + m) % PortSpace =
                          IF p + m < PortSpace THEN p + m ELSE p + m - PortSpace
  <2> TAKE m \in Ports
  <2>1. p \in Nat /\ m \in Nat /\ p + m \in 0 .. (2 * PortSpace - 1)
    BY Bounds DEF Ports
  <2>2. PortSpace \in Nat \ {0}
    BY Bounds
  <2> QED
    BY <2>1, <2>2
<1> QED
  BY <1>1, Bounds DEF Ports

\* "for blocked(port) { port++ }" ends at a port that is not blocked, unless all are.
LEMMA FirstFreeIs ==
    ASSUME NEW from \in Ports, NEW blocked, Few(blocked, PortSpace - 1)
    PROVE  FirstFree(from, blocked) \in Ports \ blocked
<1> DEFINE Free == {k \in 0 .. (PortSpace - 1) : (from + k) % PortSpace \notin blocked}
           f == [k \in Ports |-> (from + k) % PortSpace]
<1>1. Free # {}
  <2> SUFFICES ASSUME Free = {} PROVE FALSE
    OBVIOUS
  <2>1. f \in [Ports -> blocked]
    BY DEF Ports
  <2>2. IsFiniteSet(Ports) /\ Cardinality(Ports) = PortSpace
    BY FS_Interval, Bounds DEF Ports
  <2>3. Cardinality(blocked) < Cardinality(Ports)
    BY <2>2, FewType, Bounds DEF Few
  <2> HIDE DEF f
  <2>4. PICK x, y \in Ports : x # y /\ f[x] = f[y]
    BY <2>1, <2>2, <2>3, FS_PigeonHole DEF Few
  <2> QED
    BY <2>4, Wraps DEF f
<1> HIDE DEF Free
<1>2. Min(Free) \in Free
  <2>1. Free \in SUBSET Nat
    BY DEF Free
  <2> QED
    BY <1>1, <2>1, MinIs
<1>3. FirstFree(from, blocked) = (from + Min(Free)) % PortSpace
  BY DEF FirstFree, Free
<1>4. Min(Free) \in Ports /\ (from + Min(Free)) % PortSpace \notin blocked
  BY <1>2 DEF Free, Ports
<1> QED
  BY <1>3, <1>4, Wraps

-----------------------------------------------------------------------------
(* One node of a pass                                                      *)

\* What the passes carry.
Accs == [nodes : Seq(Node), cursor : Ports, used : SUBSET Ports]

\* r is acc with node n at port p, and with p perhaps among the used ports.
Adds(acc, r, n, p) ==
    /\ r \in Accs /\ r.nodes = Append(acc.nodes, [name |-> n.name, port |-> p])
    /\ acc.used \subseteq r.used /\ r.used \subseteq acc.used \cup {p}

\* port + 1 is a port: it wraps.
LEMMA AfterIs == ASSUME NEW p \in Ports PROVE After(p) \in Ports
<1>1. p \in Int /\ PortSpace \in Nat \ {0}
  BY Bounds DEF Ports
<1> QED
  BY <1>1 DEF After, Ports

\* A node that keeps its port.
LEMMA KeepAdds ==
    ASSUME NEW acc \in Accs, NEW n \in Node
    PROVE  Adds(acc, Keep(acc, n), n, n.port)
<1>1. n = [name |-> n.name, port |-> n.port]
  BY DEF Node
<1>2. acc.nodes \in Seq(Node)
  BY DEF Accs
<1>3. Append(acc.nodes, n) \in Seq(Node)
  BY <1>2
<1>4. /\ Keep(acc, n) \in Accs /\ Keep(acc, n).nodes = Append(acc.nodes, n)
      /\ Keep(acc, n).used = acc.used
  BY <1>3 DEF Keep, Accs
<1> QED
  BY <1>1, <1>4 DEF Adds

\* A node that is given port p.
LEMMA PlaceAdds ==
    ASSUME NEW acc \in Accs, NEW n \in Node, NEW p \in Ports
    PROVE  /\ Adds(acc, Place(acc, n, p), n, p)
           /\ Adds(acc, [Place(acc, n, p) EXCEPT !.used = @ \cup {p}], n, p)
<1> DEFINE m == [name |-> n.name, port |-> p]
<1>1. [n EXCEPT !.port = p] = m /\ m \in Node
  BY DEF Node
<1>2. Append(acc.nodes, m) \in Seq(Node)
  BY <1>1 DEF Accs
<1>3. After(p) \in Ports
  BY AfterIs
<1> HIDE DEF m
<1>4. /\ Place(acc, n, p) \in Accs /\ Place(acc, n, p).nodes = Append(acc.nodes, m)
      /\ Place(acc, n, p).used = acc.used
  BY <1>1, <1>2, <1>3 DEF Place, Keep, Accs
<1> HIDE DEF Place
<1>5. LET r == [Place(acc, n, p) EXCEPT !.used = @ \cup {p}]
      IN  r \in Accs /\ r.nodes = Append(acc.nodes, m) /\ r.used = acc.used \cup {p}
  BY <1>4 DEF Accs
<1> QED
  BY <1>4, <1>5 DEF Adds, m

\* One node of normalize.
LEMMA AssignAdds ==
    ASSUME NEW acc \in Accs, NEW n \in Node, NEW U, Few(U, PortSpace - 1)
    PROVE  \E p \in Ports : Adds(acc, Assign(acc, n, U), n, p)
<1>1. CASE n.port # 0
  BY <1>1, KeepAdds DEF Assign, Node
<1>2. CASE n.port = 0
  <2>1. acc.cursor \in Ports
    BY DEF Accs
  <2>2. Cursor(acc, U) \in Ports
    BY <2>1, FirstFreeIs DEF Cursor
  <2> QED
    BY <1>2, <2>2, PlaceAdds DEF Assign
<1> QED
  BY <1>1, <1>2

\* One node of the repair of hybrid mode: it does not get the pool's port.
LEMMA MoveAdds ==
    ASSUME NEW acc \in Accs, NEW n \in Node, NEW U, PoolPort \in acc.used,
           n.port = PoolPort => Few(acc.used \cup U, PortSpace - 1)
    PROVE  \E p \in Ports : /\ Adds(acc, MoveOffPool(acc, n, U), n, p)
                            /\ p # PoolPort
                            /\ n.port # PoolPort => p = n.port
<1>1. CASE n.port # PoolPort
  BY <1>1, KeepAdds DEF MoveOffPool, Node
<1>2. CASE n.port = PoolPort
  <2> DEFINE p == FirstFree(After(PoolPort), acc.used \cup U)
  <2>1. p \in Ports \ (acc.used \cup U)
    BY <1>2, FirstFreeIs, AfterIs, Bounds
  <2>2. MoveOffPool(acc, n, U) = [Place(acc, n, p) EXCEPT !.used = @ \cup {p}]
    BY <1>2 DEF MoveOffPool
  <2> HIDE DEF p
  <2> QED
    BY <1>2, <2>1, <2>2, PlaceAdds
<1> QED
  BY <1>1, <1>2

\* One node of NormalizeWithPortMap: a new port is none of the used ones.
LEMMA UnusedAdds ==
    ASSUME NEW acc \in Accs, NEW n \in Node, NEW U,
           OwnPorts /\ n.port = 0 => Few(acc.used \cup U, PortSpace - 1)
    PROVE  \E p \in Ports : /\ Adds(acc, AssignUnused(acc, n, U), n, p)
                            /\ n.port # 0 => p = n.port
                            /\ OwnPorts /\ n.port = 0 => p \notin acc.used
<1>1. CASE n.port # 0
  BY <1>1, KeepAdds DEF AssignUnused, Node
<1>2. CASE n.port = 0
  <2> DEFINE p == Cursor(acc, acc.used \cup U)
  <2>1. acc.cursor \in Ports
    BY DEF Accs
  <2>2. p \in Ports /\ (OwnPorts => p \notin acc.used)
    <3>1. CASE OwnPorts
      BY <1>2, <2>1, <3>1, FirstFreeIs DEF Cursor
    <3>2. CASE ~OwnPorts
      BY <2>1, <3>2 DEF Cursor
    <3> QED
      BY <3>1, <3>2
  <2>3. AssignUnused(acc, n, U) = [Place(acc, n, p) EXCEPT !.used = @ \cup {p}]
    BY <1>2 DEF AssignUnused
  <2> HIDE DEF p
  <2> QED
    BY <1>2, <2>2, <2>3, PlaceAdds
<1> QED
  BY <1>1, <1>2

\* acc has the first i nodes of s, perhaps at other ports.
Follows(acc, s, i) ==
    /\ acc \in Accs /\ Len(acc.nodes) = i
    /\ \A j \in 1 .. i : acc.nodes[j].name = s[j].name

\* Adding the next node.
LEMMA AddsFollows ==
    ASSUME NEW s \in Seq(Node), NEW i \in 0 .. (Len(s) - 1), NEW acc,
           Follows(acc, s, i), NEW p \in Ports, NEW r, Adds(acc, r, s[i + 1], p)
    PROVE  /\ Follows(r, s, i + 1)
           /\ r.nodes[i + 1].port = p
           /\ \A j \in 1 .. i : r.nodes[j] = acc.nodes[j]
<1>1. acc.nodes \in Seq(Node) /\ Len(acc.nodes) = i
  BY DEF Follows, Accs
<1> DEFINE m == [name |-> s[i + 1].name, port |-> p]
<1>2. r.nodes = Append(acc.nodes, m) /\ r \in Accs
  BY DEF Adds
<1>3. m.name = s[i + 1].name /\ m.port = p
  OBVIOUS
<1> HIDE DEF m
<1>4. /\ Len(r.nodes) = i + 1 /\ r.nodes[i + 1] = m
      /\ \A j \in 1 .. i : r.nodes[j] = acc.nodes[j]
  BY <1>1, <1>2
<1> QED
  BY <1>2, <1>3, <1>4 DEF Follows

\* Induction up to n.
LEMMA InductTo ==
    ASSUME NEW n \in Nat, NEW T, 0 \in T, \A i \in 0 .. (n - 1) : i \in T => i + 1 \in T
    PROVE  n \in T
<1> DEFINE W == {k \in Nat : k <= n => k \in T}
<1>1. 0 \in W /\ \A k \in Nat : k \in W => k + 1 \in W
  OBVIOUS
<1> HIDE DEF W
<1>2. n \in W
  BY <1>1, Induct
<1> QED
  BY <1>2 DEF W

-----------------------------------------------------------------------------
(* The passes over the nodes                                               *)

\* r has the nodes of s, perhaps at other ports.
SameNames(s, r) ==
    /\ r \in Seq(Node) /\ Len(r) = Len(s)
    /\ \A j \in 1 .. Len(s) : r[j].name = s[j].name

\* A pass that is over has all the nodes.
LEMMA FollowsAll ==
    ASSUME NEW s \in Seq(Node), NEW acc, Follows(acc, s, Len(s))
    PROVE  SameNames(s, acc.nodes)
  BY DEF Follows, SameNames, Accs

\* A pass that begins has none.
LEMMA FreshFollows ==
    ASSUME NEW s \in Seq(Node), NEW used \in SUBSET Ports
    PROVE  Follows(Fresh(used), s, 0) /\ Fresh(used).used = used
<1>1. <<>> \in Seq(Node) /\ Len(<<>>) = 0
  OBVIOUS
<1> QED
  BY <1>1, Bounds DEF Follows, Fresh, Accs

\* normalize changes only ports.
LEMMA AssignKeepsNames ==
    ASSUME NEW s \in Seq(Node), NEW U, Few(U, PortSpace - 1)
    PROVE  SameNames(s, AssignAll(s, U))
<1> DEFINE n == Len(s)
<1>1. n \in Nat /\ DOMAIN s = 1 .. n
  OBVIOUS
<1>2. PICK a : /\ Passes(a, "assign", Fresh({}), s, n, U)
               /\ a[n].nodes = AssignAll(s, U)
  BY <1>1, AssignPass
<1> DEFINE T == {i \in Nat : Follows(a[i], s, i)}
<1>3. 0 \in T
  <2>1. a[0] = Fresh({}) /\ {} \in SUBSET Ports
    BY <1>2 DEF Passes
  <2> QED
    BY <2>1, FreshFollows
<1>4. ASSUME NEW i \in 0 .. (n - 1), i \in T PROVE i + 1 \in T
  <2>1. a[i + 1] = Assign(a[i], s[i + 1], U)
    <3>1. a[i + 1] = Step("assign", a[i], s[i + 1], U)
      BY <1>1, <1>2, PassesNext
    <3> QED
      BY <3>1 DEF Step
  <2>2. Follows(a[i], s, i)
    BY <1>4
  <2>3. a[i] \in Accs /\ s[i + 1] \in Node
    BY <2>2 DEF Follows
  <2>4. PICK p \in Ports : Adds(a[i], a[i + 1], s[i + 1], p)
    BY <2>1, <2>3, AssignAdds
  <2>5. Follows(a[i + 1], s, i + 1)
    BY <2>2, <2>4, AddsFollows
  <2> QED
    BY <2>5
<1> HIDE DEF T
<1>5. n \in T
  BY <1>1, <1>3, <1>4, InductTo
<1> QED
  BY <1>2, <1>5, FollowsAll DEF T

\* What is used is in X or among the ports but the k-th.
Within(used, X, h, n, k) ==
    \A q \in used : q \in X \/ \E j \in (1 .. n) \ {k} : q = h[j]

\* While node k looks for a port, the other nodes, the pool and other programs
\* leave at least one.
LEMMA FewUsed ==
    ASSUME NEW n \in Nat, n <= Cardinality(Names), NEW k \in 1 .. n, NEW h, NEW X, Few(X, 1),
           NEW used, Within(used, X, h, n, k),
           NEW U, Few(U \ X, Cardinality(Names) + MaxBusy)
    PROVE  Few(used \cup U, PortSpace - 1)
<1> DEFINE H == {h[j] : j \in (1 .. n) \ {k}}
           J == (1 .. n) \ {k}
<1>0. n - 1 \in Int /\ 1 + (n - 1) = n
  OBVIOUS
<1>1. Few(H, n - 1)
  <2>1. Few(J, n - 1)
    BY FewIndices
  <2> HIDE DEF J
  <2>2. Few({h[j] : j \in J}, n - 1)
    BY <1>0, <2>1, FewImages
  <2> QED
    BY <2>2 DEF J
<1> HIDE DEF H
<1>2. Few(X \cup H, 1 + (n - 1))
  BY <1>0, <1>1, FewUnion
<1>3. Few((X \cup H) \cup (U \ X), n + (Cardinality(Names) + MaxBusy))
  <2>1. n \in Int /\ Cardinality(Names) + MaxBusy \in Int
    BY Bounds
  <2>2. Few(X \cup H, n)
    BY <1>0, <1>2
  <2> QED
    BY <2>1, <2>2, FewUnion
<1>4. used \cup U \in SUBSET ((X \cup H) \cup (U \ X))
  BY DEF H, Within
<1>5. Few(used \cup U, PortSpace - 1)
  <2>1. /\ n + (Cardinality(Names) + MaxBusy) \in Int /\ PortSpace - 1 \in Int
        /\ n + (Cardinality(Names) + MaxBusy) <= PortSpace - 1
    BY Bounds
  <2> QED
    BY <1>3, <1>4, <2>1, FewSubset
<1> QED
  BY <1>5

\* The pool has at most one port.
LEMMA FewPool == Few(PoolPorts, 1)
<1>1. CASE mode = "hybrid"
  BY <1>1, FewOne DEF PoolPorts
<1>2. CASE mode # "hybrid"
  BY <1>2, FS_EmptySet DEF PoolPorts, Few
<1> QED
  BY <1>1, <1>2

\* After the repair of hybrid mode no node has the pool's port.
LEMMA MoveKeepsPool ==
    ASSUME NEW s \in Seq(Node), Len(s) <= Cardinality(Names), NEW U, Few(U, MaxBusy)
    PROVE  LET r == MoveAllOffPool(s, U)
           IN  SameNames(s, r) /\ PoolPort \notin PortsOf(r)
<1> DEFINE n == Len(s)
           b == Fresh(PortsOf(s) \cup {PoolPort})
<1>1. n \in Nat /\ DOMAIN s = 1 .. n /\ n <= Cardinality(Names)
  OBVIOUS
<1>2. PICK a : /\ Passes(a, "move", b, s, n, U)
               /\ a[n].nodes = MoveAllOffPool(s, U)
  BY <1>1, MovePass
<1> DEFINE Moved(i) ==
               /\ Follows(a[i], s, i) /\ PoolPort \in a[i].used
               /\ a[i].used \subseteq {PoolPort} \cup PortsOf(s)
                                         \cup {a[i].nodes[j].port : j \in 1 .. i}
               /\ \A j \in 1 .. i :
                      /\ a[i].nodes[j].port # PoolPort
                      /\ s[j].port # PoolPort => a[i].nodes[j].port = s[j].port
           T == {i \in Nat : Moved(i)}
<1>3. 0 \in T
  <2>1. PortsOf(s) \cup {PoolPort} \in SUBSET Ports
    <3>1. \A i \in 1 .. n : s[i].port \in Ports
      <4>1. \A i \in 1 .. n : s[i] \in Node
        OBVIOUS
      <4> QED
        BY <4>1 DEF Node
    <3> QED
      BY <1>1, <3>1, Bounds DEF PortsOf
  <2>2. a[0] = b
    BY <1>2 DEF Passes
  <2> QED
    BY <2>1, <2>2, FreshFollows
<1>4. ASSUME NEW i \in 0 .. (n - 1), i \in T PROVE i + 1 \in T
  <2>0. Moved(i)
    BY <1>4
  <2> HIDE DEF T
  <2>1. a[i + 1] = MoveOffPool(a[i], s[i + 1], U)
    <3>1. a[i + 1] = Step("move", a[i], s[i + 1], U)
      BY <1>1, <1>2, PassesNext
    <3> QED
      BY <3>1 DEF Step
  <2>2. a[i] \in Accs /\ s[i + 1] \in Node /\ Follows(a[i], s, i)
    BY <2>0 DEF Follows
  <2>3. ASSUME s[i + 1].port = PoolPort PROVE Few(a[i].used \cup U, PortSpace - 1)
    <3> DEFINE h == [j \in 1 .. n |-> IF j <= i THEN a[i].nodes[j].port ELSE s[j].port]
    <3>1. Within(a[i].used, {PoolPort}, h, n, i + 1)
      <4> SUFFICES ASSUME NEW q \in a[i].used, q # PoolPort
                   PROVE  \E j \in (1 .. n) \ {i + 1} : q = h[j]
        BY DEF Within
      <4>1. CASE \E j \in 1 .. i : q = a[i].nodes[j].port
        BY <4>1
      <4>2. CASE q \in PortsOf(s)
        <5>1. PICK j \in 1 .. n : q = s[j].port
          BY <4>2 DEF PortsOf
        <5> QED
          BY <2>0, <2>3, <5>1
      <4> QED
        BY <2>0, <4>1, <4>2
    <3> HIDE DEF h
    <3>2. Few(U \ {PoolPort}, Cardinality(Names) + MaxBusy)
      BY FewSubset, Bounds, U \ {PoolPort} \in SUBSET U
    <3>3. Few({PoolPort}, 1)
      BY FewOne
    <3>4. i + 1 \in 1 .. n
      BY <1>1
    <3> HIDE DEF n
    <3> QED
      BY <1>1, <3>1, <3>2, <3>3, <3>4, FewUsed
  <2>4. PICK p \in Ports : /\ Adds(a[i], a[i + 1], s[i + 1], p) /\ p # PoolPort
                           /\ s[i + 1].port # PoolPort => p = s[i + 1].port
    <3>1. s[i + 1].port = PoolPort => Few(a[i].used \cup U, PortSpace - 1)
      BY <2>3
    <3>2. PoolPort \in a[i].used
      BY <2>0
    <3> QED
      BY <2>1, <2>2, <3>1, <3>2, MoveAdds
  <2>5. /\ Follows(a[i + 1], s, i + 1) /\ a[i + 1].nodes[i + 1].port = p
        /\ \A j \in 1 .. i : a[i + 1].nodes[j] = a[i].nodes[j]
    BY <2>0, <2>2, <2>4, AddsFollows
  <2>6. a[i].used \subseteq a[i + 1].used /\ a[i + 1].used \subseteq a[i].used \cup {p}
    BY <2>4 DEF Adds
  <2>7. Moved(i + 1)
    <3>1. \A j \in 1 .. (i + 1) : j \in 1 .. i \/ j = i + 1
      OBVIOUS
    <3>2. \A j \in 1 .. (i + 1) :
              /\ a[i + 1].nodes[j].port # PoolPort
              /\ s[j].port # PoolPort => a[i + 1].nodes[j].port = s[j].port
      BY <2>0, <2>4, <2>5, <3>1
    <3>3. a[i + 1].used \subseteq {PoolPort} \cup PortsOf(s)
                                   \cup {a[i + 1].nodes[j].port : j \in 1 .. (i + 1)}
      <4> SUFFICES ASSUME NEW q \in a[i + 1].used, q \notin {PoolPort} \cup PortsOf(s)
                   PROVE  \E j \in 1 .. (i + 1) : q = a[i + 1].nodes[j].port
        OBVIOUS
      <4>1. CASE q = p
        BY <2>5, <4>1, i + 1 \in 1 .. (i + 1)
      <4>2. CASE q # p
        <5>1. PICK j \in 1 .. i : q = a[i].nodes[j].port
          BY <2>0, <2>6, <4>2
        <5> QED
          BY <2>5, <5>1, j \in 1 .. (i + 1)
      <4> QED
        BY <4>1, <4>2
    <3> QED
      BY <2>0, <2>5, <2>6, <3>2, <3>3
  <2> QED
    BY <2>7 DEF T
<1>5. n \in T
  <2> HIDE DEF T
  <2> QED
    BY <1>1, <1>3, <1>4, InductTo
<1>6. SameNames(s, a[n].nodes) /\ \A j \in 1 .. n : a[n].nodes[j].port # PoolPort
  BY <1>5, FollowsAll
<1> QED
  BY <1>2, <1>6 DEF SameNames, PortsOf

\* The second pass of NormalizeWithPortMap leaves the ports of the first alone and
\* gives them to no other node.
LEMMA UnusedKeeps ==
    ASSUME NEW t \in Seq(Node), Len(t) <= Cardinality(Names), NEW u \in SUBSET Ports, NEW U,
           OwnPorts => Few(U \ PoolPorts, Cardinality(Names) + MaxBusy),
           OwnPorts => \A q \in u : \/ q \in PoolPorts
                                    \/ \E j \in 1 .. Len(t) : t[j].port # 0 /\ q = t[j].port
    PROVE  LET r == AssignAllUnused(t, u, U)
           IN  /\ SameNames(t, r)
               /\ \A j \in 1 .. Len(t) : /\ t[j].port # 0 => r[j].port = t[j].port
                                         /\ OwnPorts /\ t[j].port = 0 => r[j].port \notin u
<1> DEFINE n == Len(t)
           b == Fresh(u)
<1>1. n \in Nat /\ DOMAIN t = 1 .. n /\ n <= Cardinality(Names)
  OBVIOUS
<1>2. PICK a : /\ Passes(a, "unused", b, t, n, U)
               /\ a[n].nodes = AssignAllUnused(t, u, U)
  BY <1>1, UnusedPass
<1> DEFINE Spread(i) ==
               /\ Follows(a[i], t, i)
               /\ u \subseteq a[i].used
               /\ a[i].used \subseteq u \cup {a[i].nodes[j].port : j \in 1 .. i}
               /\ \A j \in 1 .. i :
                      /\ t[j].port # 0 => a[i].nodes[j].port = t[j].port
                      /\ OwnPorts /\ t[j].port = 0 => a[i].nodes[j].port \notin u
           T == {i \in Nat : Spread(i)}
<1>3. 0 \in T
  <2>1. a[0] = b
    BY <1>2 DEF Passes
  <2>2. Follows(b, t, 0) /\ b.used = u
    BY FreshFollows
  <2> HIDE DEF b, n
  <2>3. Spread(0)
    BY <2>1, <2>2
  <2> QED
    BY <2>3
<1>4. ASSUME NEW i \in 0 .. (n - 1), i \in T PROVE i + 1 \in T
  <2>0. Spread(i)
    BY <1>4
  <2> HIDE DEF T
  <2>1. a[i + 1] = AssignUnused(a[i], t[i + 1], U)
    <3>1. n \in Nat /\ i \in 0 .. (n - 1)
      BY <1>1
    <3>2. Passes(a, "unused", b, t, n, U)
      BY <1>2
    <3> HIDE DEF n, b
    <3>3. a[i + 1] = Step("unused", a[i], t[i + 1], U)
      BY <3>1, <3>2, PassesNext
    <3> QED
      BY <3>3 DEF Step
  <2>2. a[i] \in Accs /\ t[i + 1] \in Node /\ Follows(a[i], t, i)
    BY <2>0 DEF Follows
  <2>3. ASSUME OwnPorts, t[i + 1].port = 0 PROVE Few(a[i].used \cup U, PortSpace - 1)
    <3> DEFINE h == [j \in 1 .. n |-> IF j <= i THEN a[i].nodes[j].port ELSE t[j].port]
    <3>1. Within(a[i].used, PoolPorts, h, n, i + 1)
      <4> SUFFICES ASSUME NEW q \in a[i].used, q \notin PoolPorts
                   PROVE  \E j \in (1 .. n) \ {i + 1} : q = h[j]
        BY DEF Within
      <4>1. CASE \E j \in 1 .. i : q = a[i].nodes[j].port
        BY <4>1
      <4>2. CASE q \in u
        <5>1. PICK j \in 1 .. n : q = t[j].port /\ t[j].port # 0
          BY <2>3, <4>2
        <5> QED
          BY <2>0, <2>3, <5>1
      <4> QED
        BY <2>0, <4>1, <4>2
    <3> HIDE DEF h
    <3>2. Few(PoolPorts, 1)
      BY FewPool
    <3>3. i + 1 \in 1 .. n
      BY <1>1
    <3> HIDE DEF n
    <3> QED
      BY <1>1, <2>3, <3>1, <3>2, <3>3, FewUsed
  <2>4. PICK p \in Ports : /\ Adds(a[i], a[i + 1], t[i + 1], p)
                           /\ t[i + 1].port # 0 => p = t[i + 1].port
                           /\ OwnPorts /\ t[i + 1].port = 0 => p \notin a[i].used
    <3>1. OwnPorts /\ t[i + 1].port = 0 => Few(a[i].used \cup U, PortSpace - 1)
      BY <2>3
    <3>2. a[i] \in Accs /\ t[i + 1] \in Node
      BY <2>2
    <3>3. \E p \in Ports : /\ Adds(a[i], AssignUnused(a[i], t[i + 1], U), t[i + 1], p)
                           /\ t[i + 1].port # 0 => p = t[i + 1].port
                           /\ OwnPorts /\ t[i + 1].port = 0 => p \notin a[i].used
      BY <3>1, <3>2, UnusedAdds, Zenon
    <3> QED
      BY <2>1, <3>3
  <2>5. /\ Follows(a[i + 1], t, i + 1) /\ a[i + 1].nodes[i + 1].port = p
        /\ \A j \in 1 .. i : a[i + 1].nodes[j] = a[i].nodes[j]
    <3>1. i \in 0 .. (Len(t) - 1) /\ Follows(a[i], t, i)
      BY <2>2
    <3>2. p \in Ports /\ Adds(a[i], a[i + 1], t[i + 1], p)
      BY <2>4
    <3> QED
      BY <3>1, <3>2, AddsFollows
  <2>6. a[i].used \subseteq a[i + 1].used /\ a[i + 1].used \subseteq a[i].used \cup {p}
    BY <2>4 DEF Adds
  <2>7. Spread(i + 1)
    <3>1. \A j \in 1 .. (i + 1) : j \in 1 .. i \/ j = i + 1
      OBVIOUS
    <3>2. ASSUME NEW j \in 1 .. (i + 1)
          PROVE  /\ t[j].port # 0 => a[i + 1].nodes[j].port = t[j].port
                 /\ OwnPorts /\ t[j].port = 0 => a[i + 1].nodes[j].port \notin u
      <4>1. CASE j = i + 1
        <5>1. OwnPorts /\ t[i + 1].port = 0 => p \notin u
          BY <2>0, <2>4
        <5> QED
          BY <2>4, <2>5, <4>1, <5>1
      <4>2. CASE j \in 1 .. i
        <5>1. a[i + 1].nodes[j] = a[i].nodes[j]
          BY <2>5, <4>2
        <5>2. /\ t[j].port # 0 => a[i].nodes[j].port = t[j].port
              /\ OwnPorts /\ t[j].port = 0 => a[i].nodes[j].port \notin u
          BY <2>0, <4>2
        <5> QED
          BY <5>1, <5>2
      <4> QED
        BY <3>1, <4>1, <4>2
    <3>3. a[i + 1].used \subseteq u \cup {a[i + 1].nodes[j].port : j \in 1 .. (i + 1)}
      <4> SUFFICES ASSUME NEW q \in a[i + 1].used, q \notin u
                   PROVE  \E j \in 1 .. (i + 1) : q = a[i + 1].nodes[j].port
        OBVIOUS
      <4>1. CASE q = p
        BY <2>5, <4>1, i + 1 \in 1 .. (i + 1)
      <4>2. CASE q # p
        <5>1. PICK j \in 1 .. i : q = a[i].nodes[j].port
          BY <2>0, <2>6, <4>2
        <5> QED
          BY <2>5, <5>1, j \in 1 .. (i + 1)
      <4> QED
        BY <4>1, <4>2
    <3>4. u \subseteq a[i + 1].used
      BY <2>0, <2>6
    <3> QED
      BY <2>5, <3>2, <3>3, <3>4
  <2> QED
    BY <2>7 DEF T
<1>5. n \in T
  <2> HIDE DEF T
  <2> QED
    BY <1>1, <1>3, <1>4, InductTo
<1>6. SameNames(t, a[n].nodes)
  BY <1>5, FollowsAll
<1>7. \A j \in 1 .. n : /\ t[j].port # 0 => a[n].nodes[j].port = t[j].port
                        /\ OwnPorts /\ t[j].port = 0 => a[n].nodes[j].port \notin u
  BY <1>5
<1> QED
  BY <1>2, <1>6, <1>7

-----------------------------------------------------------------------------
(* Normalization                                                           *)

\* No two nodes have one name.
Distinct(s) == \A i, j \in DOMAIN s : s[i].name = s[j].name => i = j

\* The nodes of a list have names and ports.
LEMMA Elements ==
    ASSUME NEW s \in Seq(Node)
    PROVE  /\ Len(s) \in Nat /\ DOMAIN s = 1 .. Len(s)
           /\ \A i \in DOMAIN s : s[i].name \in Names /\ s[i].port \in Ports
           /\ PortsOf(s) \in SUBSET Ports
<1>1. Len(s) \in Nat /\ DOMAIN s = 1 .. Len(s)
  OBVIOUS
<1>2. \A i \in DOMAIN s : s[i] \in Node
  OBVIOUS
<1>3. \A i \in DOMAIN s : s[i].name \in Names /\ s[i].port \in Ports
  BY <1>2 DEF Node
<1> QED
  BY <1>1, <1>3 DEF PortsOf

\* There are at most as many nodes as names.
LEMMA LenFew ==
    ASSUME NEW s \in Seq(Node), Distinct(s)
    PROVE  Len(s) \in Nat /\ Len(s) <= Cardinality(Names)
<1> DEFINE n == Len(s)
           f == [i \in 1 .. n |-> s[i].name]
<1>1. n \in Nat /\ DOMAIN s = 1 .. n /\ \A i \in 1 .. n : s[i].name \in Names
  BY Elements
<1>2. \A i, j \in 1 .. n : s[i].name = s[j].name => i = j
  BY <1>1 DEF Distinct
<1>3. f \in Injection(1 .. n, Names)
  BY <1>1, <1>2 DEF Injection, IsInjective
<1> HIDE DEF f
<1>4. IsFiniteSet(Names)
  BY PortAssumption
<1>5. Cardinality(1 .. n) <= Cardinality(Names)
  BY <1>3, <1>4, FS_Injection
<1>6. Cardinality(1 .. n) = n
  BY <1>1, FS_Interval
<1> QED
  BY <1>1, <1>5, <1>6

\* A change of ports keeps names apart.
LEMMA SameNamesDistinct ==
    ASSUME NEW s \in Seq(Node), Distinct(s), NEW r, SameNames(s, r)
    PROVE  r \in Seq(Node) /\ Len(r) = Len(s) /\ Distinct(r)
<1>1. r \in Seq(Node) /\ Len(r) = Len(s) /\ \A j \in 1 .. Len(s) : s[j].name = r[j].name
  BY DEF SameNames
<1>2. DOMAIN r = 1 .. Len(s) /\ DOMAIN s = 1 .. Len(s)
  BY <1>1
<1> QED
  BY <1>1, <1>2 DEF Distinct

\* What normalize returns: the same nodes, in hybrid mode none at the pool's port.
LEMMA NormalizeIs ==
    ASSUME NEW s \in Seq(Node), Distinct(s), NEW U, Few(U, MaxBusy)
    PROVE  /\ Normalize(s, U) \in Seq(Node) /\ Distinct(Normalize(s, U))
           /\ mode = "hybrid" => PoolPort \notin PortsOf(Normalize(s, U))
<1> DEFINE t == AssignAll(s, U)
           r == MoveAllOffPool(t, U)
<1>1. Few(U, PortSpace - 1)
  <2>1. MaxBusy \in Int /\ PortSpace - 1 \in Int /\ MaxBusy <= PortSpace - 1
    BY Bounds
  <2> QED
    BY <2>1, FewSubset, U \in SUBSET U
<1>2. SameNames(s, t)
  BY <1>1, AssignKeepsNames
<1> HIDE DEF t
<1>3. t \in Seq(Node) /\ Distinct(t)
  BY <1>2, SameNamesDistinct
<1>4. Len(t) <= Cardinality(Names)
  BY <1>3, LenFew
<1>5. SameNames(t, r) /\ PoolPort \notin PortsOf(r)
  BY <1>3, <1>4, MoveKeepsPool
<1> HIDE DEF r
<1>6. r \in Seq(Node) /\ Distinct(r)
  BY <1>3, <1>5, SameNamesDistinct
<1>7. Normalize(s, U) = IF mode = "hybrid" THEN r ELSE t
  BY DEF Normalize, t, r
<1> QED
  BY <1>3, <1>5, <1>6, <1>7

\* A port map: ports of URIs.
IsPortMap(m) == /\ DOMAIN m \in SUBSET Range(Uri)
                /\ \A u \in DOMAIN m : m[u] \in Ports \ {0}

\* What BuildPortMap returns.
LEMMA PortMapIs ==
    ASSUME NEW s \in Seq(Node)
    PROVE  IsPortMap(PortMap(s))
<1> DEFINE D == {Uri[s[i].name] : i \in {j \in DOMAIN s : s[j].port # 0}}
           I(u) == {i \in DOMAIN s : Uri[s[i].name] = u /\ s[i].port # 0}
<1>1. D \in SUBSET Range(Uri)
  BY Elements, PortAssumption
<1>2. ASSUME NEW u \in D PROVE s[Max(I(u))].port \in Ports \ {0}
  <2>1. Len(s) \in Nat /\ I(u) \in SUBSET (0 .. Len(s)) /\ I(u) # {}
    BY Elements
  <2>2. Max(I(u)) \in I(u)
    <3> HIDE DEF I
    <3> QED
      BY <2>1, MaxIs
  <2> QED
    BY <2>2, Elements
<1>3. PortMap(s) = [u \in D |-> s[Max(I(u))].port]
  BY DEF PortMap
<1> HIDE DEF D, I
<1> QED
  BY <1>1, <1>2, <1>3 DEF IsPortMap

\* The node has the port that the map has for its URI.
Pinned(n, m) == Uri[n.name] \in DOMAIN m /\ n.port = m[Uri[n.name]]

\* A node that has its port shares it only with nodes that have theirs.
Apart(s, m) ==
    \A i, j \in DOMAIN s : Pinned(s[i], m) /\ ~Pinned(s[j], m) => s[i].port # s[j].port

\* Every node of the map has its port.
AllPinned(s, m) ==
    \A j \in DOMAIN s : Uri[s[j].name] \in DOMAIN m => s[j].port = m[Uri[s[j].name]]

\* Every node with a port has its URI in the map.
Covers(m, s) == \A j \in DOMAIN s : s[j].port # 0 => Uri[s[j].name] \in DOMAIN m

\* The first pass of NormalizeWithPortMap, for one node.
LEMMA PreserveIs ==
    ASSUME NEW n \in Node, NEW m, IsPortMap(m)
    PROVE  /\ Preserve(n, m) \in Node /\ Preserve(n, m).name = n.name
           /\ OwnPorts /\ Uri[n.name] \in DOMAIN m => Preserve(n, m).port = m[Uri[n.name]]
           /\ Uri[n.name] \notin DOMAIN m => Preserve(n, m).port = n.port
<1>1. CASE OwnPorts /\ Uri[n.name] \in DOMAIN m
  <2>1. m[Uri[n.name]] \in Ports
    BY <1>1 DEF IsPortMap
  <2>2. Preserve(n, m) = [n EXCEPT !.port = m[Uri[n.name]]]
    BY <1>1 DEF Preserve
  <2> QED
    BY <1>1, <2>1, <2>2 DEF Node
<1>2. CASE ~(OwnPorts /\ Uri[n.name] \in DOMAIN m)
  <2>1. Preserve(n, m) = n
    BY <1>2 DEF Preserve
  <2> QED
    BY <1>2, <2>1
<1> QED
  BY <1>1, <1>2

\* What NormalizeWithPortMap returns: every node of the map has its port, and no
\* node without one was given it.
LEMMA WithPortMapIs ==
    ASSUME NEW s \in Seq(Node), Distinct(s), NEW m, IsPortMap(m), Covers(m, s), NEW U,
           OwnPorts => Few(U \ PoolPorts, Cardinality(Names) + MaxBusy)
    PROVE  LET r == NormalizeWithPortMap(s, m, U)
           IN  /\ r \in Seq(Node) /\ Distinct(r)
               /\ OwnPorts => AllPinned(r, m) /\ Apart(r, m)
<1>1. CASE DOMAIN m = {}
  BY <1>1 DEF NormalizeWithPortMap, AllPinned, Apart, Pinned
<1>2. CASE DOMAIN m # {}
  <2> DEFINE n == Len(s)
             t == [i \in DOMAIN s |-> Preserve(s[i], m)]
             u == Preserved(s, m)
             r == AssignAllUnused(t, u, U)
  <2>1. n \in Nat /\ DOMAIN s = 1 .. n /\ \A i \in 1 .. n : s[i] \in Node
    OBVIOUS
  <2>2. \A i \in 1 .. n :
            /\ t[i] \in Node /\ t[i].name = s[i].name
            /\ OwnPorts /\ Uri[s[i].name] \in DOMAIN m => t[i].port = m[Uri[s[i].name]]
            /\ Uri[s[i].name] \notin DOMAIN m => t[i].port = s[i].port
    BY <2>1, PreserveIs
  <2>3. t \in Seq(Node) /\ Len(t) = n
    <3>1. t \in [1 .. n -> Node]
      BY <2>1, <2>2
    <3> QED
      BY <2>1, <3>1
  <2> HIDE DEF t
  <2>4. SameNames(s, t)
    BY <2>2, <2>3 DEF SameNames
  <2>5. Distinct(t) /\ Len(t) <= Cardinality(Names)
    BY <2>3, <2>4, SameNamesDistinct, LenFew
  <2>6. u \in SUBSET Ports
    BY <2>1, Bounds DEF Preserved, PoolPorts, IsPortMap
  <2>7. ASSUME OwnPorts, NEW q \in u
        PROVE  \/ q \in PoolPorts
               \/ \E j \in 1 .. Len(t) : t[j].port # 0 /\ q = t[j].port
    <3> SUFFICES ASSUME q \notin PoolPorts
                 PROVE  \E j \in 1 .. n : t[j].port # 0 /\ q = t[j].port
      BY <2>3
    <3>1. PICK j \in 1 .. n : Uri[s[j].name] \in DOMAIN m /\ q = m[Uri[s[j].name]]
      BY <2>1 DEF Preserved
    <3>2. q # 0
      BY <3>1 DEF IsPortMap
    <3> QED
      BY <2>2, <2>7, <3>1, <3>2
  <2> HIDE DEF u
  <2>8. OwnPorts => \A q \in u : \/ q \in PoolPorts
                                 \/ \E j \in 1 .. Len(t) : t[j].port # 0 /\ q = t[j].port
    BY <2>7
  <2>9. /\ SameNames(t, r)
        /\ \A j \in 1 .. Len(t) : /\ t[j].port # 0 => r[j].port = t[j].port
                                  /\ OwnPorts /\ t[j].port = 0 => r[j].port \notin u
    BY <2>3, <2>5, <2>6, <2>8, UnusedKeeps, Zenon
  <2> HIDE DEF r
  <2>10. r \in Seq(Node) /\ Len(r) = n /\ Distinct(r)
    BY <2>3, <2>5, <2>9, SameNamesDistinct
  <2>11. DOMAIN r = 1 .. n /\ \A j \in 1 .. n : r[j].name = s[j].name
    BY <2>2, <2>3, <2>9, <2>10 DEF SameNames
  <2>12. ASSUME OwnPorts, NEW j \in 1 .. n, Uri[s[j].name] \in DOMAIN m
         PROVE  r[j].port = m[Uri[s[j].name]] /\ r[j].port \in u
    <3>1. m[Uri[s[j].name]] \in u
      BY <2>1, <2>12 DEF u, Preserved
    <3>2. t[j].port = m[Uri[s[j].name]] /\ t[j].port # 0
      BY <2>2, <2>12 DEF IsPortMap
    <3> QED
      BY <2>3, <2>9, <3>1, <3>2
  <2>13. ASSUME OwnPorts, NEW j \in 1 .. n, Uri[s[j].name] \notin DOMAIN m
         PROVE  r[j].port \notin u
    <3>1. s[j].port = 0
      BY <2>1, <2>13 DEF Covers
    <3>2. t[j].port = 0
      BY <2>2, <2>13, <3>1
    <3> QED
      BY <2>3, <2>9, <2>13, <3>2
  <2>14. OwnPorts => AllPinned(r, m) /\ Apart(r, m)
    <3> SUFFICES ASSUME OwnPorts PROVE AllPinned(r, m) /\ Apart(r, m)
      OBVIOUS
    <3>1. AllPinned(r, m)
      BY <2>11, <2>12 DEF AllPinned
    <3>2. ASSUME NEW i \in 1 .. n, NEW j \in 1 .. n, Pinned(r[i], m), ~Pinned(r[j], m)
          PROVE  r[i].port # r[j].port
      <4>1. r[i].port \in u
        BY <2>11, <2>12, <3>2 DEF Pinned
      <4>2. r[j].port \notin u
        BY <2>11, <2>12, <2>13, <3>2 DEF Pinned
      <4> QED
        BY <4>1, <4>2
    <3> QED
      BY <2>11, <3>1, <3>2 DEF Apart
  <2>15. NormalizeWithPortMap(s, m, U) = r
    BY <1>2 DEF NormalizeWithPortMap, r, t, u
  <2> QED
    BY <2>10, <2>14, <2>15
<1> QED
  BY <1>1, <1>2

-----------------------------------------------------------------------------
(* Binding and reassigning                                                 *)

\* The inbounds, mode by mode.
LEMMA ListensIs ==
    ASSUME NEW s \in Seq(Node), mode \in Modes
    PROVE  /\ mode = "pool" => /\ DOMAIN Listens(s) = 1 .. 1 /\ Listens(s)[1] = PoolPort
           /\ mode = "multi-port" =>
                  /\ DOMAIN Listens(s) = 1 .. Len(s)
                  /\ \A i \in 1 .. Len(s) : Listens(s)[i] = s[i].port
           /\ mode = "hybrid" =>
                  /\ DOMAIN Listens(s) = 1 .. (Len(s) + 1) /\ Listens(s)[1] = PoolPort
                  /\ \A i \in 2 .. (Len(s) + 1) : Listens(s)[i] = s[i - 1].port
<1> DEFINE n == Len(s)
           own == [i \in DOMAIN s |-> s[i].port]
<1>1. n \in Nat /\ DOMAIN s = 1 .. n /\ \A i \in 1 .. n : s[i].port \in Ports
  BY Elements
<1>2. CASE mode = "pool"
  BY <1>2 DEF Listens
<1>3. CASE mode = "multi-port"
  <2>1. Listens(s) = own
    BY <1>3 DEF Listens
  <2> QED
    BY <1>1, <1>3, <2>1
<1>4. CASE mode = "hybrid"
  <2>1. Listens(s) = <<PoolPort>> \o own
    BY <1>4 DEF Listens
  <2>2. own \in Seq(Ports) /\ Len(own) = n /\ \A i \in 1 .. n : own[i] = s[i].port
    <3>1. own \in [1 .. n -> Ports] /\ \A i \in 1 .. n : own[i] = s[i].port
      BY <1>1
    <3> HIDE DEF own
    <3> QED
      BY <1>1, <3>1
  <2> HIDE DEF own
  <2>3. /\ <<PoolPort>> \in Seq(Ports) /\ Len(<<PoolPort>>) = 1 /\ <<PoolPort>>[1] = PoolPort
    BY Bounds
  <2> DEFINE L == <<PoolPort>> \o own
  <2>4. /\ L \in Seq(Ports) /\ Len(L) = 1 + n
        /\ \A i \in 1 .. (1 + n) : L[i] = IF i <= 1 THEN <<PoolPort>>[i] ELSE own[i - 1]
    BY <2>2, <2>3, ConcatProperties
  <2>5. /\ DOMAIN L = 1 .. (n + 1) /\ L[1] = PoolPort
        /\ \A i \in 2 .. (n + 1) : i - 1 \in 1 .. n /\ L[i] = own[i - 1]
    <3> HIDE DEF L
    <3> QED
      BY <1>1, <2>3, <2>4
  <2> QED
    BY <1>4, <2>1, <2>2, <2>5
<1> QED
  BY <1>2, <1>3, <1>4

\* An instance listens on ports, on few besides the pool.
LEMMA ListensType ==
    ASSUME NEW s \in Seq(Node), Distinct(s), mode \in Modes
    PROVE  /\ Range(Listens(s)) \ {0} \in SUBSET (Ports \ {0})
           /\ OwnPorts => Few((Range(Listens(s)) \ {0}) \ PoolPorts, Cardinality(Names))
<1> DEFINE L == Listens(s)
           R == Range(L) \ {0}
<1>1. Len(s) \in Nat /\ DOMAIN s = 1 .. Len(s) /\ \A i \in 1 .. Len(s) : s[i].port \in Ports
  BY Elements
<1>2. mode \in {"pool", "multi-port", "hybrid"}
  BY PortAssumption
<1>3. \A i \in DOMAIN L : L[i] \in {PoolPort} \cup PortsOf(s)
  <2>1. \A i \in 1 .. Len(s) : s[i].port \in PortsOf(s)
    BY <1>1 DEF PortsOf
  <2>2. CASE mode = "pool"
    BY <2>2, ListensIs
  <2>3. CASE mode = "multi-port"
    BY <2>1, <2>3, ListensIs
  <2>4. CASE mode = "hybrid"
    <3>1. /\ DOMAIN L = 1 .. (Len(s) + 1) /\ L[1] = PoolPort
          /\ \A i \in 2 .. (Len(s) + 1) : L[i] = s[i - 1].port
      BY <2>4, ListensIs
    <3> HIDE DEF L
    <3>2. \A i \in 1 .. (Len(s) + 1) :
              i = 1 \/ (i \in 2 .. (Len(s) + 1) /\ i - 1 \in 1 .. Len(s))
      BY <1>1
    <3> QED
      BY <2>1, <3>1, <3>2
  <2> QED
    BY <1>2, <2>2, <2>3, <2>4
<1>4. R \in SUBSET (Ports \ {0})
  <2>1. Range(L) \in SUBSET Ports
    BY <1>3, Elements, Bounds DEF Range
  <2> QED
    BY <2>1
<1>5. OwnPorts => R \ PoolPorts \in SUBSET {s[i].port : i \in 1 .. Len(s)}
  <2>1. CASE mode = "hybrid"
    BY <1>1, <1>3, <2>1 DEF PoolPorts, PortsOf, Range
  <2>2. CASE mode = "multi-port"
    BY <1>1, <2>2, ListensIs DEF Range
  <2> QED
    BY <2>1, <2>2 DEF OwnPorts
<1>6. Few({s[i].port : i \in 1 .. Len(s)}, Cardinality(Names))
  <2> DEFINE h == [i \in 1 .. Len(s) |-> s[i].port]
  <2>1. Few(1 .. Len(s), Len(s)) /\ Len(s) \in Int
    BY <1>1, FewIndices
  <2>2. Few({h[i] : i \in 1 .. Len(s)}, Len(s))
    <3> HIDE DEF h
    <3> QED
      BY <2>1, FewImages
  <2>3. {h[i] : i \in 1 .. Len(s)} = {s[i].port : i \in 1 .. Len(s)}
    OBVIOUS
  <2> HIDE DEF h
  <2> DEFINE T == {s[i].port : i \in 1 .. Len(s)}
             m == Len(s)
  <2>4. m \in Int /\ m <= Cardinality(Names) /\ Cardinality(Names) \in Int
    BY LenFew, Bounds
  <2>5. Few(T, m) /\ T \in SUBSET T
    BY <2>2, <2>3
  <2> HIDE DEF T, m
  <2>6. Few(T, Cardinality(Names))
    BY <2>4, <2>5, FewSubset
  <2> QED
    BY <2>6 DEF T
<1> HIDE DEF R
<1>7. OwnPorts => Few(R \ PoolPorts, Cardinality(Names))
  <2>1. Cardinality(Names) \in Int /\ Cardinality(Names) <= Cardinality(Names)
    BY Bounds
  <2> SUFFICES ASSUME OwnPorts PROVE Few(R \ PoolPorts, Cardinality(Names))
    OBVIOUS
  <2>2. R \ PoolPorts \in SUBSET {s[i].port : i \in 1 .. Len(s)}
    BY <1>5
  <2> QED
    BY <1>6, <2>1, <2>2, FewSubset
<1> QED
  BY <1>4, <1>7 DEF R

\* Why the port cannot be bound.
Blocked(s, p) ==
    \/ p \in busy \cup PoolPorts
    \/ \E i, j \in DOMAIN s : i # j /\ s[i].port = p /\ s[j].port = p

\* The port a start reports as taken is taken, by another program, the pool or
\* another node.
LEMMA ConflictIs ==
    ASSUME NEW s \in Seq(Node), mode \in Modes, Conflicts(s) # {}
    PROVE  ConflictPort(s) # 0 /\ Blocked(s, ConflictPort(s))
<1> DEFINE L == Listens(s)
           C == Conflicts(s)
           i == Min(C)
<1>1. Len(s) \in Nat /\ DOMAIN s = 1 .. Len(s)
  BY Elements
<1>2. mode \in {"pool", "multi-port", "hybrid"}
  BY PortAssumption
<1>3. \E m \in Nat : DOMAIN L = 1 .. m
  BY <1>1, <1>2, ListensIs
<1>4. i \in C
  <2>1. C \in SUBSET Nat
    BY <1>3 DEF Conflicts
  <2> HIDE DEF C
  <2> QED
    BY <2>1, MinIs DEF C
<1>5. /\ i \in DOMAIN L /\ L[i] # 0
      /\ L[i] \in busy \/ \E j \in 1 .. (i - 1) : L[j] = L[i]
  <2> HIDE DEF i
  <2> QED
    BY <1>4 DEF Conflicts
<1>6. ConflictPort(s) = L[i]
  BY DEF ConflictPort
<1> HIDE DEF L, C, i
<1>7. CASE mode = "pool"
  <2>1. DOMAIN L = 1 .. 1
    BY <1>7, ListensIs DEF L
  <2> QED
    BY <1>5, <1>6, <2>1 DEF Blocked
<1>8. CASE mode = "multi-port"
  <2>1. DOMAIN L = 1 .. Len(s) /\ \A j \in 1 .. Len(s) : L[j] = s[j].port
    BY <1>8, ListensIs DEF L
  <2> QED
    BY <1>1, <1>5, <1>6, <2>1 DEF Blocked
<1>9. CASE mode = "hybrid"
  <2>1. /\ DOMAIN L = 1 .. (Len(s) + 1) /\ L[1] = PoolPort
        /\ \A j \in 2 .. (Len(s) + 1) : L[j] = s[j - 1].port
    BY <1>9, ListensIs DEF L
  <2>2. CASE L[i] \in busy
    BY <1>5, <1>6, <2>2 DEF Blocked
  <2>3. CASE L[i] \notin busy
    <3>1. PICK j \in 1 .. (i - 1) : L[j] = L[i]
      BY <1>5, <2>3
    <3>2. CASE j = 1
      BY <1>5, <1>6, <1>9, <2>1, <3>1, <3>2 DEF Blocked, PoolPorts
    <3>3. CASE j # 1
      <4>1. /\ i \in 2 .. (Len(s) + 1) /\ j \in 2 .. (Len(s) + 1)
            /\ i - 1 \in DOMAIN s /\ j - 1 \in DOMAIN s /\ i - 1 # j - 1
        BY <1>1, <1>5, <2>1, <3>1, <3>3
      <4>2. s[i - 1].port = L[i] /\ s[j - 1].port = L[i]
        BY <2>1, <3>1, <4>1
      <4> QED
        BY <1>5, <1>6, <4>1, <4>2 DEF Blocked
    <3> QED
      BY <3>2, <3>3
  <2> QED
    BY <2>2, <2>3
<1> QED
  BY <1>2, <1>7, <1>8, <1>9

\* r is s but for node k, which gets port q.
Moves(s, r, k, q) ==
    /\ r \in Seq(Node) /\ Len(r) = Len(s) /\ k \in DOMAIN s
    /\ r[k].name = s[k].name /\ r[k].port = q
    /\ \A j \in DOMAIN s \ {k} : r[j] = s[j]

\* reassignConflictingPort moves one node, to a port that nobody has.
LEMMA ReassignedIs ==
    ASSUME NEW s \in Seq(Node), Distinct(s), Few(busy, MaxBusy), NEW p, Holders(s, p) # {}
    PROVE  \E k \in Holders(s, p), q \in Ports \ (UsedPorts(s) \cup busy) :
               Moves(s, Reassigned(s, p), k, q)
<1> DEFINE n == Len(s)
           k == Min(Holders(s, p))
           q == FirstFree(After(p), UsedPorts(s) \cup busy)
           r == Reassigned(s, p)
<1>1. /\ n \in Nat /\ DOMAIN s = 1 .. n
      /\ \A i \in 1 .. n : s[i] \in Node /\ s[i].name \in Names /\ s[i].port \in Ports
  BY Elements
<1>2. k \in Holders(s, p)
  <2>1. Holders(s, p) \in SUBSET Nat
    BY <1>1 DEF Holders
  <2> QED
    BY <2>1, MinIs
<1> HIDE DEF k
<1>3. k \in 1 .. n /\ s[k].port = p /\ p \in Ports
  BY <1>1, <1>2 DEF Holders
<1>4. Few(UsedPorts(s) \cup busy, PortSpace - 1)
  <2> DEFINE h == [i \in 1 .. n |-> s[i].port]
  <2>1. Few(1 .. n, n) /\ n \in Int /\ MaxBusy \in Int
    BY <1>1, FewIndices, Bounds
  <2>2. Few({h[i] : i \in 1 .. n}, n)
    <3> HIDE DEF h, n
    <3> QED
      BY <2>1, FewImages
  <2>3. {h[i] : i \in 1 .. n} = PortsOf(s)
    BY <1>1 DEF PortsOf
  <2> HIDE DEF h, n
  <2>4. Few(PoolPorts \cup PortsOf(s), 1 + n)
    BY <2>1, <2>2, <2>3, FewPool, FewUnion
  <2>5. 1 + n \in Int
    BY <1>1
  <2>6. Few((PoolPorts \cup PortsOf(s)) \cup busy, (1 + n) + MaxBusy)
    BY <2>1, <2>4, <2>5, FewUnion
  <2>7. /\ (1 + n) + MaxBusy \in Int /\ PortSpace - 1 \in Int
        /\ (1 + n) + MaxBusy <= PortSpace - 1
    <3>1. n <= Cardinality(Names) /\ n >= 1
      BY <1>1, <1>3, LenFew DEF n
    <3> QED
      BY <1>1, <3>1, Bounds
  <2> QED
    BY <2>6, <2>7, FewSubset, (PoolPorts \cup PortsOf(s)) \cup busy
                                 \in SUBSET ((PoolPorts \cup PortsOf(s)) \cup busy)
       DEF UsedPorts
<1>5. q \in Ports \ (UsedPorts(s) \cup busy)
  BY <1>3, <1>4, AfterIs, FirstFreeIs
<1>6. r = [s EXCEPT ![k].port = q]
  BY DEF Reassigned, k
<1> HIDE DEF q, r
<1>7. Moves(s, r, k, q)
  <2>1. [s[k] EXCEPT !.port = q] \in Node
    BY <1>1, <1>3, <1>5 DEF Node
  <2>2. r = [s EXCEPT ![k] = [s[k] EXCEPT !.port = q]]
    BY <1>6
  <2>3. /\ r \in Seq(Node) /\ Len(r) = n
        /\ \A j \in 1 .. n : r[j] = IF j = k THEN [s[k] EXCEPT !.port = q] ELSE s[j]
    BY <1>3, <2>1, <2>2, ExceptSeq
  <2>4. [s[k] EXCEPT !.port = q].name = s[k].name /\ [s[k] EXCEPT !.port = q].port = q
    BY <1>1, <1>3 DEF Node
  <2> QED
    BY <1>1, <1>3, <2>3, <2>4 DEF Moves
<1> QED
  BY <1>2, <1>5, <1>7 DEF r

-----------------------------------------------------------------------------
(* Lists of nodes with distinct names                                      *)

\* The map of a list has the URI of every node with a port.
LEMMA PortMapCovers ==
    ASSUME NEW s \in Seq(Node)
    PROVE  Covers(PortMap(s), s)
  BY DEF Covers, PortMap

\* Deleting a node.
LEMMA RemoveAtIs ==
    ASSUME NEW s \in Seq(Node), Distinct(s), NEW i \in DOMAIN s
    PROVE  RemoveAt(s, i) \in Seq(Node) /\ Distinct(RemoveAt(s, i))
<1> DEFINE n == Len(s)
           A == SubSeq(s, 1, i - 1)
           B == SubSeq(s, i + 1, n)
           r == A \o B
<1>1. n \in Nat /\ DOMAIN s = 1 .. n /\ \A j \in 1 .. n : s[j] \in Node
  OBVIOUS
<1>2. /\ i \in 1 .. n /\ 1 \in Int /\ i - 1 \in Int /\ i + 1 \in Int /\ n \in Int
      /\ \A j \in 1 .. (i - 1) : s[j] \in Node
      /\ \A j \in (i + 1) .. n : s[j] \in Node
  BY <1>1
<1>3. /\ A \in Seq(Node) /\ Len(A) = i - 1
      /\ \A j \in 1 .. (i - 1) : A[j] = s[j]
  <2>1. /\ A \in Seq(Node)
        /\ Len(A) = IF 1 <= i - 1 THEN (i - 1) - 1 + 1 ELSE 0
        /\ \A j \in 1 .. ((i - 1) - 1 + 1) : A[j] = s[1 + j - 1]
    <3> HIDE DEF n
    <3> QED
      BY <1>2, SubSeqProperties
  <2> HIDE DEF A
  <2>2. \A j \in 1 .. (i - 1) : 1 + j - 1 = j /\ j \in 1 .. ((i - 1) - 1 + 1)
    BY <1>2
  <2> QED
    BY <1>1, <1>2, <2>1, <2>2
<1>4. /\ B \in Seq(Node) /\ Len(B) = n - i
      /\ \A j \in 1 .. (n - i) : B[j] = s[i + j]
  <2> DEFINE k == i + 1
  <2>1. k \in Int /\ k = i + 1 /\ i \in Int /\ n \in Int /\ i <= n
    BY <1>1, <1>2
  <2>2. \A j \in k .. n : s[j] \in Node
    BY <1>2
  <2>3. B = SubSeq(s, k, n)
    OBVIOUS
  <2> HIDE DEF B, k, n
  <2>4. /\ B \in Seq(Node)
        /\ Len(B) = IF k <= n THEN n - k + 1 ELSE 0
        /\ \A j \in 1 .. (n - k + 1) : B[j] = s[k + j - 1]
    BY <2>1, <2>2, <2>3, SubSeqProperties
  <2>5. Len(B) = n - i
    BY <2>1, <2>4
  <2>6. ASSUME NEW j \in 1 .. (n - i) PROVE B[j] = s[i + j]
    <3>1. n - k + 1 = n - i /\ j \in Int
      BY <2>1
    <3>2. k + j - 1 = i + j
      BY <2>1, <3>1
    <3> QED
      BY <2>4, <3>1, <3>2
  <2> QED
    BY <2>4, <2>5, <2>6
<1> HIDE DEF A, B
<1>5. /\ r \in Seq(Node) /\ Len(r) = Len(A) + Len(B)
      /\ \A j \in 1 .. (Len(A) + Len(B)) :
             r[j] = IF j <= Len(A) THEN A[j] ELSE B[j - Len(A)]
  BY <1>3, <1>4, ConcatProperties
<1> HIDE DEF r
<1> DEFINE f(j) == IF j < i THEN j ELSE j + 1
<1>6. /\ DOMAIN r = 1 .. (n - 1)
      /\ \A j \in 1 .. (n - 1) : f(j) \in 1 .. n /\ r[j] = s[f(j)]
  <2>1. Len(A) + Len(B) = n - 1
    BY <1>1, <1>2, <1>3, <1>4
  <2>2. DOMAIN r = 1 .. (n - 1)
    BY <1>5, <2>1
  <2>3. ASSUME NEW j \in 1 .. (n - 1) PROVE f(j) \in 1 .. n /\ r[j] = s[f(j)]
    <3>1. r[j] = IF j <= i - 1 THEN A[j] ELSE B[j - (i - 1)]
      BY <1>3, <1>5, <2>1
    <3>2. CASE j < i
      <4>1. j \in 1 .. (i - 1) /\ j \in 1 .. n
        BY <1>1, <1>2, <3>2
      <4> QED
        BY <1>3, <3>1, <3>2, <4>1
    <3>3. CASE ~(j < i)
      <4>1. /\ j - (i - 1) \in 1 .. (n - i) /\ i + (j - (i - 1)) = j + 1
            /\ j + 1 \in 1 .. n /\ ~(j <= i - 1)
        BY <1>1, <1>2, <3>3
      <4>2. B[j - (i - 1)] = s[i + (j - (i - 1))]
        BY <1>4, <4>1
      <4> QED
        BY <3>1, <3>3, <4>1, <4>2
    <3> QED
      BY <3>2, <3>3
  <2> QED
    BY <2>2, <2>3
<1>7. \A j, k \in 1 .. (n - 1) : f(j) = f(k) => j = k
  BY <1>1, <1>2
<1>8. Distinct(r)
  <2> HIDE DEF f, n
  <2> SUFFICES ASSUME NEW j \in 1 .. (n - 1), NEW k \in 1 .. (n - 1), r[j].name = r[k].name
               PROVE  j = k
    BY <1>6 DEF Distinct
  <2>1. f(j) \in DOMAIN s /\ f(k) \in DOMAIN s /\ s[f(j)].name = s[f(k)].name
    BY <1>1, <1>6
  <2>2. f(j) = f(k)
    BY <2>1 DEF Distinct
  <2> QED
    BY <1>7, <2>2
<1> QED
  BY <1>5, <1>8 DEF RemoveAt, r, A, B

\* Two lists without a common name.
LEMMA JoinedIs ==
    ASSUME NEW s \in Seq(Node), Distinct(s), NEW t \in Seq(Node), Distinct(t),
           \A i \in DOMAIN s, j \in DOMAIN t : s[i].name # t[j].name
    PROVE  /\ s \o t \in Seq(Node) /\ Distinct(s \o t)
           /\ \A i \in DOMAIN (s \o t) : \/ \E j \in DOMAIN s : (s \o t)[i] = s[j]
                                         \/ \E j \in DOMAIN t : (s \o t)[i] = t[j]
<1> DEFINE r == s \o t
           n == Len(s)
           m == Len(t)
<1>1. /\ n \in Nat /\ m \in Nat /\ DOMAIN s = 1 .. n /\ DOMAIN t = 1 .. m
  OBVIOUS
<1>2. /\ r \in Seq(Node) /\ Len(r) = n + m
      /\ \A i \in 1 .. (n + m) : r[i] = IF i <= n THEN s[i] ELSE t[i - n]
  BY ConcatProperties
<1> HIDE DEF r
<1>3. DOMAIN r = 1 .. (n + m)
  BY <1>2
<1> HIDE DEF n, m
<1>4. \A i \in 1 .. (n + m) : \/ i <= n /\ i \in 1 .. n /\ r[i] = s[i]
                              \/ ~(i <= n) /\ i - n \in 1 .. m /\ r[i] = t[i - n]
  BY <1>1, <1>2
<1>5. ASSUME NEW i \in 1 .. (n + m), NEW j \in 1 .. (n + m), r[i].name = r[j].name
      PROVE  i = j
  <2>1. i \in Int /\ j \in Int /\ n \in Int
    BY <1>1
  <2>2. CASE i <= n /\ j <= n
    BY <1>1, <1>4, <1>5, <2>2 DEF Distinct
  <2>3. CASE ~(i <= n) /\ ~(j <= n)
    <3> DEFINE a == i - n
               b == j - n
    <3>1. a \in 1 .. m /\ b \in 1 .. m /\ r[i] = t[a] /\ r[j] = t[b]
      BY <1>4, <2>3
    <3>2. a = b => i = j
      BY <2>1
    <3> HIDE DEF a, b
    <3>3. a = b
      BY <1>1, <1>5, <3>1 DEF Distinct
    <3> QED
      BY <3>2, <3>3
  <2>4. CASE i <= n /\ ~(j <= n)
    BY <1>1, <1>4, <1>5, <2>4
  <2>5. CASE ~(i <= n) /\ j <= n
    BY <1>1, <1>4, <1>5, <2>5
  <2> QED
    BY <2>2, <2>3, <2>4, <2>5
<1>6. Distinct(r)
  BY <1>3, <1>5 DEF Distinct
<1>7. \A i \in DOMAIN r : \/ \E j \in DOMAIN s : r[i] = s[j]
                          \/ \E j \in DOMAIN t : r[i] = t[j]
  BY <1>1, <1>3, <1>4
<1> QED
  BY <1>2, <1>6, <1>7 DEF r

\* Adding a node.
LEMMA AppendIs ==
    ASSUME NEW s \in Seq(Node), Distinct(s), NEW n \in Node,
           \A i \in DOMAIN s : s[i].name # n.name
    PROVE  Append(s, n) \in Seq(Node) /\ Distinct(Append(s, n))
<1>1. <<n>> \in Seq(Node) /\ DOMAIN <<n>> = 1 .. 1 /\ <<n>>[1] = n
  OBVIOUS
<1>2. Distinct(<<n>>)
  BY <1>1 DEF Distinct
<1>3. \A i \in DOMAIN s, j \in DOMAIN <<n>> : s[i].name # <<n>>[j].name
  BY <1>1
<1>4. s \o <<n>> \in Seq(Node) /\ Distinct(s \o <<n>>)
  <2> DEFINE t == <<n>>
  <2>1. t \in Seq(Node) /\ Distinct(t)
    BY <1>1, <1>2
  <2>2. \A i \in DOMAIN s, j \in DOMAIN t : s[i].name # t[j].name
    BY <1>3
  <2> HIDE DEF t
  <2>3. s \o t \in Seq(Node) /\ Distinct(s \o t)
    BY <2>1, <2>2, JoinedIs
  <2> QED
    BY <2>3 DEF t
<1>5. Append(s, n) = s \o <<n>>
  BY AppendIsConcat
<1> QED
  BY <1>4, <1>5

\* The choice of the inline nodes at a refresh, as a pass.
LEMMA InlinePass ==
    ASSUME NEW n \in Nat, NEW s, DOMAIN s = 1 .. n
    PROVE  \E a : Passes(a, "inline", <<>>, s, n, {}) /\ a[n] = InlineOf(s)
<1> DEFINE Body(g) == [S \in SUBSET (1 .. n) |->
                          IF S = {} THEN <<>>
                          ELSE IF s[Max(S)].name \in Inline
                               THEN Append(g[S \ {Max(S)}], s[Max(S)])
                               ELSE g[S \ {Max(S)}]]
           g == CHOOSE f : f = Body(f)
<1>1. \A f : Folds(f, "inline", <<>>, s, n, {}) <=> f = Body(f)
  BY DEF Folds, Step
<1>2. g = Body(g)
  <2>1. \E f : f = Body(f)
    BY <1>1, FoldExists
  <2> QED
    BY <2>1, Zenon
<1>3. InlineOf(s) = g[1 .. n]
  BY DEF InlineOf, FoldLeft, MapThenFoldSet
<1> HIDE DEF g
<1>4. Folds(g, "inline", <<>>, s, n, {})
  BY <1>1, <1>2
<1>5. PICK a : Passes(a, "inline", <<>>, s, n, {}) /\ a[n] = g[1 .. n]
  BY <1>4, FoldPasses
<1> QED
  BY <1>3, <1>5

\* r has nodes of s only, none of them twice.
Selects(r, s, i) ==
    /\ r \in Seq(Node) /\ Distinct(r)
    /\ \A k \in DOMAIN r : r[k].name \in Inline /\ \E j \in 1 .. i : r[k] = s[j]

\* The nodes that a refresh keeps.
LEMMA InlineIs ==
    ASSUME NEW s \in Seq(Node), Distinct(s)
    PROVE  Selects(InlineOf(s), s, Len(s))
<1> DEFINE n == Len(s)
<1>1. n \in Nat /\ DOMAIN s = 1 .. n /\ \A j \in 1 .. n : s[j] \in Node
  OBVIOUS
<1>2. PICK a : Passes(a, "inline", <<>>, s, n, {}) /\ a[n] = InlineOf(s)
  BY <1>1, InlinePass
<1> HIDE DEF n
<1> DEFINE T == {i \in Nat : i <= n => Selects(a[i], s, i)}
<1>3. 0 \in T
  <2>1. a[0] = <<>>
    BY <1>2 DEF Passes
  <2>2. <<>> \in Seq(Node) /\ DOMAIN <<>> = {}
    OBVIOUS
  <2>3. Selects(<<>>, s, 0)
    BY <2>2 DEF Selects, Distinct
  <2> QED
    BY <2>1, <2>3
<1>4. ASSUME NEW i \in 0 .. (n - 1), i \in T PROVE i + 1 \in T
  <2>1. Selects(a[i], s, i) /\ i \in Nat /\ i + 1 \in 1 .. n
    BY <1>1, <1>4
  <2> HIDE DEF T
  <2>2. a[i + 1] = Step("inline", a[i], s[i + 1], {})
    BY <1>1, <1>2, PassesNext
  <2>3. Selects(a[i + 1], s, i + 1)
    <3> DEFINE r == a[i]
               m == s[i + 1]
               q == a[i + 1]
    <3>1. q = IF m.name \in Inline THEN Append(r, m) ELSE r
      BY <2>2 DEF Step
    <3>2. /\ r \in Seq(Node) /\ Distinct(r)
          /\ \A k \in DOMAIN r : r[k].name \in Inline /\ \E j \in 1 .. i : r[k] = s[j]
      BY <2>1 DEF Selects
    <3>3. m \in Node
      BY <1>1, <2>1
    <3>4. \A j \in 1 .. i : j \in 1 .. (i + 1) /\ s[j].name # m.name
      BY <1>1, <2>1 DEF Distinct
    <3> HIDE DEF r, m, q
    <3>5. CASE m.name \notin Inline
      BY <3>1, <3>2, <3>4, <3>5 DEF Selects, r, q
    <3>6. CASE m.name \in Inline
      <4>1. Append(r, m) \in Seq(Node) /\ Distinct(Append(r, m))
        <5>1. \A k \in DOMAIN r : r[k].name # m.name
          BY <3>2, <3>4
        <5> QED
          BY <3>2, <3>3, <5>1, AppendIs
      <4>2. /\ DOMAIN Append(r, m) = 1 .. (Len(r) + 1) /\ Append(r, m)[Len(r) + 1] = m
            /\ DOMAIN r = 1 .. Len(r) /\ \A k \in 1 .. Len(r) : Append(r, m)[k] = r[k]
            /\ Len(r) \in Nat
        BY <3>2, <3>3
      <4>3. q = Append(r, m)
        BY <3>1, <3>6
      <4> HIDE DEF q
      <4>4. ASSUME NEW k \in DOMAIN q
            PROVE  q[k].name \in Inline /\ \E j \in 1 .. (i + 1) : q[k] = s[j]
        <5>1. CASE k = Len(r) + 1
          <6>1. q[k] = s[i + 1] /\ i + 1 \in 1 .. (i + 1)
            BY <2>1, <4>2, <4>3, <5>1 DEF m
          <6> QED
            BY <3>6, <6>1 DEF m
        <5>2. CASE k # Len(r) + 1
          <6>1. k \in DOMAIN r /\ q[k] = r[k]
            BY <4>2, <4>3, <5>2
          <6> QED
            BY <3>2, <3>4, <6>1
        <5> QED
          BY <5>1, <5>2
      <4>5. Selects(q, s, i + 1)
        BY <4>1, <4>3, <4>4 DEF Selects
      <4> QED
        BY <4>5 DEF q
    <3> QED
      BY <3>5, <3>6
  <2> QED
    BY <2>3 DEF T
<1> HIDE DEF T
<1>5. n \in T
  BY <1>1, <1>3, <1>4, InductTo
<1> QED
  BY <1>1, <1>2, <1>5 DEF T, n

\* The nodes that a refresh adds.
LEMMA FreshIs ==
    ASSUME NEW S \in SUBSET Names
    PROVE  LET r == SetToSeq(FreshNodes(S))
           IN  /\ r \in Seq(Node) /\ Distinct(r)
               /\ \A i \in DOMAIN r : r[i].name \in S /\ r[i].port = 0
<1> DEFINE F == FreshNodes(S)
           c == Cardinality(F)
           r == SetToSeq(F)
<1>1. IsFiniteSet(F)
  <2> DEFINE h == [n \in S |-> [name |-> n, port |-> 0]]
  <2>1. IsFiniteSet(S)
    BY FS_Subset, PortAssumption
  <2>2. Few(S, Cardinality(S)) /\ Cardinality(S) \in Int
    BY <2>1, FS_CardinalityType DEF Few
  <2> HIDE DEF h
  <2>3. Few({h[n] : n \in S}, Cardinality(S))
    BY <2>2, FewImages
  <2>4. F = {h[n] : n \in S}
    BY DEF h, FreshNodes
  <2> QED
    BY <2>3, <2>4 DEF Few
<1>2. F \in SUBSET Node /\ \A x \in F : x.name \in S /\ x.port = 0
  BY Bounds DEF FreshNodes, Node, Ports
<1>3. \A x, y \in F : x.name = y.name => x = y
  BY DEF FreshNodes
<1> HIDE DEF F
<1>4. c \in Nat /\ \E f \in [1 .. c -> F] : IsInjective(f)
  <2>1. c \in Nat /\ ExistsBijection(1 .. c, F)
    BY <1>1, FS_CardinalityType
  <2> QED
    BY <2>1 DEF ExistsBijection, Bijection, Injection
<1>5. r \in [1 .. c -> F] /\ IsInjective(r)
  BY <1>4, Zenon DEF SetToSeq
<1> HIDE DEF c, r
<1>6. r \in Seq(Node) /\ DOMAIN r = 1 .. c /\ \A i \in 1 .. c : r[i] \in F
  <2>1. r \in [1 .. c -> Node]
    BY <1>2, <1>5
  <2> QED
    BY <1>4, <1>5, <2>1
<1>7. Distinct(r)
  BY <1>3, <1>5, <1>6 DEF Distinct, IsInjective
<1> QED
  BY <1>2, <1>6, <1>7 DEF r, F

\* The nodes after a refresh; those with a port are in the map of the nodes before.
LEMMA RefreshedIs ==
    ASSUME NEW s \in Seq(Node), Distinct(s), NEW S \in SUBSET (Names \ Inline)
    PROVE  LET r == InlineOf(s) \o SetToSeq(FreshNodes(S))
           IN  r \in Seq(Node) /\ Distinct(r) /\ Covers(PortMap(s), r)
<1> DEFINE p == InlineOf(s)
           q == SetToSeq(FreshNodes(S))
           r == p \o q
<1>1. /\ p \in Seq(Node) /\ Distinct(p)
      /\ \A k \in DOMAIN p : p[k].name \in Inline /\ \E j \in DOMAIN s : p[k] = s[j]
  BY InlineIs, Elements DEF Selects
<1>2. /\ q \in Seq(Node) /\ Distinct(q)
      /\ \A i \in DOMAIN q : q[i].name \in S /\ q[i].port = 0
  BY FreshIs
<1> HIDE DEF p, q
<1>3. \A i \in DOMAIN p, j \in DOMAIN q : p[i].name # q[j].name
  BY <1>1, <1>2
<1>4. /\ r \in Seq(Node) /\ Distinct(r)
      /\ \A i \in DOMAIN r : \/ \E j \in DOMAIN p : r[i] = p[j]
                             \/ \E j \in DOMAIN q : r[i] = q[j]
  BY <1>1, <1>2, <1>3, JoinedIs
<1> HIDE DEF r
<1>5. Covers(PortMap(s), s)
  BY PortMapCovers
<1>6. Covers(PortMap(s), r)
  BY <1>1, <1>2, <1>4, <1>5 DEF Covers
<1> QED
  BY <1>4, <1>6 DEF p, q, r

-----------------------------------------------------------------------------
(* Types                                                                   *)

\* TypeOK with what makes it inductive: names are distinct, so that there is always
\* a free port, also beside what the running instance listens on.
TypeInv ==
    /\ TypeOK /\ Distinct(nodes) /\ Distinct(next)
    /\ Few(busy, MaxBusy)
    /\ OwnPorts => Few(bound \ PoolPorts, Cardinality(Names))

\* The empty list of nodes, and the empty set.
LEMMA EmptyIs == <<>> \in Seq(Node) /\ Distinct(<<>>) /\ Few({}, 0)
<1>1. <<>> \in Seq(Node) /\ DOMAIN <<>> = {}
  OBVIOUS
<1> QED
  BY <1>1, FS_EmptySet DEF Distinct, Few

\* The empty port map.
LEMMA NoPorts == DOMAIN <<>> = {} /\ Range(<<>>) = {}
  BY DEF Range

\* The user's configuration.
LEMMA InitType == Init => TypeInv
<1> SUFFICES ASSUME Init PROVE TypeInv
  OBVIOUS
<1>1. PICK k \in 1 .. Cardinality(Names) :
          /\ nodes \in [1 .. k -> [name : Names, port : Given]]
          /\ Cardinality(NamesOf(nodes)) = k
  BY DEF Init
<1>2. k \in Nat
  BY Bounds
<1>3. nodes \in [1 .. k -> Node]
  BY <1>1, PortAssumption DEF Node, Ports
<1>4. nodes \in Seq(Node) /\ DOMAIN nodes = 1 .. k
  BY <1>2, <1>3
<1>5. Distinct(nodes)
  <2> DEFINE f == [i \in 1 .. k |-> nodes[i].name]
             T == NamesOf(nodes)
  <2>1. f \in Surjection(1 .. k, T)
    BY <1>4 DEF Surjection, NamesOf
  <2>2. IsFiniteSet(1 .. k) /\ Cardinality(1 .. k) = k
    BY <1>2, FS_Interval
  <2>3. Cardinality(T) = k
    BY <1>1
  <2> HIDE DEF f, T
  <2>4. f \in Injection(1 .. k, T)
    BY <2>1, <2>2, <2>3, FS_Surjection
  <2> QED
    BY <1>4, <2>4 DEF Injection, IsInjective, f, Distinct
<1>6. busy \in SUBSET (Ports \ {0}) /\ Cardinality(busy) <= MaxBusy
  BY DEF Init
<1>7. Few(busy, MaxBusy)
  <2>1. IsFiniteSet(Ports)
    BY FS_Interval, Bounds DEF Ports
  <2>2. busy \in SUBSET Ports
    BY <1>6
  <2> QED
    BY <1>6, <2>1, <2>2, FS_Subset DEF Few
<1>8. OwnPorts => Few(bound \ PoolPorts, Cardinality(Names))
  <2>1. bound \ PoolPorts = {}
    BY DEF Init
  <2>2. 0 \in Int /\ Cardinality(Names) \in Int /\ 0 <= Cardinality(Names) /\ {} \in SUBSET {}
    BY Bounds
  <2>3. Few({}, Cardinality(Names))
    BY <2>2, EmptyIs, FewSubset
  <2> QED
    BY <2>1, <2>3
<1>9. TypeOK
  BY <1>4, <1>6, EmptyIs, NoPorts, PortAssumption DEF Init, TypeOK
<1> QED
  BY <1>5, <1>7, <1>8, <1>9, EmptyIs DEF TypeInv, Init

\* The mode decides who has ports of their own.
LEMMA SameMode ==
    ASSUME mode' = mode
    PROVE  /\ OwnPorts' <=> OwnPorts
           /\ PoolPorts' = PoolPorts
  BY DEF OwnPorts, PoolPorts

\* The nodes a reload starts with.
LEMMA BeginIs ==
    ASSUME TypeInv, NEW s \in Seq(Node), Distinct(s), NEW m, IsPortMap(m), Covers(m, s),
           next' = NormalizeWithPortMap(s, m, busy \cup bound)
    PROVE  /\ next' \in Seq(Node) /\ Distinct(next')
           /\ OwnPorts => AllPinned(next', m) /\ Apart(next', m)
<1> DEFINE U == busy \cup bound
<1>1. OwnPorts => Few(U \ PoolPorts, Cardinality(Names) + MaxBusy)
  <2> SUFFICES ASSUME OwnPorts PROVE Few(U \ PoolPorts, Cardinality(Names) + MaxBusy)
    OBVIOUS
  <2> DEFINE B == bound \ PoolPorts
  <2>1. Few(B, Cardinality(Names)) /\ Few(busy, MaxBusy)
    BY DEF TypeInv
  <2>2. Cardinality(Names) \in Int /\ MaxBusy \in Int
    BY Bounds
  <2> HIDE DEF B
  <2>3. Few(B \cup busy, Cardinality(Names) + MaxBusy)
    BY <2>1, <2>2, FewUnion
  <2>4. U \ PoolPorts \in SUBSET (B \cup busy)
    BY DEF B
  <2>5. /\ Cardinality(Names) + MaxBusy \in Int
        /\ Cardinality(Names) + MaxBusy <= Cardinality(Names) + MaxBusy
    BY <2>2
  <2> HIDE DEF U
  <2> QED
    BY <2>3, <2>4, <2>5, FewSubset
<1> HIDE DEF U
<1> DEFINE r == NormalizeWithPortMap(s, m, U)
<1>2. r \in Seq(Node) /\ Distinct(r) /\ (OwnPorts => AllPinned(r, m) /\ Apart(r, m))
  BY <1>1, WithPortMapIs, Zenon
<1>3. next' = r
  BY DEF U
<1> QED
  BY <1>2, <1>3

\* A port map has the type that TypeOK demands.
LEMMA MapRange ==
    ASSUME NEW m, IsPortMap(m)
    PROVE  DOMAIN m \subseteq Range(Uri) /\ Range(m) \subseteq Ports \ {0}
  BY DEF IsPortMap, Range

\* The beginning of a reload keeps the types.
LEMMA BeginKeepsType ==
    ASSUME TypeInv, NEW s \in Seq(Node), Distinct(s), NEW m, IsPortMap(m), Covers(m, s),
           BeginReload(s, m), nodes' = s
    PROVE  TypeInv'
<1>1. next' \in Seq(Node) /\ Distinct(next')
  BY BeginIs DEF BeginReload
<1>2. DOMAIN kept' \subseteq Range(Uri) /\ Range(kept') \subseteq Ports \ {0}
  BY MapRange DEF BeginReload
<1>3. Few(bound' \ PoolPorts', Cardinality(Names))
  <2>1. bound' \ PoolPorts' = {}
    BY DEF BeginReload
  <2>2. 0 \in Int /\ Cardinality(Names) \in Int /\ 0 <= Cardinality(Names) /\ {} \in SUBSET {}
    BY Bounds
  <2>3. Few({}, Cardinality(Names))
    BY <2>2, EmptyIs, FewSubset
  <2> QED
    BY <2>1, <2>3
<1>4. Few(busy', MaxBusy) /\ nodes' \in Seq(Node) /\ Distinct(nodes')
  BY DEF TypeInv, BeginReload
<1>5. TypeOK'
  BY <1>1, <1>2, <1>4, PortAssumption DEF TypeInv, TypeOK, BeginReload, Restart
<1> QED
  BY <1>1, <1>3, <1>4, <1>5 DEF TypeInv

\* A reassignment moves one node, from a port that cannot be bound to a free one.
LEMMA ReassignIs ==
    ASSUME TypeInv, Reassign
    PROVE  \E k \in DOMAIN next, q \in Ports \ (UsedPorts(next) \cup busy) :
               /\ Moves(next, next', k, q)
               /\ next[k].port # 0 /\ Blocked(next, next[k].port)
<1>1. next \in Seq(Node) /\ Distinct(next) /\ mode \in Modes /\ Few(busy, MaxBusy)
  BY DEF TypeInv, TypeOK
<1> DEFINE p == ConflictPort(next)
<1>2. p # 0 /\ Blocked(next, p)
  BY <1>1, ConflictIs DEF Reassign
<1>3. Holders(next, p) # {} /\ next' = Reassigned(next, p)
  BY DEF Reassign
<1> HIDE DEF p
<1>4. PICK k \in Holders(next, p), q \in Ports \ (UsedPorts(next) \cup busy) :
          Moves(next, next', k, q)
  BY <1>1, <1>3, ReassignedIs
<1>5. k \in DOMAIN next /\ next[k].port = p
  BY DEF Holders
<1> QED
  BY <1>2, <1>4, <1>5

\* It changes no name.
LEMMA MovesKeepsNames ==
    ASSUME NEW s \in Seq(Node), Distinct(s), NEW r, NEW k, NEW q, Moves(s, r, k, q)
    PROVE  r \in Seq(Node) /\ Distinct(r) /\ Len(r) = Len(s) /\ DOMAIN r = DOMAIN s
<1>1. SameNames(s, r)
  BY DEF Moves, SameNames
<1> QED
  BY <1>1, SameNamesDistinct DEF Moves

\* nextAvailablePort finds a port.
LEMMA NextAvailableIs ==
    ASSUME TypeInv, Names # {}
    PROVE  NextAvailable \in Ports
<1> DEFINE n == Len(nodes)
           h == [i \in 1 .. n |-> nodes[i].port]
<1>1. nodes \in Seq(Node) /\ Distinct(nodes)
  BY DEF TypeInv, TypeOK
<1>2. n \in Nat /\ DOMAIN nodes = 1 .. n /\ n <= Cardinality(Names)
  BY <1>1, LenFew
<1>3. Few(1 .. n, n) /\ n \in Int
  BY <1>2, FewIndices
<1>4. Few({h[i] : i \in 1 .. n}, n)
  <2> HIDE DEF h, n
  <2> QED
    BY <1>3, FewImages
<1>5. {h[i] : i \in 1 .. n} = PortsOf(nodes)
  BY <1>2 DEF PortsOf
<1> HIDE DEF h, n
<1>6. Few({0} \cup PortsOf(nodes), 1 + n)
  <2> DEFINE Z == {0}
             P == PortsOf(nodes)
  <2>1. Few(Z, 1)
    BY FewOne
  <2>2. Few(P, n)
    BY <1>4, <1>5
  <2> HIDE DEF Z, P
  <2>3. Few(Z \cup P, 1 + n)
    BY <1>3, <2>1, <2>2, 1 \in Int, FewUnion
  <2> QED
    BY <2>3 DEF Z, P
<1>7. 1 + n \in Int /\ PortSpace - 1 \in Int /\ 1 + n <= PortSpace - 1
  <2>1. Cardinality(Names) # 0
    <3>1. IsFiniteSet(Names)
      BY PortAssumption
    <3> QED
      BY <3>1, FS_EmptySet
  <2> DEFINE N == Cardinality(Names)
  <2>2. /\ N \in Nat /\ N # 0 /\ MaxBusy \in Nat /\ PortSpace \in Nat
        /\ 2 * N + MaxBusy < PortSpace
    BY <2>1, Bounds
  <2>3. n \in Nat /\ n <= N
    BY <1>2
  <2> HIDE DEF N
  <2> QED
    BY <2>2, <2>3
<1> DEFINE X == {0} \cup PortsOf(nodes)
<1>8. Few(X, 1 + n) /\ X \in SUBSET X
  BY <1>6
<1> HIDE DEF X
<1>9. Few(X, PortSpace - 1)
  BY <1>7, <1>8, FewSubset
<1> QED
  BY <1>9, FirstFreeIs, Bounds DEF NextAvailable, X

\* What prepareNodeLocked returns is a node.
LEMMA PreparedIs ==
    ASSUME TypeInv, NEW n \in Names, NEW p \in Given
    PROVE  Prepared(n, p) \in Node /\ Prepared(n, p).name = n
<1>1. NextAvailable \in Ports /\ p \in Ports
  BY NextAvailableIs, PortAssumption DEF Ports
<1> QED
  BY <1>1 DEF Prepared, Node

\* The node endpoints change nothing but the nodes.
LEMMA EditKeepsType ==
    ASSUME TypeInv, NEW s \in Seq(Node), Distinct(s), EditNodes(s)
    PROVE  TypeInv'
  BY SameMode DEF TypeInv, TypeOK, EditNodes

\* Every step keeps the types, one step of the proof for each action.
LEMMA TypeStep == TypeInv /\ [Next]_vars => TypeInv'
<1> SUFFICES ASSUME TypeInv, [Next]_vars PROVE TypeInv'
  OBVIOUS
<1>0. /\ nodes \in Seq(Node) /\ Distinct(nodes) /\ next \in Seq(Node) /\ Distinct(next)
      /\ Few(busy, MaxBusy) /\ mode \in Modes
      /\ OwnPorts => Few(bound \ PoolPorts, Cardinality(Names))
  BY DEF TypeInv, TypeOK
<1>a. /\ <<>> \in Seq(Node) /\ Distinct(<<>>)
      /\ Few({}, Cardinality(Names)) /\ \A X : {} \ X = {}
  <2>1. 0 \in Int /\ Cardinality(Names) \in Int /\ 0 <= Cardinality(Names) /\ {} \in SUBSET {}
    BY Bounds
  <2> QED
    BY <2>1, EmptyIs, FewSubset
<1>1. CASE UNCHANGED vars
  BY <1>1 DEF TypeInv, TypeOK, vars, OwnPorts, PoolPorts
<1>2. CASE TakePort
  <2>1. PICK p \in Ports \ ({0} \cup busy \cup bound) :
            /\ busy' = busy \cup {p}
            /\ held' = IF Starting THEN held \cup {p} ELSE held
    BY <1>2 DEF TakePort
  <2>2. Few(busy', MaxBusy)
    <3>1. /\ IsFiniteSet(busy \cup {p})
          /\ Cardinality(busy \cup {p}) = Cardinality(busy) + 1
      BY <1>0, <2>1, FS_AddElement DEF Few
    <3>2. Cardinality(busy) \in Nat /\ MaxBusy \in Nat /\ Cardinality(busy) < MaxBusy
      BY <1>0, <1>2, FewType, Bounds DEF TakePort
    <3> QED
      BY <2>1, <3>1, <3>2 DEF Few
  <2>3. seized' \in 0 .. MaxSeized
    BY <1>2, PortAssumption DEF TakePort, TypeInv, TypeOK
  <2>4. TypeOK'
    BY <1>2, <2>1, <2>3 DEF TakePort, TypeInv, TypeOK
  <2> QED
    BY <1>0, <1>2, <2>2, <2>4, SameMode DEF TakePort, TypeInv
<1>3. CASE FreePort
  <2>1. PICK p \in busy : busy' = busy \ {p}
    BY <1>3 DEF FreePort
  <2>2. Few(busy', MaxBusy)
    <3>1. MaxBusy \in Int /\ MaxBusy <= MaxBusy /\ busy' \in SUBSET busy
      BY <2>1, Bounds
    <3> QED
      BY <1>0, <3>1, FewSubset
  <2>3. TypeOK'
    BY <1>3, <2>1 DEF FreePort, TypeInv, TypeOK
  <2> QED
    BY <1>0, <1>3, <2>2, <2>3, SameMode DEF FreePort, TypeInv
<1>4. CASE Load
  <2>1. next' \in Seq(Node) /\ Distinct(next')
    BY <1>0, <1>4, NormalizeIs DEF Load
  <2>2. TypeOK'
    BY <1>4, <2>1, PortAssumption DEF Load, Restart, TypeInv, TypeOK
  <2> QED
    BY <1>0, <1>4, <2>1, <2>2, SameMode DEF Load, Restart, TypeInv
<1>5. CASE Started
  <2>1. /\ bound' \in SUBSET (Ports \ {0})
        /\ OwnPorts => Few(bound' \ PoolPorts, Cardinality(Names))
    BY <1>0, <1>5, ListensType DEF Started
  <2>2. TypeOK'
    BY <1>0, <1>5, <1>a, <2>1, NoPorts, PortAssumption
       DEF Started, Over, TypeInv, TypeOK
  <2> QED
    BY <1>0, <1>5, <1>a, <2>1, <2>2, SameMode DEF Started, Over, TypeInv
<1>6. CASE Reassign
  <2>1. PICK k \in DOMAIN next, q \in Ports \ (UsedPorts(next) \cup busy) :
            Moves(next, next', k, q)
    BY <1>6, ReassignIs
  <2>2. next' \in Seq(Node) /\ Distinct(next')
    BY <1>0, <2>1, MovesKeepsNames
  <2>3. TypeOK'
    BY <1>0, <1>6, <2>2 DEF Reassign, TypeInv, TypeOK
  <2> QED
    BY <1>0, <1>6, <2>2, <2>3, SameMode DEF Reassign, TypeInv
<1>7. CASE StartFails
  <2>1. /\ bound' \in SUBSET (Ports \ {0})
        /\ OwnPorts => Few(bound' \ PoolPorts, Cardinality(Names))
    <3>1. CASE pc = "reload" /\ CanStart(nodes)
      BY <1>0, <1>7, <3>1, ListensType DEF StartFails
    <3>2. CASE ~(pc = "reload" /\ CanStart(nodes))
      BY <1>7, <1>a, <3>2 DEF StartFails
    <3> QED
      BY <3>1, <3>2
  <2>2. TypeOK'
    BY <1>0, <1>7, <1>a, <2>1, NoPorts, PortAssumption
       DEF StartFails, Over, TypeInv, TypeOK
  <2> QED
    BY <1>0, <1>7, <1>a, <2>1, <2>2, SameMode DEF StartFails, Over, TypeInv
<1>8. CASE TriggerReload
  <2>1. IsPortMap(PortMap(nodes)) /\ Covers(PortMap(nodes), nodes)
    BY <1>0, PortMapIs, PortMapCovers
  <2> QED
    BY <1>0, <1>8, <2>1, BeginKeepsType DEF TriggerReload
<1>9. CASE RefreshSubscriptions
  <2>1. PICK S \in SUBSET (Names \ Inline) :
            nodes' = InlineOf(nodes) \o SetToSeq(FreshNodes(S))
    BY <1>9 DEF RefreshSubscriptions
  <2>2. nodes' \in Seq(Node) /\ Distinct(nodes') /\ Covers(PortMap(nodes), nodes')
    BY <1>0, <2>1, RefreshedIs
  <2>3. IsPortMap(PortMap(nodes))
    BY <1>0, PortMapIs
  <2>4. BeginReload(nodes', PortMap(nodes))
    BY <1>9 DEF RefreshSubscriptions
  <2> QED
    BY <2>2, <2>3, <2>4, BeginKeepsType
<1>10. CASE \E n \in Names, p \in Given : CreateNode(n, p)
  <2>1. PICK n \in Names, p \in Given : CreateNode(n, p)
    BY <1>10
  <2>2. Prepared(n, p) \in Node /\ Prepared(n, p).name = n
    BY PreparedIs
  <2>3. \A i \in DOMAIN nodes : nodes[i].name # n
    BY <2>1 DEF CreateNode, NamesOf
  <2>4. /\ Append(nodes, Prepared(n, p)) \in Seq(Node)
        /\ Distinct(Append(nodes, Prepared(n, p)))
    BY <1>0, <2>2, <2>3, AppendIs
  <2> QED
    BY <2>1, <2>4, EditKeepsType DEF CreateNode
<1>11. CASE \E i \in DOMAIN nodes, p \in Given : UpdateNode(i, p)
  <2>1. PICK i \in DOMAIN nodes, p \in Given : UpdateNode(i, p)
    BY <1>11
  <2> DEFINE m == Prepared(nodes[i].name, p)
             s == [nodes EXCEPT ![i] = m]
  <2>2. nodes[i].name \in Names /\ DOMAIN nodes = 1 .. Len(nodes)
    BY <1>0, Elements
  <2>3. m \in Node /\ m.name = nodes[i].name
    BY <2>2, PreparedIs
  <2>4. EditNodes(s)
    BY <2>1 DEF UpdateNode
  <2> HIDE DEF m
  <2>5. /\ s \in Seq(Node) /\ Len(s) = Len(nodes)
        /\ \A j \in 1 .. Len(nodes) : s[j] = IF j = i THEN m ELSE nodes[j]
    BY <1>0, <2>2, <2>3, ExceptSeq
  <2> HIDE DEF s
  <2>6. SameNames(nodes, s)
    BY <2>3, <2>5 DEF SameNames
  <2>7. Distinct(s)
    BY <1>0, <2>6, SameNamesDistinct
  <2> QED
    BY <2>4, <2>5, <2>7, EditKeepsType
<1>12. CASE \E i \in DOMAIN nodes : DeleteNode(i)
  <2>1. PICK i \in DOMAIN nodes : DeleteNode(i)
    BY <1>12
  <2> DEFINE s == RemoveAt(nodes, i)
  <2>2. s \in Seq(Node) /\ Distinct(s)
    BY <1>0, RemoveAtIs
  <2>3. EditNodes(s)
    BY <2>1 DEF DeleteNode
  <2> HIDE DEF s
  <2> QED
    BY <2>2, <2>3, EditKeepsType
<1> QED
  BY <1>1, <1>2, <1>3, <1>4, <1>5, <1>6, <1>7, <1>8, <1>9, <1>10, <1>11, <1>12 DEF Next

\* Ports stay within uint16 and nodes stay nodes, whatever is loaded, edited,
\* reloaded or reassigned.
THEOREM TypeCorrect == Spec => []TypeOK
<1>1. TypeInv => TypeOK
  BY DEF TypeInv
<1> QED
  BY <1>1, InitType, TypeStep, PTL DEF Spec

-----------------------------------------------------------------------------
(* The pool's port, and convergence                                        *)

\* Only Load and Reassign change the nodes of the first start; neither gives one the
\* pool's port.
LEMMA PoolPortStep == TypeInv /\ PoolPortIsKept /\ [Next]_vars => PoolPortIsKept'
<1> SUFFICES ASSUME TypeInv, PoolPortIsKept, [Next]_vars,
                    mode' = "hybrid", pc' = "boot"
             PROVE  PoolPort \notin PortsOf(next')
  BY DEF PoolPortIsKept, PortsOf
<1>0. next \in Seq(Node) /\ Distinct(next)
  BY DEF TypeInv, TypeOK
<1>1. CASE Load
  <2>1. nodes \in Seq(Node) /\ Distinct(nodes) /\ Few(busy, MaxBusy)
    BY DEF TypeInv, TypeOK
  <2>2. next' = Normalize(nodes, busy) /\ mode = "hybrid"
    BY <1>1 DEF Load
  <2> QED
    BY <2>1, <2>2, NormalizeIs
<1>2. CASE Reassign
  <2>1. PICK k \in DOMAIN next, q \in Ports \ (UsedPorts(next) \cup busy) :
            Moves(next, next', k, q)
    BY <1>2, ReassignIs
  <2>2. DOMAIN next' = DOMAIN next
    BY <1>0, <2>1, MovesKeepsNames
  <2>3. mode = "hybrid" /\ PoolPort \notin PortsOf(next)
    BY <1>2 DEF Reassign, PoolPortIsKept
  <2>4. q # PoolPort
    BY <2>1, <2>3 DEF UsedPorts, PoolPorts
  <2> QED
    BY <2>1, <2>2, <2>3, <2>4 DEF Moves, PortsOf
<1>3. CASE pc = "boot" /\ mode = "hybrid" /\ next' = next
  BY <1>3 DEF PoolPortIsKept
<1>4. Load \/ Reassign \/ (pc = "boot" /\ mode = "hybrid" /\ next' = next)
  BY DEF Next, vars, TakePort, FreePort, Started, StartFails, TriggerReload,
         RefreshSubscriptions, BeginReload, CreateNode, UpdateNode, DeleteNode, EditNodes
<1> QED
  BY <1>1, <1>2, <1>3, <1>4

\* In hybrid mode the first start gives no node the pool's port, through
\* normalize and every reassignment.
THEOREM PoolPortKept == Spec => []PoolPortIsKept
<1>1. Init => PoolPortIsKept
  BY DEF Init, PoolPortIsKept
<1> QED
  BY <1>1, InitType, TypeStep, PoolPortStep, PTL DEF Spec

\* The nodes of s that cannot bind their port.
Shares(s, i) == \E j \in DOMAIN s \ {i} : s[j].port = s[i].port
\* The nodes of s that cannot bind their port, or would keep another from it.
Disputed(s) ==
    {i \in DOMAIN s : /\ s[i].port # 0
                      /\ s[i].port \in busy \cup PoolPorts \/ Shares(s, i)}

\* Every attempt so far has settled a node, every port taken has unsettled one.
Converging ==
    Starting => attempt + Cardinality(Disputed(next)) <= Len(next) + seized

\* A set of nodes of s has at most Len(s) elements.
LEMMA DisputedFinite ==
    ASSUME NEW s \in Seq(Node), NEW D \in SUBSET DOMAIN s
    PROVE  IsFiniteSet(D) /\ Cardinality(D) \in Nat /\ Cardinality(D) <= Len(s)
<1>1. Len(s) \in Nat /\ DOMAIN s = 1 .. Len(s)
  BY Elements
<1> DEFINE n == Len(s)
<1>2. IsFiniteSet(1 .. n) /\ Cardinality(1 .. n) = n
  <2>1. n \in Nat
    BY <1>1
  <2> HIDE DEF n
  <2> QED
    BY <2>1, FS_Interval
<1>3. IsFiniteSet(DOMAIN s) /\ Cardinality(DOMAIN s) = n
  BY <1>1, <1>2
<1> QED
  BY <1>3, FS_Subset, FS_CardinalityType

\* A start begins with no attempt made.
LEMMA FreshlyConverging ==
    ASSUME next' \in Seq(Node), Restart
    PROVE  Converging'
<1>1. Disputed(next)' \in SUBSET DOMAIN next'
  BY DEF Disputed
<1>2. Cardinality(Disputed(next)') \in Nat /\ Cardinality(Disputed(next)') <= Len(next')
  <2>1. \A D \in SUBSET DOMAIN next' : Cardinality(D) \in Nat /\ Cardinality(D) <= Len(next')
    BY DisputedFinite
  <2> QED
    BY <1>1, <2>1
<1>3. Len(next') \in Nat
  OBVIOUS
<1> HIDE DEF Disputed
<1> QED
  BY <1>2, <1>3 DEF Converging, Restart

\* What a reassignment and another program do to the disputed nodes.
LEMMA ReassignSettles ==
    ASSUME TypeInv, Reassign
    PROVE  \E k \in Disputed(next) : Disputed(next)' \in SUBSET (Disputed(next) \ {k})
<1>0. next \in Seq(Node) /\ Distinct(next)
  BY DEF TypeInv, TypeOK
<1>1. PICK k \in DOMAIN next, q \in Ports \ (UsedPorts(next) \cup busy) :
          /\ Moves(next, next', k, q)
          /\ next[k].port # 0 /\ Blocked(next, next[k].port)
  BY ReassignIs
<1>2. /\ DOMAIN next' = DOMAIN next /\ next'[k].port = q
      /\ \A j \in DOMAIN next \ {k} : next'[j] = next[j]
  BY <1>0, <1>1, MovesKeepsNames DEF Moves
<1>3. k \in Disputed(next)
  <2>1. CASE next[k].port \in busy \cup PoolPorts
    BY <1>1, <2>1 DEF Disputed
  <2>2. CASE \E i, j \in DOMAIN next : /\ i # j
                                       /\ next[i].port = next[k].port
                                       /\ next[j].port = next[k].port
    <3>1. Shares(next, k)
      BY <2>2 DEF Shares
    <3> QED
      BY <1>1, <3>1 DEF Disputed
  <2> QED
    BY <1>1, <2>1, <2>2 DEF Blocked
<1>4. busy' = busy /\ PoolPorts' = PoolPorts
  BY SameMode DEF Reassign
<1>5. q \notin busy /\ q \notin PoolPorts /\ \A j \in DOMAIN next : next[j].port # q
  BY <1>1 DEF UsedPorts, PortsOf
<1>6. ASSUME NEW i \in Disputed(next)' PROVE i \in Disputed(next) /\ i # k
  <2>1. /\ i \in DOMAIN next /\ next'[i].port # 0
        /\ \/ next'[i].port \in busy \cup PoolPorts
           \/ \E j \in DOMAIN next \ {i} : next'[j].port = next'[i].port
    BY <1>2, <1>4, <1>6 DEF Disputed, Shares
  <2>2. i # k
    BY <1>2, <1>5, <2>1
  <2>3. next'[i].port = next[i].port
    BY <1>2, <2>1, <2>2
  <2>4. next[i].port \in busy \cup PoolPorts \/ Shares(next, i)
    BY <1>2, <1>5, <2>1, <2>2, <2>3 DEF Shares
  <2> QED
    BY <2>1, <2>2, <2>3, <2>4 DEF Disputed
<1> QED
  BY <1>3, <1>6

\* A port that another program takes unsettles at most one node: two nodes that
\* share it were unsettled before.
LEMMA TakeDisputesOne ==
    ASSUME TypeInv, TakePort
    PROVE  \E D \in SUBSET DOMAIN next :
               Few(D, 1) /\ Disputed(next)' \in SUBSET (Disputed(next) \cup D)
<1>1. PICK p \in Ports \ {0} : busy' = busy \cup {p} /\ next' = next
  BY DEF TakePort
<1>2. PoolPorts' = PoolPorts
  BY SameMode DEF TakePort
<1> DEFINE D == {i \in DOMAIN next : next[i].port = p /\ ~Shares(next, i)}
<1>3. Few(D, 1)
  <2>1. CASE D = {}
    BY <2>1, FS_EmptySet DEF Few
  <2>2. CASE D # {}
    <3>1. PICK i \in D : TRUE
      BY <2>2
    <3>2. D = {i}
      BY <3>1 DEF Shares
    <3> HIDE DEF D
    <3> QED
      BY <3>2, FewOne
  <2> QED
    BY <2>1, <2>2
<1>4. Disputed(next)' \in SUBSET (Disputed(next) \cup D)
  <2> SUFFICES ASSUME NEW i \in Disputed(next)', i \notin D PROVE i \in Disputed(next)
    OBVIOUS
  <2>1. /\ i \in DOMAIN next /\ next[i].port # 0
        /\ next[i].port \in busy \cup {p} \cup PoolPorts \/ Shares(next, i)
    BY <1>1, <1>2 DEF Disputed, Shares
  <2> QED
    BY <2>1 DEF Disputed
<1>5. D \in SUBSET DOMAIN next
  OBVIOUS
<1> HIDE DEF D
<1> QED
  BY <1>3, <1>4, <1>5

\* Every step keeps the balance.
LEMMA ConvergeStep == TypeInv /\ Converging /\ [Next]_vars => Converging'
<1> SUFFICES ASSUME TypeInv, Converging, [Next]_vars, Starting'
             PROVE  Converging'
  BY DEF Converging
<1> DEFINE D == Disputed(next)
           c == Cardinality(D)
           n == Len(next)
<1>0. /\ next \in Seq(Node) /\ Distinct(next) /\ attempt \in Nat /\ seized \in Nat
      /\ n \in Nat /\ D \in SUBSET DOMAIN next
  <2>1. next \in Seq(Node) /\ Distinct(next) /\ attempt \in Nat /\ seized \in 0 .. MaxSeized
    BY DEF TypeInv, TypeOK
  <2> QED
    BY <2>1, PortAssumption DEF Disputed
<1>1. IsFiniteSet(D) /\ c \in Nat
  BY <1>0, DisputedFinite
<1>2. CASE Load
  <2>1. next' \in Seq(Node)
    BY TypeStep DEF TypeInv, TypeOK
  <2> QED
    BY <1>2, <2>1, FreshlyConverging DEF Load
<1>3. CASE TriggerReload \/ RefreshSubscriptions
  <2>1. next' \in Seq(Node)
    BY TypeStep DEF TypeInv, TypeOK
  <2> QED
    BY <1>3, <2>1, FreshlyConverging DEF TriggerReload, RefreshSubscriptions, BeginReload
<1>4. CASE Reassign
  <2>1. PICK k \in D : D' \in SUBSET (D \ {k})
    BY <1>4, ReassignSettles
  <2>2. attempt' = attempt + 1 /\ seized' = seized /\ Starting
    BY <1>4 DEF Reassign
  <2>3. Len(next') = n
    <3>1. PICK j \in DOMAIN next, q \in Ports : Moves(next, next', j, q)
      BY <1>4, ReassignIs
    <3> QED
      BY <3>1 DEF Moves
  <2> HIDE DEF D
  <2>4. IsFiniteSet(D \ {k}) /\ Cardinality(D \ {k}) = c - 1
    BY <1>1, <2>1, FS_RemoveElement
  <2>5. Cardinality(D') <= c - 1 /\ Cardinality(D') \in Nat
    BY <2>1, <2>4, FS_Subset, FS_CardinalityType
  <2>6. attempt + c <= n + seized
    BY <2>2 DEF Converging, D
  <2> HIDE DEF c, n
  <2>7. attempt' + Cardinality(D') <= Len(next') + seized'
    BY <1>0, <1>1, <2>2, <2>3, <2>5, <2>6
  <2> QED
    BY <2>7 DEF Converging, D
<1>5. CASE TakePort
  <2>1. PICK E \in SUBSET DOMAIN next : Few(E, 1) /\ D' \in SUBSET (D \cup E)
    BY <1>5, TakeDisputesOne
  <2>2. /\ attempt' = attempt /\ seized' = seized + 1 /\ Starting /\ next' = next
    BY <1>5 DEF TakePort, Starting
  <2> HIDE DEF D
  <2>3. Few(D, c)
    BY <1>1 DEF Few
  <2>4. Few(D \cup E, c + 1)
    BY <1>1, <2>1, <2>3, FewUnion
  <2>5. Cardinality(D') <= c + 1 /\ Cardinality(D') \in Nat
    <3>1. Few(D', c + 1)
      <4>1. c + 1 \in Int /\ c + 1 <= c + 1
        BY <1>1
      <4> QED
        BY <2>1, <2>4, <4>1, FewSubset
    <3> QED
      BY <3>1, FewType DEF Few
  <2>6. attempt + c <= n + seized
    BY <2>2 DEF Converging, D
  <2>7. Len(next') = n
    BY <2>2
  <2> HIDE DEF c, n
  <2>8. attempt' + Cardinality(D') <= Len(next') + seized'
    BY <1>0, <1>1, <2>2, <2>5, <2>6, <2>7
  <2> QED
    BY <2>8 DEF Converging, D
<1>6. CASE /\ Starting /\ next' = next /\ attempt' = attempt /\ seized' = seized
           /\ busy' \in SUBSET busy /\ mode' = mode
  <2>1. D' \in SUBSET D
    <3>1. PoolPorts' = PoolPorts
      BY <1>6, SameMode
    <3> QED
      BY <1>6, <3>1 DEF Disputed, Shares
  <2> HIDE DEF D
  <2>2. Cardinality(D') <= c /\ Cardinality(D') \in Nat
    BY <1>1, <2>1, FS_Subset, FS_CardinalityType
  <2>3. attempt + c <= n + seized /\ Len(next') = n
    BY <1>6 DEF Converging, D
  <2> HIDE DEF c, n
  <2>4. attempt' + Cardinality(D') <= Len(next') + seized'
    BY <1>0, <1>1, <1>6, <2>2, <2>3
  <2> QED
    BY <2>4 DEF Converging, D
<1>7. \/ Load \/ TriggerReload \/ RefreshSubscriptions \/ Reassign \/ TakePort
      \/ /\ Starting /\ next' = next /\ attempt' = attempt /\ seized' = seized
         /\ busy' \in SUBSET busy /\ mode' = mode
  BY DEF Next, vars, FreePort, Started, StartFails, CreateNode, UpdateNode, DeleteNode,
         EditNodes, Starting
<1> QED
  BY <1>2, <1>3, <1>4, <1>5, <1>6, <1>7

\* A start needs at most one attempt for each node and one more for each port that
\* another program takes meanwhile: a reassignment creates no conflict.
THEOREM StartsConverge == Spec => []StartConverges
<1>1. Init => Converging
  BY DEF Init, Converging, Starting
<1>2. TypeInv /\ Converging => StartConverges
  <2> SUFFICES ASSUME TypeInv, Converging, Starting PROVE attempt <= Len(next) + seized
    BY DEF StartConverges
  <2>1. next \in Seq(Node) /\ attempt \in Nat /\ seized \in 0 .. MaxSeized
    BY DEF TypeInv, TypeOK
  <2>2. Disputed(next) \in SUBSET DOMAIN next
    BY DEF Disputed
  <2>3. Cardinality(Disputed(next)) \in Nat
    BY <2>1, <2>2, DisputedFinite
  <2>4. attempt + Cardinality(Disputed(next)) <= Len(next) + seized
    BY DEF Converging
  <2>5. Len(next) \in Nat /\ seized \in Nat
    BY <2>1, PortAssumption
  <2> QED
    BY <2>1, <2>3, <2>4, <2>5
<1> QED
  BY <1>1, <1>2, InitType, TypeStep, ConvergeStep, PTL DEF Spec

-----------------------------------------------------------------------------
(* Preserved ports                                                         *)

\* While a reload keeps ports, what other programs hold is known to be held,
\* and a node that has its port shares it only with nodes that have theirs.
PinsApart == pc = "reload" /\ OwnPorts => busy \subseteq held /\ Apart(next, kept)

\* A node may have lost the port that the map has for it.
Excused(s, i) ==
    LET u == Uri[s[i].name] IN
    \/ kept[u] \in held \cup PoolPorts
    \/ \E v \in DOMAIN kept \ {u} : kept[v] = kept[u]
    \/ \E j \in DOMAIN s \ {i} : Uri[s[j].name] = u

\* The property, in these terms.
LEMMA PreservedIs ==
    PortsArePreserved <=>
        (pc = "reload" /\ OwnPorts =>
            \A i \in DOMAIN next :
                Uri[next[i].name] \in DOMAIN kept => Pinned(next[i], kept) \/ Excused(next, i))
  BY DEF PortsArePreserved, Pinned, Excused

\* A reload begins with every node of the map at its port.
LEMMA BeginPreserves ==
    ASSUME TypeInv, NEW s \in Seq(Node), Distinct(s), NEW m, IsPortMap(m), Covers(m, s),
           BeginReload(s, m)
    PROVE  PinsApart' /\ PortsArePreserved'
<1>1. /\ next' = NormalizeWithPortMap(s, m, busy \cup bound) /\ kept' = m
      /\ held' = busy /\ busy' = busy /\ mode' = mode
  BY DEF BeginReload, Restart
<1>2. OwnPorts => AllPinned(next', m) /\ Apart(next', m)
  BY <1>1, BeginIs, Zenon
<1>3. OwnPorts' => AllPinned(next', kept') /\ Apart(next', kept')
  BY <1>1, <1>2, SameMode
<1>4. PinsApart'
  <2>1. busy' \subseteq held'
    BY <1>1
  <2> QED
    BY <1>3, <2>1 DEF PinsApart, Apart, Pinned
<1>5. PortsArePreserved'
  BY <1>3 DEF PortsArePreserved, AllPinned
<1> QED
  BY <1>4, <1>5

\* A reassignment takes the port of a node of the map only for one of the reasons.
LEMMA ReassignPreserves ==
    ASSUME TypeInv, PinsApart, PortsArePreserved, Reassign
    PROVE  PinsApart' /\ PortsArePreserved'
<1> SUFFICES ASSUME pc = "reload", OwnPorts
             PROVE  PinsApart' /\ PortsArePreserved'
  <2>1. OwnPorts' <=> OwnPorts
    BY SameMode DEF Reassign
  <2> QED
    BY <2>1 DEF Reassign, PinsApart, PortsArePreserved
<1>0. next \in Seq(Node) /\ Distinct(next)
  BY DEF TypeInv, TypeOK
<1>1. PICK k \in DOMAIN next, q \in Ports \ (UsedPorts(next) \cup busy) :
          /\ Moves(next, next', k, q)
          /\ next[k].port # 0 /\ Blocked(next, next[k].port)
  BY ReassignIs
<1>2. /\ DOMAIN next' = DOMAIN next /\ next'[k].port = q
      /\ \A j \in DOMAIN next : next'[j].name = next[j].name
      /\ \A j \in DOMAIN next \ {k} : next'[j] = next[j]
  BY <1>0, <1>1, MovesKeepsNames DEF Moves
<1>3. kept' = kept /\ busy' = busy /\ held' = held /\ PoolPorts' = PoolPorts
  BY SameMode DEF Reassign
<1>4. \A j \in DOMAIN next : next[j].port # q
  BY <1>1 DEF UsedPorts, PortsOf
<1>5. busy \subseteq held /\ Apart(next, kept)
  BY DEF PinsApart
<1>6. \A j \in DOMAIN next \ {k} : Pinned(next'[j], kept) <=> Pinned(next[j], kept)
  BY <1>2
<1>7. Apart(next', kept)
  <2> SUFFICES ASSUME NEW i \in DOMAIN next, NEW j \in DOMAIN next,
                      Pinned(next'[i], kept), ~Pinned(next'[j], kept)
               PROVE  next'[i].port # next'[j].port
    BY <1>2 DEF Apart
  <2>1. i # j
    OBVIOUS
  <2>2. CASE i = k \/ j = k
    BY <1>2, <1>4, <2>1, <2>2
  <2>3. CASE i # k /\ j # k
    BY <1>2, <1>5, <1>6, <2>3 DEF Apart
  <2> QED
    BY <2>2, <2>3
<1>8. PinsApart'
  BY <1>3, <1>5, <1>7 DEF PinsApart
<1>9. Pinned(next[k], kept) => Excused(next, k)
  <2> SUFFICES ASSUME Pinned(next[k], kept) PROVE Excused(next, k)
    OBVIOUS
  <2>1. kept[Uri[next[k].name]] = next[k].port
    BY DEF Pinned
  <2>2. CASE next[k].port \in busy \cup PoolPorts
    BY <1>5, <2>1, <2>2 DEF Excused
  <2>3. CASE \E i, j \in DOMAIN next : /\ i # j
                                       /\ next[i].port = next[k].port
                                       /\ next[j].port = next[k].port
    <3>1. PICK j \in DOMAIN next \ {k} : next[j].port = next[k].port
      BY <2>3
    <3>2. Pinned(next[j], kept)
      BY <1>5, <3>1 DEF Apart
    <3> QED
      BY <2>1, <3>1, <3>2 DEF Pinned, Excused
  <2> QED
    BY <1>1, <2>2, <2>3 DEF Blocked
<1>10. \A i \in DOMAIN next : Excused(next, i) => Excused(next, i)'
  BY <1>2, <1>3 DEF Excused
<1>11. ASSUME NEW i \in DOMAIN next', Uri[next'[i].name] \in DOMAIN kept'
       PROVE  Pinned(next'[i], kept') \/ Excused(next, i)'
  <2>1. i \in DOMAIN next /\ Uri[next[i].name] \in DOMAIN kept
    BY <1>2, <1>3, <1>11
  <2>2. Pinned(next[i], kept) \/ Excused(next, i)
    BY <2>1, PreservedIs
  <2>3. CASE Excused(next, i)
    BY <1>10, <2>1, <2>3
  <2>4. CASE Pinned(next[i], kept) /\ i = k
    BY <1>9, <1>10, <2>1, <2>4
  <2>5. CASE Pinned(next[i], kept) /\ i # k
    BY <1>3, <1>6, <2>1, <2>5
  <2> QED
    BY <2>2, <2>3, <2>4, <2>5
<1>12. PortsArePreserved'
  BY <1>11 DEF PortsArePreserved, Pinned, Excused
<1> QED
  BY <1>8, <1>12

\* Every step keeps what was preserved.
LEMMA PreserveStep ==
    TypeInv /\ PinsApart /\ PortsArePreserved /\ [Next]_vars
        => PinsApart' /\ PortsArePreserved'
<1> SUFFICES ASSUME TypeInv, PinsApart, PortsArePreserved, [Next]_vars
             PROVE  PinsApart' /\ PortsArePreserved'
  OBVIOUS
<1>0. nodes \in Seq(Node) /\ Distinct(nodes)
  BY DEF TypeInv, TypeOK
<1>1. IsPortMap(PortMap(nodes)) /\ Covers(PortMap(nodes), nodes)
  BY <1>0, PortMapIs, PortMapCovers
<1>2. CASE TriggerReload
  BY <1>0, <1>1, <1>2, BeginPreserves DEF TriggerReload
<1>3. CASE RefreshSubscriptions
  <2>1. PICK S \in SUBSET (Names \ Inline) :
            nodes' = InlineOf(nodes) \o SetToSeq(FreshNodes(S))
    BY <1>3 DEF RefreshSubscriptions
  <2>2. nodes' \in Seq(Node) /\ Distinct(nodes') /\ Covers(PortMap(nodes), nodes')
    BY <1>0, <2>1, RefreshedIs
  <2>3. BeginReload(nodes', PortMap(nodes))
    BY <1>3 DEF RefreshSubscriptions
  <2> QED
    BY <1>1, <2>2, <2>3, BeginPreserves
<1>4. CASE Reassign
  BY <1>4, ReassignPreserves
<1>5. CASE pc' # "reload"
  BY <1>5 DEF PinsApart, PortsArePreserved
<1>6. CASE /\ pc' = pc /\ mode' = mode /\ next' = next /\ kept' = kept
           /\ held \subseteq held'
           /\ pc = "reload" /\ busy \subseteq held => busy' \subseteq held'
  <2>1. (OwnPorts' <=> OwnPorts) /\ PoolPorts' = PoolPorts
    BY <1>6, SameMode
  <2>2. PinsApart'
    BY <1>6, <2>1 DEF PinsApart
  <2>3. PortsArePreserved'
    BY <1>6, <2>1 DEF PortsArePreserved
  <2> QED
    BY <2>2, <2>3
<1>7. \/ TriggerReload \/ RefreshSubscriptions \/ Reassign \/ pc' # "reload"
      \/ /\ pc' = pc /\ mode' = mode /\ next' = next /\ kept' = kept
         /\ held \subseteq held'
         /\ pc = "reload" /\ busy \subseteq held => busy' \subseteq held'
  BY DEF Next, vars, TakePort, FreePort, Load, Started, StartFails, CreateNode, UpdateNode,
         DeleteNode, EditNodes, Starting
<1> QED
  BY <1>2, <1>3, <1>4, <1>5, <1>6, <1>7

\* Through a reload and all its reassignments a node whose URI is in the port map
\* loses its port only to another program, to the pool, or to a node that had the
\* same port or the same URI.
THEOREM PortsPreserved == Spec => []PortsArePreserved
<1>1. Init => PinsApart /\ PortsArePreserved
  BY DEF Init, PinsApart, PortsArePreserved
<1> QED
  BY <1>1, InitType, TypeStep, PreserveStep, PTL DEF Spec
=============================================================================
