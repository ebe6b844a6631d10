----------------------------- MODULE ListProofs -----------------------------
(***************************************************************************)
(* Linked lists at the level of their pointers.  First the exercise of     *)
(* workshop/linked-list.c: for any nodes and data its list implements a    *)
(* sequence.  Then the queues of process control blocks of project1: for   *)
(* any blocks, lists and ranks they are what the scheduler takes them for. *)
(***************************************************************************)
EXTENDS LinkedList, PcbQueues, FiniteSetTheorems, TLAPS

(* A leaf goes to Zenon unless it names a prover. *)
USE ZenonT(30)

-----------------------------------------------------------------------------
(* Chains of nodes. *)

\* The chain of n nodes s: from hd, each points to the next, up to ft, and the
\* heap h holds these nodes and no others.
Chain(s, h, hd, ft, n) ==
  /\ n \in Nat
  /\ s \in [1 .. n -> Nodes]
  /\ \A i, j \in 1 .. n : s[i] = s[j] => i = j
  /\ DOMAIN h = {s[i] : i \in 1 .. n}
  /\ h \in [DOMAIN h -> [data : Data, next : Nodes \cup {NULL}]]
  /\ \A i \in 1 .. n : h[s[i]].next = IF i = n THEN NULL ELSE s[i + 1]
  /\ hd = IF n = 0 THEN NULL ELSE s[1]
  /\ ft = IF n = 0 THEN NULL ELSE s[n]

\* What the nodes of a chain hold, in order.
Values(s, h) == [i \in 1 .. Len(s) |-> h[s[i]].data]

\* In the heap h2, node is linked into the chain s of the heap h, where it
\* becomes the k-th of n + 1.
LinkedIn(s, h, n, k, node, d, h2) ==
  /\ DOMAIN h2 = DOMAIN h \cup {node}
  /\ h2 = [x \in DOMAIN h2 |-> h2[x]]
  /\ h2[node] = Node(d, IF k = n + 1 THEN NULL ELSE s[k])
  /\ \A i \in 1 .. n :
       h2[s[i]] = Node(h[s[i]].data, IF i = k - 1 THEN node ELSE h[s[i]].next)

\* In the heap h2, the k-th of the n nodes of the chain s of the heap h is gone.
TakenOut(s, h, n, k, h2) ==
  /\ DOMAIN h2 = DOMAIN h \ {s[k]}
  /\ h2 = [x \in DOMAIN h2 |-> h2[x]]
  /\ \A i \in 1 .. n : i # k =>
       h2[s[i]] = Node(h[s[i]].data, IF i = k - 1 THEN h[s[k]].next ELSE h[s[i]].next)

\* A chain with a node linked in is a chain, and holds one value more.
LEMMA LinkedInChain ==
  ASSUME NEW s, NEW h, NEW hd, NEW ft, NEW n, Chain(s, h, hd, ft, n),
         NEW k \in 1 .. n + 1, NEW node \in Nodes \ DOMAIN h, NEW d \in Data,
         NEW h2, LinkedIn(s, h, n, k, node, d, h2),
         NEW hd2, hd2 = (IF k = 1 THEN node ELSE hd),
         NEW ft2, ft2 = (IF k = n + 1 THEN node ELSE ft), NEW n2, n2 = n + 1
  PROVE  /\ Chain(LinkAt(s, k, node), h2, hd2, ft2, n2)
         /\ Values(LinkAt(s, k, node), h2) = LinkAt(Values(s, h), k, d)
<1> DEFINE t == LinkAt(s, k, node)
<1>1. n \in Nat /\ k \in Nat /\ k # 0 /\ k <= n + 1 /\ Len(s) = n
      /\ \A i \in 1 .. n : s[i] \in Nodes /\ s[i] \in DOMAIN h /\ s[i] # node
  BY SMTT(30) DEF Chain
<1>2. /\ t \in [1 .. n + 1 -> Nodes] /\ Len(t) = n + 1 /\ t[k] = node
      /\ \A i \in 1 .. n : i >= k => t[i + 1] = s[i]
      /\ \A i \in 1 .. n + 1 : i < k => i \in 1 .. n /\ t[i] = s[i]
      /\ \A i \in 1 .. n + 1 : i > k => i - 1 \in 1 .. n /\ t[i] = s[i - 1]
  BY SMTT(30), <1>1 DEF LinkAt
<1> HIDE DEF t
<1>3. \A i, j \in 1 .. n + 1 : t[i] = t[j] => i = j
  <2> SUFFICES ASSUME NEW i \in 1 .. n + 1, NEW j \in 1 .. n + 1, t[i] = t[j] PROVE i = j
    OBVIOUS
  <2>0. \A x, y \in 1 .. n : s[x] = s[y] => x = y
    BY DEF Chain
  <2>1. CASE i < k
    BY SMTT(30), <1>1, <1>2, <2>0, <2>1
  <2>2. CASE i = k
    <3>1. j < k => t[j] # node
      BY <1>1, <1>2
    <3>2. j > k => t[j] # node
      BY <1>1, <1>2
    <3> QED BY SMTT(30), <1>1, <1>2, <2>2, <3>1, <3>2
  <2>3. CASE i > k
    BY SMTT(30), <1>1, <1>2, <2>0, <2>3
  <2> QED BY SMTT(30), <1>1, <2>1, <2>2, <2>3
<1>4. DOMAIN h2 = {t[i] : i \in 1 .. n + 1}
  <2>1. DOMAIN h2 = {s[i] : i \in 1 .. n} \cup {node}
    BY DEF Chain, LinkedIn
  <2>2. ASSUME NEW i \in 1 .. n + 1 PROVE t[i] \in DOMAIN h2
    BY SMTT(30), <1>1, <1>2, <2>1
  <2>3. ASSUME NEW x \in DOMAIN h2 PROVE \E i \in 1 .. n + 1 : x = t[i]
    <3>1. CASE x = node
      BY <1>1, <1>2, <3>1
    <3>2. CASE x # node
      <4>1. PICK i \in 1 .. n : x = s[i]
        BY <2>1, <3>2
      <4>2. CASE i < k
        BY SMTT(30), <1>1, <1>2, <4>1, <4>2
      <4>3. CASE i >= k
        BY SMTT(30), <1>1, <1>2, <4>1, <4>3
      <4> QED BY SMTT(30), <1>1, <4>2, <4>3
    <3> QED BY <3>1, <3>2
  <2> QED BY <2>2, <2>3
<1>5. ASSUME NEW i \in 1 .. n + 1
      PROVE  /\ h2[t[i]].data = IF i < k THEN h[s[i]].data ELSE IF i = k THEN d ELSE h[s[i - 1]].data
             /\ h2[t[i]].next = IF i = n + 1 THEN NULL ELSE t[i + 1]
  <2>0. \A j \in 1 .. n : h[s[j]].next = IF j = n THEN NULL ELSE s[j + 1]
    BY DEF Chain
  <2>1. CASE i < k
    <3>1. h2[s[i]] = Node(h[s[i]].data, IF i = k - 1 THEN node ELSE h[s[i]].next)
      BY SMTT(30), <1>1, <2>1 DEF LinkedIn
    <3>2. i \in 1 .. n /\ i # n + 1 /\ t[i] = s[i] /\ i + 1 \in 1 .. n + 1
      BY SMTT(30), <1>1, <1>2, <2>1
    <3>3. h2[t[i]].data = h[s[i]].data
          /\ h2[t[i]].next = IF i = k - 1 THEN node ELSE h[s[i]].next
      BY SMTT(30), <3>1, <3>2 DEF Node
    <3>4. i # k - 1 => i # n /\ t[i + 1] = s[i + 1]
      BY SMTT(30), <1>1, <1>2, <2>1
    <3>5. i = k - 1 => t[i + 1] = node
      BY SMTT(30), <1>1, <1>2
    <3> QED BY <1>1, <2>0, <2>1, <3>2, <3>3, <3>4, <3>5
  <2>2. CASE i = k
    <3>1. h2[node] = Node(d, IF k = n + 1 THEN NULL ELSE s[k])
      BY DEF LinkedIn
    <3> QED BY SMTT(30), <1>1, <1>2, <2>2, <3>1 DEF Node
  <2>3. CASE i > k
    <3>1. h2[s[i - 1]] = Node(h[s[i - 1]].data, h[s[i - 1]].next)
      BY SMTT(30), <1>1, <2>3 DEF LinkedIn
    <3> QED BY SMTT(30), <1>1, <1>2, <2>0, <2>3, <3>1 DEF Node
  <2> QED BY SMTT(30), <1>1, <2>1, <2>2, <2>3
<1>6. h2 \in [DOMAIN h2 -> [data : Data, next : Nodes \cup {NULL}]]
  <2>1. \A x \in DOMAIN h2 : h2[x] \in [data : Data, next : Nodes \cup {NULL}]
    <3> SUFFICES ASSUME NEW x \in DOMAIN h2
                 PROVE  h2[x] \in [data : Data, next : Nodes \cup {NULL}]
      OBVIOUS
    <3>1. \A y \in DOMAIN h : h[y].data \in Data /\ h[y].next \in Nodes \cup {NULL}
      BY DEF Chain
    <3>2. CASE x = node
      BY SMTT(30), <1>1, <3>2 DEF LinkedIn, Node
    <3>3. CASE x # node
      <4>1. PICK i \in 1 .. n : x = s[i]
        BY <3>3 DEF LinkedIn, Chain
      <4>2. h2[x] = Node(h[s[i]].data, IF i = k - 1 THEN node ELSE h[s[i]].next)
        BY <4>1 DEF LinkedIn
      <4> QED BY SMTT(30), <1>1, <3>1, <4>2 DEF Node
    <3> QED BY <3>2, <3>3
  <2> QED BY <2>1 DEF LinkedIn
<1>7. Chain(t, h2, hd2, ft2, n2)
  <2>1. n + 1 \in Nat /\ n + 1 # 0 /\ t[1] = (IF k = 1 THEN node ELSE s[1])
        /\ t[n + 1] = (IF k = n + 1 THEN node ELSE s[n])
    BY SMTT(30), <1>1, <1>2
  <2>2. (k # 1 => hd = s[1]) /\ (k # n + 1 => ft = s[n])
    BY SMTT(30), <1>1 DEF Chain
  <2> QED BY <1>2, <1>3, <1>4, <1>5, <1>6, <2>1, <2>2 DEF Chain
<1>8. Values(t, h2) = LinkAt(Values(s, h), k, d)
  <2>1. Len(Values(s, h)) = n /\ \A i \in 1 .. n : Values(s, h)[i] = h[s[i]].data
    BY SMTT(30), <1>1 DEF Values
  <2> HIDE DEF Values
  <2>2. Values(t, h2) = [i \in 1 .. n + 1 |-> h2[t[i]].data]
    BY <1>2 DEF Values
  <2>3. \A i \in 1 .. n + 1 : h2[t[i]].data =
          IF i < k THEN Values(s, h)[i] ELSE IF i = k THEN d ELSE Values(s, h)[i - 1]
    BY SMTT(30), <1>1, <1>5, <2>1
  <2> QED BY <2>1, <2>2, <2>3 DEF LinkAt
<1> QED BY <1>7, <1>8 DEF t

\* A chain with a node taken out is a chain, and holds one value less.
LEMMA TakenOutChain ==
  ASSUME NEW s, NEW h, NEW hd, NEW ft, NEW n, Chain(s, h, hd, ft, n),
         NEW k \in 1 .. n, NEW h2, TakenOut(s, h, n, k, h2),
         NEW hd2, hd2 = (IF k # 1 THEN hd ELSE IF n = 1 THEN NULL ELSE s[2]),
         NEW ft2, ft2 = (IF k # n THEN ft ELSE IF n = 1 THEN NULL ELSE s[n - 1]),
         NEW n2, n2 = n - 1
  PROVE  /\ Chain(UnlinkAt(s, k), h2, hd2, ft2, n2)
         /\ Values(UnlinkAt(s, k), h2) = UnlinkAt(Values(s, h), k)
<1> DEFINE t == UnlinkAt(s, k)
<1>1. n \in Nat /\ n # 0 /\ k \in Nat /\ k # 0 /\ k <= n /\ Len(s) = n
      /\ (\A i \in 1 .. n : s[i] \in Nodes /\ s[i] \in DOMAIN h)
      /\ (\A i, j \in 1 .. n : s[i] = s[j] => i = j)
  BY SMTT(30) DEF Chain
<1>2. /\ t \in [1 .. n - 1 -> Nodes] /\ Len(t) = n - 1
      /\ \A i \in 1 .. n - 1 : i < k => i \in 1 .. n /\ t[i] = s[i]
      /\ \A i \in 1 .. n - 1 : i >= k => i + 1 \in 1 .. n /\ t[i] = s[i + 1]
  BY SMTT(30), <1>1 DEF UnlinkAt
<1> HIDE DEF t
<1>3. \A i, j \in 1 .. n - 1 : t[i] = t[j] => i = j
  <2> SUFFICES ASSUME NEW i \in 1 .. n - 1, NEW j \in 1 .. n - 1, t[i] = t[j] PROVE i = j
    OBVIOUS
  <2>1. CASE i < k
    BY SMTT(30), <1>1, <1>2, <2>1
  <2>2. CASE i >= k
    BY SMTT(30), <1>1, <1>2, <2>2
  <2> QED BY SMTT(30), <1>1, <2>1, <2>2
<1>4. DOMAIN h2 = {t[i] : i \in 1 .. n - 1}
  <2>1. DOMAIN h2 = {s[i] : i \in 1 .. n} \ {s[k]}
    BY DEF Chain, TakenOut
  <2>2. ASSUME NEW i \in 1 .. n - 1 PROVE t[i] \in DOMAIN h2
    <3>1. CASE i < k
      BY SMTT(30), <1>1, <1>2, <2>1, <3>1
    <3>2. CASE i >= k
      BY SMTT(30), <1>1, <1>2, <2>1, <3>2
    <3> QED BY SMTT(30), <1>1, <3>1, <3>2
  <2>3. ASSUME NEW x \in DOMAIN h2 PROVE \E i \in 1 .. n - 1 : x = t[i]
    <3>1. PICK i \in 1 .. n : x = s[i] /\ i # k
      BY <2>1
    <3>2. CASE i < k
      BY SMTT(30), <1>1, <1>2, <3>1, <3>2
    <3>3. CASE i > k
      <4>1. i - 1 \in 1 .. n - 1 /\ i - 1 >= k /\ (i - 1) + 1 = i
        BY SMTT(30), <1>1, <3>3
      <4> QED BY <1>2, <3>1, <4>1
    <3> QED BY SMTT(30), <1>1, <3>1, <3>2, <3>3
  <2> QED BY <2>2, <2>3
<1>5. ASSUME NEW i \in 1 .. n - 1
      PROVE  /\ h2[t[i]].data = IF i < k THEN h[s[i]].data ELSE h[s[i + 1]].data
             /\ h2[t[i]].next = IF i = n - 1 THEN NULL ELSE t[i + 1]
  <2>0. \A j \in 1 .. n : h[s[j]].next = IF j = n THEN NULL ELSE s[j + 1]
    BY DEF Chain
  <2>1. CASE i < k
    <3>1. h2[s[i]] = Node(h[s[i]].data, IF i = k - 1 THEN h[s[k]].next ELSE h[s[i]].next)
      BY SMTT(30), <1>1, <2>1 DEF TakenOut
    <3> QED BY SMTT(30), <1>1, <1>2, <2>0, <2>1, <3>1 DEF Node
  <2>2. CASE i >= k
    <3>1. h2[s[i + 1]] = Node(h[s[i + 1]].data, h[s[i + 1]].next)
      BY SMTT(30), <1>1, <2>2 DEF TakenOut
    <3>2. i + 1 \in 1 .. n /\ t[i] = s[i + 1] /\ (i # n - 1 => t[i + 1] = s[(i + 1) + 1])
      BY SMTT(30), <1>1, <1>2, <2>2
    <3>3. h[s[i + 1]].next = IF i = n - 1 THEN NULL ELSE s[(i + 1) + 1]
      BY SMTT(30), <1>1, <2>0, <3>2
    <3>4. h2[t[i]].data = h[s[i + 1]].data /\ h2[t[i]].next = h[s[i + 1]].next
      BY SMTT(30), <3>1, <3>2 DEF Node
    <3> QED BY SMTT(30), <1>1, <2>2, <3>2, <3>3, <3>4
  <2> QED BY SMTT(30), <1>1, <2>1, <2>2
<1>6. h2 \in [DOMAIN h2 -> [data : Data, next : Nodes \cup {NULL}]]
  <2>1. \A x \in DOMAIN h2 : h2[x] \in [data : Data, next : Nodes \cup {NULL}]
    <3> SUFFICES ASSUME NEW x \in DOMAIN h2
                 PROVE  h2[x] \in [data : Data, next : Nodes \cup {NULL}]
      OBVIOUS
    <3>1. \A y \in DOMAIN h : h[y].data \in Data /\ h[y].next \in Nodes \cup {NULL}
      BY DEF Chain
    <3>2. PICK i \in 1 .. n : x = s[i] /\ i # k
      BY SMTT(30) DEF TakenOut, Chain
    <3>3. h2[x] = Node(h[s[i]].data, IF i = k - 1 THEN h[s[k]].next ELSE h[s[i]].next)
      BY <3>2 DEF TakenOut
    <3> QED BY SMTT(30), <1>1, <3>1, <3>3 DEF Node
  <2> QED BY <2>1 DEF TakenOut
<1>7. Chain(t, h2, hd2, ft2, n2)
  <2>1. /\ n - 1 \in Nat
        /\ n # 1 => /\ t[1] = IF k # 1 THEN s[1] ELSE s[2]
                    /\ t[n - 1] = IF k # n THEN s[n] ELSE s[n - 1]
    BY SMTT(30), <1>1, <1>2
  <2>2. hd = s[1] /\ ft = s[n] /\ (n = 1 => k = 1) /\ (n = 1 <=> n - 1 = 0)
    BY SMTT(30), <1>1 DEF Chain
  <2> QED BY <1>2, <1>3, <1>4, <1>5, <1>6, <2>1, <2>2 DEF Chain
<1>8. Values(t, h2) = UnlinkAt(Values(s, h), k)
  <2>1. Len(Values(s, h)) = n /\ \A i \in 1 .. n : Values(s, h)[i] = h[s[i]].data
    BY SMTT(30), <1>1 DEF Values
  <2>2. Values(t, h2) = [i \in 1 .. n - 1 |-> h2[t[i]].data]
    BY <1>2 DEF Values
  <2>3. \A i \in 1 .. n - 1 : h2[t[i]].data =
          IF i < k THEN Values(s, h)[i] ELSE Values(s, h)[i + 1]
    BY SMTT(30), <1>1, <1>5, <2>1
  <2> QED BY <2>1, <2>2, <2>3 DEF UnlinkAt
<1> QED BY <1>7, <1>8 DEF t

-----------------------------------------------------------------------------
(* The walk from the head. *)

\* Among places in the list there is a first one.
LEMMA LeastPlace ==
  ASSUME NEW T \in SUBSET Nat, T # {}
  PROVE  \E x \in T : \A y \in T : x <= y
<1> DEFINE R == OpToRel(<, Nat)
<1>1. IsWellFoundedOn(R, Nat)
  BY NatLessThanWellFounded
<1>2. PICK x \in T : \A y \in T : ~ (<<y, x>> \in R)
  <2> HIDE DEF R
  <2> QED BY <1>1, WFMin
<1>3. ASSUME NEW y \in T PROVE x <= y
  <2>1. <<y, x>> \notin R
    BY <1>2
  <2> QED BY SMTT(30), <2>1 DEF OpToRel
<1> QED BY <1>3

\* Induction over the steps of a walk, for a set instead of a predicate.
LEMMA StepInduction ==
  ASSUME NEW S, 0 \in S, \A n \in Nat : n \in S => n + 1 \in S
  PROVE  Nat \subseteq S
<1> DEFINE T == Nat \ S
<1> SUFFICES ASSUME T # {} PROVE FALSE
  OBVIOUS
<1>1. PICK x \in T : \A y \in T : x <= y
  BY LeastPlace
<1>2. x \in Nat /\ x # 0 /\ x - 1 \in Nat /\ (x - 1) + 1 = x
  BY SMTT(30)
<1>3. x - 1 \notin T
  BY SMTT(30), <1>1, <1>2
<1> QED BY <1>2, <1>3

\* A loop that follows the next pointers from the head comes to the nodes of
\* the chain one after the other, and then to NULL.
LEMMA NodeAtChain ==
  ASSUME NEW s, Chain(s, heap, head, foot, size), NEW m \in 0 .. size
  PROVE  NodeAt(m) = IF m = size THEN NULL ELSE s[m + 1]
<1> DEFINE IsWalk(f) == f = [k \in 0 .. m |-> IF k = 0 THEN head ELSE heap[f[k - 1]].next]
           g == [k \in 0 .. m |-> IF k = size THEN NULL ELSE s[k + 1]]
           at == CHOOSE f : IsWalk(f)
<1>1. /\ size \in Nat /\ m \in Nat /\ m <= size
      /\ head = IF size = 0 THEN NULL ELSE s[1]
      /\ \A i \in 1 .. size : heap[s[i]].next = IF i = size THEN NULL ELSE s[i + 1]
  BY SMTT(30) DEF Chain
<1>2. ASSUME NEW k \in 0 .. m PROVE g[k] = IF k = 0 THEN head ELSE heap[g[k - 1]].next
  <2>1. CASE k = 0
    BY SMTT(30), <1>1, <2>1
  <2>2. CASE k # 0
    <3>1. k - 1 \in 0 .. m /\ k - 1 # size /\ (k - 1) + 1 = k /\ k \in 1 .. size
      BY SMTT(30), <1>1, <2>2
    <3>2. g[k - 1] = s[k]
      BY <3>1
    <3> QED BY <1>1, <2>2, <3>1, <3>2
  <2> QED BY <2>1, <2>2
<1>3. IsWalk(g)
  BY <1>2
<1>4. IsWalk(at)
  <2> HIDE DEF g, IsWalk
  <2> QED BY <1>3
<1>5. NodeAt(m) = at[m]
  BY DEF NodeAt
<1> HIDE DEF at
<1>6. at[0] = head /\ \A k \in 1 .. m : at[k] = heap[at[k - 1]].next
  BY SMTT(30), <1>1, <1>4
<1>7. g[0] = head /\ \A k \in 1 .. m : g[k] = heap[g[k - 1]].next
  BY SMTT(30), <1>1, <1>2
<1> HIDE DEF g, IsWalk
<1> DEFINE S == {k \in Nat : k <= m => at[k] = g[k]}
<1>8. 0 \in S
  BY <1>6, <1>7
<1>9. ASSUME NEW k \in Nat, k \in S PROVE k + 1 \in S
  <2> SUFFICES ASSUME k + 1 <= m PROVE at[k + 1] = g[k + 1]
    BY SMTT(30)
  <2>1. k + 1 \in 1 .. m /\ (k + 1) - 1 = k /\ at[k] = g[k]
    BY SMTT(30), <1>1, <1>9
  <2> QED BY <1>6, <1>7, <2>1
<1>10. m \in S
  <2> HIDE DEF S
  <2> QED BY <1>1, <1>8, <1>9, StepInduction
<1> QED BY SMTT(30), <1>1, <1>5, <1>10 DEF g

\* The walk is the chain, and there is room for the chain among the nodes.
LEMMA WalkIsChain ==
  ASSUME NEW s, Chain(s, heap, head, foot, size)
  PROVE  /\ Walk = s /\ Len(s) = size
         /\ Contents = Values(s, heap)
         /\ size <= Cardinality(Nodes)
         /\ Nodes # DOMAIN heap => size < Cardinality(Nodes)
<1> USE ListAssumption
<1> DEFINE D == DOMAIN heap
           N == Cardinality(Nodes)
           upTo == CHOOSE n \in 0 .. N : NodeAt(n) = NULL /\ \A m \in 0 .. n - 1 : NodeAt(m) # NULL
<1>1. size \in Nat /\ s \in [1 .. size -> Nodes] /\ Len(s) = size
      /\ D = {s[i] : i \in 1 .. size} /\ (\A i, j \in 1 .. size : s[i] = s[j] => i = j)
  BY SMTT(30) DEF Chain
<1>2. D \subseteq Nodes /\ IsFiniteSet(D) /\ Cardinality(D) = size /\ N \in Nat
      /\ size <= N /\ (D # Nodes => size < N)
  <2>1. D \subseteq Nodes /\ IsFiniteSet(Nodes)
    BY SMTT(30), <1>1
  <2>2. IsFiniteSet(D) /\ Cardinality(D) <= N /\ (D # Nodes => Cardinality(D) < N)
        /\ Cardinality(D) \in Nat /\ N \in Nat
    BY SMTT(30), <2>1, FS_Subset, FS_CardinalityType
  <2>3. s \in Bijection(1 .. size, D)
    BY SMTT(30), <1>1 DEF Bijection, Injection, Surjection, IsInjective
  <2>4. IsFiniteSet(1 .. size) /\ Cardinality(1 .. size) = size
    BY SMTT(30), <1>1, FS_Interval
  <2>5. ExistsBijection(1 .. size, D)
    BY <2>3 DEF ExistsBijection
  <2>6. Cardinality(D) = size
    BY <2>4, <2>5, FS_Bijection
  <2> QED BY <2>1, <2>2, <2>6
<1>3. \A m \in 0 .. size : NodeAt(m) = IF m = size THEN NULL ELSE s[m + 1]
  BY NodeAtChain
<1>4. NodeAt(size) = NULL /\ \A m \in 0 .. size - 1 : NodeAt(m) # NULL
  BY SMTT(30), <1>1, <1>3
<1>5. upTo = size
  <2>1. size \in 0 .. N /\ NodeAt(size) = NULL /\ \A m \in 0 .. size - 1 : NodeAt(m) # NULL
    BY SMTT(30), <1>1, <1>2, <1>4
  <2>2. ASSUME NEW n \in 0 .. N, NodeAt(n) = NULL, \A m \in 0 .. n - 1 : NodeAt(m) # NULL
        PROVE  n = size
    <3>1. ~(n < size)
      BY SMTT(30), <1>1, <1>4, <2>2
    <3>2. ~(size < n)
      BY SMTT(30), <1>1, <1>4, <2>2
    <3> QED BY SMTT(30), <1>1, <1>2, <3>1, <3>2
  <2> QED BY <2>1, <2>2
<1>6. Walk = [i \in 1 .. size |-> NodeAt(i - 1)]
  BY <1>5 DEF Walk
<1>7. \A i \in 1 .. size : NodeAt(i - 1) = s[i]
  BY SMTT(30), <1>1, <1>3
<1>8. Walk = s
  BY <1>1, <1>6, <1>7
<1> QED BY <1>1, <1>2, <1>8 DEF Contents, Values

\* What a chain tells of the list: NodesFormTheList, and what a walk finds.
ChainTells(s) ==
  Chain(s, heap, head, foot, size) =>
    /\ Walk = s /\ Len(s) = size
    /\ Contents = Values(s, heap)
    /\ NodesFormTheList

\* Between two calls a chain tells that the nodes form the list.
LEMMA ChainTellsNow ==
  ASSUME NEW s
  PROVE  ChainTells(s)
<1> SUFFICES ASSUME Chain(s, heap, head, foot, size)
             PROVE  /\ Walk = s /\ Len(s) = size /\ Contents = Values(s, heap)
                    /\ NodesFormTheList
  BY DEF ChainTells
<1>1. Walk = s /\ Len(s) = size /\ Contents = Values(s, heap)
  BY WalkIsChain
<1>2. /\ size \in Nat /\ s \in [1 .. size -> Nodes]
      /\ DOMAIN heap = {s[i] : i \in 1 .. size}
      /\ head = (IF size = 0 THEN NULL ELSE s[1])
      /\ foot = (IF size = 0 THEN NULL ELSE s[size])
  BY DEF Chain
<1>3. IsConsistent
  BY SMTT(30), <1>2, ListAssumption DEF IsConsistent
<1>4. Range(s) = DOMAIN heap
  BY <1>2 DEF Range
<1> QED BY SMTT(30), <1>1, <1>2, <1>3, <1>4 DEF NodesFormTheList

\* And so does a chain after a call.
LEMMA ChainTellsNext == \A s : ChainTells(s)'
<1>1. \A s : ChainTells(s)
  BY ChainTellsNow
<1>2. (\A s : ChainTells(s))'
  BY <1>1, PTL
<1> QED BY <1>2

-----------------------------------------------------------------------------
(* What the parts of the calls do to the chain. *)

\* After the step the nodes are a chain that holds the values v.
BecomesList(v) ==
  \E t : Chain(t, heap', head', foot', size') /\ Values(t, heap') = v

\* Setting a next pointer leaves the data and the other nodes alone.
LEMMA LinkFacts ==
  ASSUME NEW h, h \in [DOMAIN h -> [data : Data, next : Nodes \cup {NULL}]],
         NEW from \in DOMAIN h, NEW to
  PROVE  /\ DOMAIN Link(h, from, to) = DOMAIN h
         /\ Link(h, from, to)[from] = Node(h[from].data, to)
         /\ \A x \in DOMAIN h : x # from => Link(h, from, to)[x] = h[x]
<1>1. h[from] \in [data : Data, next : Nodes \cup {NULL}]
  OBVIOUS
<1>2. [h[from] EXCEPT !.next = to] = Node(h[from].data, to)
  BY SMTT(30), <1>1 DEF Node
<1> QED BY <1>2 DEF Link

\* A record of the heap is made of its fields.
LEMMA NodeFields ==
  ASSUME NEW h, h \in [DOMAIN h -> [data : Data, next : Nodes \cup {NULL}]], NEW x \in DOMAIN h
  PROVE  h[x] = Node(h[x].data, h[x].next)
<1>1. h[x] \in [data : Data, next : Nodes \cup {NULL}]
  OBVIOUS
<1> QED BY <1>1 DEF Node

\* A call that links a new node in adds its value there.
LEMMA NodeAdded ==
  ASSUME NEW s, Chain(s, heap, head, foot, size),
         NEW k \in 1 .. size + 1, NEW node \in Malloc, NEW d \in Data,
         LinkedIn(s, heap, size, k, node, d, heap'),
         head' = IF k = 1 THEN node ELSE head,
         foot' = IF k = size + 1 THEN node ELSE foot,
         size' = size + 1
  PROVE  BecomesList(LinkAt(Values(s, heap), k, d))
<1>1. node \in Nodes \ DOMAIN heap
  BY DEF Malloc
<1>2. /\ Chain(LinkAt(s, k, node), heap', head', foot', size')
      /\ Values(LinkAt(s, k, node), heap') = LinkAt(Values(s, heap), k, d)
  BY SMTT(30), <1>1, LinkedInChain
<1> QED BY <1>2 DEF BecomesList

\* A call that takes a node out removes its value.
LEMMA NodeRemoved ==
  ASSUME NEW s, Chain(s, heap, head, foot, size),
         NEW k \in 1 .. size, TakenOut(s, heap, size, k, heap'),
         head' = IF k # 1 THEN head ELSE IF size = 1 THEN NULL ELSE s[2],
         foot' = IF k # size THEN foot ELSE IF size = 1 THEN NULL ELSE s[size - 1],
         size' = size - 1
  PROVE  BecomesList(UnlinkAt(Values(s, heap), k))
<1>1. /\ Chain(UnlinkAt(s, k), heap', head', foot', size')
      /\ Values(UnlinkAt(s, k), heap') = UnlinkAt(Values(s, heap), k)
  BY SMTT(30), TakenOutChain
<1> QED BY <1>1 DEF BecomesList

\* The ways to add a node: to an empty list, at its head, at its foot, between.
LEMMA Additions ==
  ASSUME NEW s, Chain(s, heap, head, foot, size), NEW node \in Malloc, NEW d \in Data
  PROVE  /\ size = 0 /\ AddOnly(node, d) => BecomesList(LinkAt(Values(s, heap), 1, d))
         /\ size # 0 /\ AddHead(node, d) => BecomesList(LinkAt(Values(s, heap), 1, d))
         /\ size # 0 /\ AddFoot(node, d) => BecomesList(LinkAt(Values(s, heap), size + 1, d))
         /\ \A index \in 1 .. size - 1 :
              AddMiddle(node, index, d) => BecomesList(LinkAt(Values(s, heap), index + 1, d))
<1>1. /\ size \in Nat /\ node \notin DOMAIN heap
      /\ \A i \in 1 .. size : s[i] \in DOMAIN heap
      /\ \A i, j \in 1 .. size : s[i] = s[j] => i = j
      /\ heap \in [DOMAIN heap -> [data : Data, next : Nodes \cup {NULL}]]
      /\ \A i \in 1 .. size : heap[s[i]].next = IF i = size THEN NULL ELSE s[i + 1]
      /\ head = (IF size = 0 THEN NULL ELSE s[1]) /\ foot = (IF size = 0 THEN NULL ELSE s[size])
  BY DEF Chain, Malloc
<1>2. \A i \in 1 .. size : heap[s[i]] = Node(heap[s[i]].data, heap[s[i]].next)
  BY <1>1, NodeFields
<1>3. ASSUME size = 0, AddOnly(node, d) PROVE BecomesList(LinkAt(Values(s, heap), 1, d))
  <2>1. LinkedIn(s, heap, size, 1, node, d, heap')
    BY SMTT(30), <1>1, <1>3 DEF LinkedIn, AddOnly, With
  <2>2. 1 \in 1 .. size + 1 /\ 1 = size + 1 /\ head' = node /\ foot' = node /\ size' = size + 1
    BY SMTT(30), <1>3 DEF AddOnly
  <2> QED BY <2>1, <2>2, NodeAdded
<1>4. ASSUME size # 0, AddHead(node, d) PROVE BecomesList(LinkAt(Values(s, heap), 1, d))
  <2>1. LinkedIn(s, heap, size, 1, node, d, heap')
    <3>1. heap' = With(heap, node, Node(d, s[1])) /\ 1 # size + 1
      BY SMTT(30), <1>1, <1>4 DEF AddHead
    <3>2. \A i \in 1 .. size : i # 1 - 1 /\ heap'[s[i]] = heap[s[i]]
      BY SMTT(30), <1>1, <3>1 DEF With
    <3> QED BY <1>2, <3>1, <3>2 DEF LinkedIn, With
  <2>2. 1 \in 1 .. size + 1 /\ 1 # size + 1 /\ head' = node /\ foot' = foot /\ size' = size + 1
    BY SMTT(30), <1>1, <1>4 DEF AddHead
  <2> QED BY <2>1, <2>2, NodeAdded
<1>5. ASSUME NEW k \in 2 .. size + 1,
             heap' = With(Link(heap, s[k - 1], node), node,
                          Node(d, IF k = size + 1 THEN NULL ELSE s[k]))
      PROVE  LinkedIn(s, heap, size, k, node, d, heap')
  <2> DEFINE l == Link(heap, s[k - 1], node)
  <2>1. k - 1 \in 1 .. size /\ s[k - 1] \in DOMAIN heap
    BY SMTT(30), <1>1
  <2>2. /\ DOMAIN l = DOMAIN heap /\ l[s[k - 1]] = Node(heap[s[k - 1]].data, node)
        /\ \A x \in DOMAIN heap : x # s[k - 1] => l[x] = heap[x]
    BY SMTT(30), <1>1, <2>1, LinkFacts
  <2> HIDE DEF l
  <2>3. heap' = With(l, node, Node(d, IF k = size + 1 THEN NULL ELSE s[k]))
    BY <1>5 DEF l
  <2>4. ASSUME NEW i \in 1 .. size
        PROVE  heap'[s[i]] = Node(heap[s[i]].data, IF i = k - 1 THEN node ELSE heap[s[i]].next)
    <3>1. heap'[s[i]] = l[s[i]]
      BY <1>1, <2>2, <2>3 DEF With
    <3>2. CASE i = k - 1
      BY <2>2, <3>1, <3>2
    <3>3. CASE i # k - 1
      <4>1. s[i] # s[k - 1]
        BY <1>1, <2>1, <3>3
      <4> QED BY <1>1, <1>2, <2>2, <3>1, <3>3, <4>1
    <3> QED BY <3>2, <3>3
  <2>5. DOMAIN heap' = DOMAIN heap \cup {node} /\ heap' = [x \in DOMAIN heap' |-> heap'[x]]
        /\ heap'[node] = Node(d, IF k = size + 1 THEN NULL ELSE s[k])
    BY <2>2, <2>3 DEF With
  <2> QED BY <2>4, <2>5 DEF LinkedIn
<1>6. ASSUME size # 0, AddFoot(node, d) PROVE BecomesList(LinkAt(Values(s, heap), size + 1, d))
  <2>1. size + 1 \in 2 .. size + 1 /\ (size + 1) - 1 = size /\ foot = s[size]
        /\ size + 1 \in 1 .. size + 1 /\ size + 1 # 1
    BY SMTT(30), <1>1, <1>6
  <2>2. heap' = With(Link(heap, s[size], node), node, Node(d, NULL))
        /\ head' = head /\ foot' = node /\ size' = size + 1
    BY <1>6, <2>1 DEF AddFoot
  <2>3. LinkedIn(s, heap, size, size + 1, node, d, heap')
    BY <1>5, <2>1, <2>2
  <2> QED BY <2>1, <2>2, <2>3, NodeAdded
<1>7. ASSUME NEW index \in 1 .. size - 1, AddMiddle(node, index, d)
      PROVE  BecomesList(LinkAt(Values(s, heap), index + 1, d))
  <2>1. index - 1 \in 0 .. size /\ index - 1 # size /\ (index - 1) + 1 = index
        /\ index + 1 \in 2 .. size + 1 /\ (index + 1) - 1 = index
        /\ index + 1 \in 1 .. size + 1 /\ index + 1 # 1 /\ index + 1 # size + 1
        /\ index \in 1 .. size /\ index # size
    BY SMTT(30), <1>1
  <2>2. NodeAt(index - 1) = s[index]
    BY <2>1, NodeAtChain
  <2>3. heap[s[index]].next = s[index + 1]
    BY <1>1, <2>1
  <2>4. heap' = With(Link(heap, s[index], node), node, Node(d, s[index + 1]))
        /\ head' = head /\ foot' = foot /\ size' = size + 1
    BY <1>7, <2>2, <2>3 DEF AddMiddle
  <2>5. LinkedIn(s, heap, size, index + 1, node, d, heap')
    BY <1>5, <2>1, <2>4
  <2> QED BY <2>1, <2>4, <2>5, NodeAdded
<1> QED BY <1>3, <1>4, <1>6, <1>7

\* The ways to remove a node: the only one, the head, and one after another.
LEMMA Removals ==
  ASSUME NEW s, Chain(s, heap, head, foot, size)
  PROVE  /\ size = 1 /\ RemoveOnly => BecomesList(UnlinkAt(Values(s, heap), 1))
         /\ size > 1 /\ RemoveHead => BecomesList(UnlinkAt(Values(s, heap), 1))
         /\ \A k \in 2 .. size : \A isFoot \in BOOLEAN :
              (isFoot <=> k = size) /\ RemoveAfter(s[k - 1], isFoot) =>
                BecomesList(UnlinkAt(Values(s, heap), k))
<1>1. /\ size \in Nat
      /\ \A i \in 1 .. size : s[i] \in DOMAIN heap
      /\ \A i, j \in 1 .. size : s[i] = s[j] => i = j
      /\ heap \in [DOMAIN heap -> [data : Data, next : Nodes \cup {NULL}]]
      /\ \A i \in 1 .. size : heap[s[i]].next = IF i = size THEN NULL ELSE s[i + 1]
      /\ head = (IF size = 0 THEN NULL ELSE s[1]) /\ foot = (IF size = 0 THEN NULL ELSE s[size])
  BY DEF Chain
<1>2. \A i \in 1 .. size : heap[s[i]] = Node(heap[s[i]].data, heap[s[i]].next)
  BY <1>1, NodeFields
<1>3. ASSUME size >= 1, heap' = Without(heap, s[1])
      PROVE  TakenOut(s, heap, size, 1, heap')
  <2>1. \A i \in 1 .. size : i # 1 => i # 1 - 1 /\ heap'[s[i]] = heap[s[i]]
    BY SMTT(30), <1>1, <1>3 DEF Without
  <2> QED BY <1>2, <1>3, <2>1 DEF TakenOut, Without
<1>4. ASSUME size = 1, RemoveOnly PROVE BecomesList(UnlinkAt(Values(s, heap), 1))
  <2>1. heap' = Without(heap, s[1]) /\ 1 \in 1 .. size /\ head' = NULL /\ foot' = NULL
        /\ size' = size - 1
    BY SMTT(30), <1>1, <1>4 DEF RemoveOnly
  <2>2. TakenOut(s, heap, size, 1, heap')
    BY SMTT(30), <1>3, <1>4, <2>1
  <2> QED BY <1>4, <2>1, <2>2, NodeRemoved
<1>5. ASSUME size > 1, RemoveHead PROVE BecomesList(UnlinkAt(Values(s, heap), 1))
  <2>1. heap' = Without(heap, s[1]) /\ 1 \in 1 .. size /\ 1 # size /\ head' = s[2]
        /\ foot' = foot /\ size' = size - 1
    BY SMTT(30), <1>1, <1>5 DEF RemoveHead
  <2>2. TakenOut(s, heap, size, 1, heap')
    BY SMTT(30), <1>1, <1>3, <1>5, <2>1
  <2> QED BY <1>5, <2>1, <2>2, NodeRemoved
<1>6. ASSUME NEW k \in 2 .. size, NEW isFoot \in BOOLEAN, isFoot <=> k = size,
             RemoveAfter(s[k - 1], isFoot)
      PROVE  BecomesList(UnlinkAt(Values(s, heap), k))
  <2> DEFINE l == Link(heap, s[k - 1], heap[s[k]].next)
  <2>1. k \in 1 .. size /\ k - 1 \in 1 .. size /\ k - 1 # size /\ (k - 1) + 1 = k
        /\ k # 1 /\ size # 1 /\ s[k - 1] \in DOMAIN heap
    BY SMTT(30), <1>1
  <2>2. heap[s[k - 1]].next = s[k]
    BY <1>1, <2>1
  <2>3. /\ DOMAIN l = DOMAIN heap /\ l[s[k - 1]] = Node(heap[s[k - 1]].data, heap[s[k]].next)
        /\ \A x \in DOMAIN heap : x # s[k - 1] => l[x] = heap[x]
    BY SMTT(30), <1>1, <2>1, LinkFacts
  <2>4. heap' = Without(l, s[k]) /\ head' = head /\ size' = size - 1
        /\ foot' = IF k = size THEN s[k - 1] ELSE foot
    BY <1>6, <2>2 DEF RemoveAfter
  <2> HIDE DEF l
  <2>5. ASSUME NEW i \in 1 .. size, i # k
        PROVE  heap'[s[i]] = Node(heap[s[i]].data,
                                  IF i = k - 1 THEN heap[s[k]].next ELSE heap[s[i]].next)
    <3>1. s[i] # s[k] /\ heap'[s[i]] = l[s[i]]
      BY <1>1, <2>1, <2>3, <2>4, <2>5 DEF Without
    <3>2. CASE i = k - 1
      BY <2>3, <3>1, <3>2
    <3>3. CASE i # k - 1
      <4>1. s[i] # s[k - 1]
        BY <1>1, <2>1, <3>3
      <4> QED BY <1>1, <1>2, <2>3, <3>1, <3>3, <4>1
    <3> QED BY <3>2, <3>3
  <2>6. TakenOut(s, heap, size, k, heap')
    BY <2>3, <2>4, <2>5 DEF TakenOut, Without
  <2>7. foot' = IF k # size THEN foot ELSE s[size - 1]
    BY <2>4
  <2> QED BY <2>1, <2>4, <2>6, <2>7, NodeRemoved
<1> QED BY <1>4, <1>5, <1>6

\* poplinkedlist removes the last of several nodes, and not the only one.
LEMMA Popping ==
  ASSUME NEW s, Chain(s, heap, head, foot, size), PopLinkedList
  PROVE  /\ size # 0 /\ heap[foot].data = Values(s, heap)[size]
         /\ BecomesList(IF size = 1 THEN Values(s, heap)
                        ELSE UnlinkAt(Values(s, heap), size))
<1> DEFINE before == {n \in Range(Walk) : heap[n].next = foot}
<1>1. /\ size \in Nat /\ s \in [1 .. size -> Nodes]
      /\ \A i \in 1 .. size : s[i] \in DOMAIN heap
      /\ \A i, j \in 1 .. size : s[i] = s[j] => i = j
      /\ heap \in [DOMAIN heap -> [data : Data, next : Nodes \cup {NULL}]]
      /\ \A i \in 1 .. size : heap[s[i]].next = IF i = size THEN NULL ELSE s[i + 1]
      /\ head = (IF size = 0 THEN NULL ELSE s[1]) /\ foot = (IF size = 0 THEN NULL ELSE s[size])
  BY DEF Chain
<1>2. \A i \in 1 .. size : heap[s[i]] = Node(heap[s[i]].data, heap[s[i]].next)
  BY <1>1, NodeFields
<1>3. size # 0 /\ size \in 1 .. size /\ foot = s[size] /\ foot # NULL /\ heap[foot].next = NULL
  BY SMTT(30), <1>1, ListAssumption DEF PopLinkedList
<1>4. heap[foot].data = Values(s, heap)[size]
  BY SMTT(30), <1>1, <1>3 DEF Values
<1>5. Walk = s /\ Range(Walk) = {s[i] : i \in 1 .. size}
  <2>1. Walk = s
    BY WalkIsChain
  <2> QED BY <1>1, <2>1 DEF Range
<1>6. head' = head /\ (before = {} => heap' = heap /\ foot' = foot /\ size' = size)
      /\ (before # {} => \E node \in before : /\ heap' = Link(Without(heap, foot), node, NULL)
                                              /\ foot' = node /\ size' = size - 1)
  BY DEF PopLinkedList
<1> HIDE DEF before
<1>7. CASE size = 1
  <2>1. before = {}
    BY SMTT(30), <1>1, <1>3, <1>5, <1>7 DEF before
  <2>2. Chain(s, heap', head', foot', size') /\ Values(s, heap') = Values(s, heap)
    BY <1>6, <2>1
  <2> QED BY <1>3, <1>4, <1>7, <2>2 DEF BecomesList
<1>8. CASE size # 1
  <2>1. size - 1 \in 1 .. size /\ size - 1 # size /\ (size - 1) + 1 = size
    BY SMTT(30), <1>1, <1>3, <1>8
  <2>2. heap[s[size - 1]].next = foot
    BY <1>1, <1>3, <2>1
  <2>3. s[size - 1] \in before
    BY <1>5, <2>1, <2>2 DEF before
  <2>4. ASSUME NEW node \in before PROVE node = s[size - 1]
    <3>1. PICK i \in 1 .. size : node = s[i] /\ heap[s[i]].next = foot
      BY <1>5 DEF before
    <3>2. i # size /\ s[i + 1] = s[size] /\ i + 1 \in 1 .. size
      BY SMTT(30), <1>1, <1>3, <3>1
    <3>3. i + 1 = size
      BY <1>1, <1>3, <3>2
    <3> QED BY SMTT(30), <3>1, <3>3
  <2>5. heap' = Link(Without(heap, s[size]), s[size - 1], NULL) /\ foot' = s[size - 1]
        /\ size' = size - 1
    BY <1>3, <1>6, <2>3, <2>4
  <2> DEFINE w == Without(heap, s[size])
  <2>6. w \in [DOMAIN w -> [data : Data, next : Nodes \cup {NULL}]]
        /\ DOMAIN w = DOMAIN heap \ {s[size]} /\ \A x \in DOMAIN w : w[x] = heap[x]
    BY <1>1 DEF Without
  <2>7. s[size - 1] \in DOMAIN w
    BY <1>1, <1>3, <2>1, <2>6
  <2> HIDE DEF w
  <2>8. /\ DOMAIN Link(w, s[size - 1], NULL) = DOMAIN w
        /\ Link(w, s[size - 1], NULL)[s[size - 1]] = Node(heap[s[size - 1]].data, NULL)
        /\ \A x \in DOMAIN w : x # s[size - 1] => Link(w, s[size - 1], NULL)[x] = heap[x]
    BY SMTT(30), <2>6, <2>7, LinkFacts
  <2>9. heap' = Link(w, s[size - 1], NULL)
    BY <2>5 DEF w
  <2>10. ASSUME NEW i \in 1 .. size, i # size
         PROVE  heap'[s[i]] = Node(heap[s[i]].data,
                                   IF i = size - 1 THEN heap[s[size]].next ELSE heap[s[i]].next)
    <3>1. s[i] # s[size] /\ s[i] \in DOMAIN w
      BY <1>1, <1>3, <2>6, <2>10
    <3>2. CASE i = size - 1
      BY <1>3, <2>8, <2>9, <3>2
    <3>3. CASE i # size - 1
      <4>1. s[i] # s[size - 1]
        BY <1>1, <2>1, <3>3
      <4> QED BY <1>2, <2>8, <2>9, <3>1, <3>3, <4>1
    <3> QED BY <3>2, <3>3
  <2>11. DOMAIN heap' = DOMAIN heap \ {s[size]} /\ heap' = [x \in DOMAIN heap' |-> heap'[x]]
    <3>1. Link(w, s[size - 1], NULL) =
            [x \in DOMAIN Link(w, s[size - 1], NULL) |-> Link(w, s[size - 1], NULL)[x]]
      BY DEF Link
    <3> QED BY <2>6, <2>8, <2>9, <3>1
  <2>12. TakenOut(s, heap, size, size, heap')
    BY <2>10, <2>11 DEF TakenOut
  <2>13. BecomesList(UnlinkAt(Values(s, heap), size))
    BY <1>3, <1>6, <1>8, <2>5, <2>12, NodeRemoved
  <2> QED BY <1>3, <1>4, <1>8, <2>13
<1> QED BY <1>7, <1>8

-----------------------------------------------------------------------------
(* The calls. *)

\* A search finds the first place of a value that is there.
LEMMA PositionFound ==
  ASSUME NEW S, NEW v \in Seq(S), NEW d
  PROVE  /\ d \in Range(v) => PositionOf(d, v) \in 1 .. Len(v) /\ v[PositionOf(d, v)] = d
         /\ d \notin Range(v) => PositionOf(d, v) = 0
<1>1. CASE d \in Range(v)
  <2> DEFINE First(k) == v[k] = d /\ \A j \in 1 .. k - 1 : v[j] # d
             T == {k \in Nat : k \in 1 .. Len(v) /\ v[k] = d}
  <2>1. T # {} /\ T \in SUBSET Nat
    BY SMTT(30), <1>1 DEF Range
  <2>2. PICK k \in T : \A m \in T : k <= m
    <3> HIDE DEF T
    <3> QED BY <2>1, LeastPlace
  <2>3. k \in DOMAIN v /\ First(k)
    BY SMTT(30), <2>2
  <2>4. PositionOf(d, v) = CHOOSE i \in DOMAIN v : First(i)
    BY <1>1 DEF PositionOf
  <2>5. PositionOf(d, v) \in DOMAIN v /\ First(PositionOf(d, v))
    <3> HIDE DEF First
    <3> QED BY <2>3, <2>4
  <2> QED BY SMTT(30), <1>1, <2>5
<1>2. CASE d \notin Range(v)
  BY <1>2 DEF PositionOf
<1> QED BY <1>1, <1>2

\* Where the chain ends is where Append adds.
LEMMA LinkAtEnd ==
  ASSUME NEW S, NEW v \in Seq(S), NEW d \in S
  PROVE  LinkAt(v, Len(v) + 1, d) = Append(v, d)
<1> DEFINE a == Append(v, d)
<1>0. /\ Len(v) \in Nat /\ a \in Seq(S) /\ Len(a) = Len(v) + 1
      /\ a[Len(v) + 1] = d
  BY SMTT(30)
<1>1. \A i \in 1 .. Len(v) : a[i] = v[i]
  BY SMTT(30)
<1> HIDE DEF a
<1>2. /\ a = [i \in 1 .. Len(v) + 1 |-> a[i]]
      /\ \A i \in 1 .. Len(v) + 1 :
           a[i] = IF i < Len(v) + 1 THEN v[i] ELSE IF i = Len(v) + 1 THEN d ELSE v[i - 1]
  <2>1. a \in [1 .. Len(v) + 1 -> S]
    BY SMTT(30), <1>0
  <2>2. ASSUME NEW i \in 1 .. Len(v) + 1
        PROVE  a[i] = IF i < Len(v) + 1 THEN v[i] ELSE IF i = Len(v) + 1 THEN d ELSE v[i - 1]
    <3>1. CASE i = Len(v) + 1
      BY SMTT(30), <1>0, <3>1
    <3>2. CASE i < Len(v) + 1
      BY SMTT(30), <1>0, <1>1, <3>2
    <3> QED BY SMTT(30), <1>0, <3>1, <3>2
  <2> QED BY <2>1, <2>2
<1>3. LinkAt(v, Len(v) + 1, d) = a
  BY <1>2 DEF LinkAt
<1> QED BY <1>3 DEF a

\* The abstract specification uses the same operators on sequences.
LEMMA SameOperators ==
  /\ \A v, k, d : Abstract!LinkAt(v, k, d) = LinkAt(v, k, d)
  /\ \A v, k : Abstract!UnlinkAt(v, k) = UnlinkAt(v, k)
  /\ \A v, d : Abstract!PositionOf(d, v) = PositionOf(d, v)
  /\ \A v : Abstract!Range(v) = Range(v)
<1>1. \A v : Abstract!Range(v) = Range(v)
  BY DEF Abstract!Range, Range
<1>2. \A v, d : Abstract!PositionOf(d, v) = PositionOf(d, v)
  BY DEF Abstract!PositionOf, PositionOf, Abstract!Range, Range
<1>3. \A v, k, d : Abstract!LinkAt(v, k, d) = LinkAt(v, k, d)
  BY DEF Abstract!LinkAt, LinkAt
<1>4. \A v, k : Abstract!UnlinkAt(v, k) = UnlinkAt(v, k)
  BY DEF Abstract!UnlinkAt, UnlinkAt
<1> QED BY <1>1, <1>2, <1>3, <1>4

\* What the steps below start from.
LEMMA ChainValues ==
  ASSUME NEW s, Chain(s, heap, head, foot, size)
  PROVE  /\ size \in Nat /\ s \in [1 .. size -> Nodes] /\ Len(Contents) = size
         /\ Contents \in Seq(Data) /\ Contents = Values(s, heap)
         /\ \A i \in 1 .. size : Contents[i] = heap[s[i]].data
         /\ \A node \in Malloc : size < Cardinality(Nodes)
<1>1. /\ size \in Nat /\ s \in [1 .. size -> Nodes]
      /\ \A i \in 1 .. size : s[i] \in DOMAIN heap
      /\ heap \in [DOMAIN heap -> [data : Data, next : Nodes \cup {NULL}]]
  BY DEF Chain
<1>2. Len(s) = size /\ Contents = Values(s, heap)
      /\ (Nodes # DOMAIN heap => size < Cardinality(Nodes))
  BY WalkIsChain
<1>3. Values(s, heap) \in [1 .. size -> Data]
      /\ \A i \in 1 .. size : Values(s, heap)[i] = heap[s[i]].data
  BY <1>1, <1>2 DEF Values
<1>4. \A node \in Malloc : size < Cardinality(Nodes)
  BY <1>2 DEF Malloc
<1> QED BY SMTT(30), <1>1, <1>2, <1>3, <1>4

\* After a step that makes the list hold v, the nodes form the list, and v is
\* its contents.
LEMMA Became ==
  ASSUME NEW v, BecomesList(v)
  PROVE  Contents' = v /\ NodesFormTheList'
<1>1. PICK t : Chain(t, heap', head', foot', size') /\ Values(t, heap') = v
  BY DEF BecomesList
<1>2. ChainTells(t)'
  BY ChainTellsNext
<1> QED BY <1>1, <1>2 DEF ChainTells

\* appendlinkedlist and addlinkedlist add the value where they are asked to.
LEMMA AddingCalls ==
  ASSUME NEW s, Chain(s, heap, head, foot, size), NEW d \in Data
  PROVE  /\ AppendLinkedList(d) =>
              Abstract!Append_(d) /\ \E v : BecomesList(v)
         /\ \A index \in 0 .. size : AddLinkedList(index, d) =>
              Abstract!Add(index, d) /\ \E v : BecomesList(v)
<1>1. /\ size \in Nat /\ Len(Contents) = size /\ Contents \in Seq(Data)
      /\ Contents = Values(s, heap) /\ \A node \in Malloc : size < Cardinality(Nodes)
  BY ChainValues
<1>2. ASSUME AppendLinkedList(d)
      PROVE  Abstract!Append_(d) /\ \E v : BecomesList(v)
  <2>1. PICK node \in Malloc : IF size = 0 THEN AddOnly(node, d) ELSE AddFoot(node, d)
    BY <1>2 DEF AppendLinkedList
  <2>2. BecomesList(LinkAt(Contents, size + 1, d))
    BY SMTT(30), <1>1, <2>1, Additions
  <2>3. BecomesList(Append(Contents, d))
    BY <1>1, <2>2, LinkAtEnd
  <2>4. Contents' = Append(Contents, d)
    BY <2>3, Became
  <2>5. call' = [op |-> "append", index |-> 0, data |-> d] /\ returned' = <<>>
    BY <1>2 DEF AppendLinkedList, Called
  <2>6. Len(Contents) < Cardinality(Nodes)
    BY <1>1
  <2> QED BY <2>3, <2>4, <2>5, <2>6 DEF Abstract!Append_, Abstract!Calls, Abstract!Returns
<1>3. ASSUME NEW index \in 0 .. size, AddLinkedList(index, d)
      PROVE  Abstract!Add(index, d) /\ \E v : BecomesList(v)
  <2>1. PICK node \in Malloc :
          CASE size = 0 -> AddOnly(node, d)
            [] size # 0 /\ index = 0 -> AddHead(node, d)
            [] size # 0 /\ index = size -> AddFoot(node, d)
            [] OTHER -> AddMiddle(node, index, d)
    BY <1>3 DEF AddLinkedList
  <2>2. BecomesList(LinkAt(Contents, index + 1, d))
    <3>1. CASE size = 0
      <4>1. AddOnly(node, d) /\ index + 1 = 1
        BY SMTT(30), <2>1, <3>1
      <4> QED BY <1>1, <3>1, <4>1, Additions
    <3>2. CASE size # 0 /\ index = 0
      <4>1. AddHead(node, d) /\ index + 1 = 1
        BY SMTT(30), <2>1, <3>2
      <4> QED BY <1>1, <3>2, <4>1, Additions
    <3>3. CASE size # 0 /\ index = size
      <4>1. AddFoot(node, d)
        BY <2>1, <3>3
      <4> QED BY <1>1, <3>3, <4>1, Additions
    <3>4. CASE size # 0 /\ index # 0 /\ index # size
      <4>1. AddMiddle(node, index, d) /\ index \in 1 .. size - 1
        BY SMTT(30), <1>1, <2>1, <3>4
      <4> QED BY <1>1, <4>1, Additions
    <3> QED BY <3>1, <3>2, <3>3, <3>4
  <2>3. Contents' = LinkAt(Contents, index + 1, d)
    BY <2>2, Became
  <2>4. call' = [op |-> "add", index |-> index, data |-> d] /\ returned' = <<>>
    BY <1>3 DEF AddLinkedList, Called
  <2>5. Len(Contents) < Cardinality(Nodes)
    BY <1>1
  <2> QED BY <2>2, <2>3, <2>4, <2>5, SameOperators DEF Abstract!Add, Abstract!Calls, Abstract!Returns
<1> QED BY <1>2, <1>3

\* poplinkedlist, removeatlinkedlist and removefromlinkedlist return and remove
\* what they are asked for, but for a pop of the only element.
LEMMA RemovingCalls ==
  ASSUME NEW s, Chain(s, heap, head, foot, size)
  PROVE  /\ PopLinkedList => (Abstract!Pop \/ PopKeepsTheOnly) /\ \E v : BecomesList(v)
         /\ \A index \in 0 .. size - 1 : RemoveAtLinkedList(index) =>
              Abstract!RemoveAt_(index) /\ \E v : BecomesList(v)
         /\ \A d \in Data : RemoveFromLinkedList(d) =>
              Abstract!RemoveFrom(d) /\ \E v : BecomesList(v)
<1>1. /\ size \in Nat /\ Len(Contents) = size /\ Contents \in Seq(Data)
      /\ Contents = Values(s, heap)
      /\ \A i \in 1 .. size : Contents[i] = heap[s[i]].data
  BY ChainValues
<1>2. ASSUME PopLinkedList PROVE (Abstract!Pop \/ PopKeepsTheOnly) /\ \E v : BecomesList(v)
  <2>1. size # 0 /\ heap[foot].data = Contents[size]
        /\ BecomesList(IF size = 1 THEN Contents ELSE UnlinkAt(Contents, size))
    BY <1>1, <1>2, Popping
  <2>2. Contents' = IF size = 1 THEN Contents ELSE UnlinkAt(Contents, size)
    <3> DEFINE z == IF size = 1 THEN Contents ELSE UnlinkAt(Contents, size)
    <3>1. BecomesList(z)
      BY <2>1
    <3> HIDE DEF z
    <3>2. Contents' = z
      BY <3>1, Became
    <3> QED BY <3>2 DEF z
  <2>3. call' = [op |-> "pop", index |-> 0, data |-> 0] /\ returned' = <<Contents[size]>>
    BY <1>2, <2>1 DEF PopLinkedList, Called
  <2>4. Contents # <<>>
    BY <1>1, <2>1
  <2>5. Abstract!UnlinkAt(Contents, size) = UnlinkAt(Contents, size)
    BY SameOperators
  <2>6. CASE size = 1
    <3>1. PopKeepsTheOnly
      BY <1>1, <2>2, <2>3, <2>6 DEF PopKeepsTheOnly, Abstract!Calls, Abstract!Returns
    <3> QED BY <2>1, <3>1
  <2>7. CASE size # 1
    <3>1. Abstract!Pop
      BY <1>1, <2>2, <2>3, <2>4, <2>5, <2>7 DEF Abstract!Pop, Abstract!Calls, Abstract!Returns
    <3> QED BY <2>1, <3>1
  <2> QED BY <2>6, <2>7
<1>3. ASSUME NEW k \in 1 .. size,
             \/ size = 1 /\ RemoveOnly
             \/ size # 1 /\ k = 1 /\ RemoveHead
             \/ k # 1 /\ \E isFoot \in BOOLEAN : (isFoot <=> k = size) /\ RemoveAfter(s[k - 1], isFoot)
      PROVE  BecomesList(UnlinkAt(Contents, k))
  <2>1. CASE size = 1 /\ RemoveOnly
    BY SMTT(30), <1>1, <2>1, Removals
  <2>2. CASE size # 1 /\ k = 1 /\ RemoveHead
    BY SMTT(30), <1>1, <2>2, Removals
  <2>3. CASE k # 1 /\ \E isFoot \in BOOLEAN : (isFoot <=> k = size) /\ RemoveAfter(s[k - 1], isFoot)
    <3>1. k \in 2 .. size
      BY SMTT(30), <1>1, <2>3
    <3> QED BY <1>1, <2>3, <3>1, Removals
  <2> QED BY <1>3, <2>1, <2>2, <2>3
<1>4. ASSUME NEW index \in 0 .. size - 1, RemoveAtLinkedList(index)
      PROVE  Abstract!RemoveAt_(index) /\ \E v : BecomesList(v)
  <2>1. index + 1 \in 1 .. size /\ index \in 0 .. size /\ index # size /\ size # 0
        /\ (index + 1) - 1 = index
        /\ (index # 0 => index - 1 \in 0 .. size /\ index - 1 # size /\ (index - 1) + 1 = index)
        /\ (index + 1 = size <=> index = size - 1) /\ (index + 1 = 1 <=> index = 0)
    BY SMTT(30), <1>1
  <2>2. NodeAt(index) = s[index + 1] /\ (index # 0 => NodeAt(index - 1) = s[index])
    BY <2>1, NodeAtChain
  <2>3. BecomesList(UnlinkAt(Contents, index + 1))
    <3>1. CASE size = 1
      <4>1. RemoveOnly
        BY <1>4, <3>1 DEF RemoveAtLinkedList
      <4> QED BY <1>3, <2>1, <3>1, <4>1
    <3>2. CASE size # 1 /\ index = 0
      <4>1. RemoveHead
        BY <1>4, <3>2 DEF RemoveAtLinkedList
      <4> QED BY <1>3, <2>1, <3>2, <4>1
    <3>3. CASE size # 1 /\ index # 0
      <4>1. RemoveAfter(s[index], index = size - 1)
        BY <1>4, <2>2, <3>3 DEF RemoveAtLinkedList
      <4>2. \E isFoot \in BOOLEAN : (isFoot <=> index + 1 = size) /\ RemoveAfter(s[(index + 1) - 1], isFoot)
        <5>1. (index = size - 1) \in BOOLEAN
          OBVIOUS
        <5> QED BY <2>1, <4>1, <5>1
      <4> QED BY <1>3, <2>1, <3>3, <4>2
    <3> QED BY <3>1, <3>2, <3>3
  <2>4. Contents' = UnlinkAt(Contents, index + 1)
    BY <2>3, Became
  <2>5. call' = [op |-> "removeat", index |-> index, data |-> 0]
        /\ returned' = <<Contents[index + 1]>>
    BY <1>1, <1>4, <2>1, <2>2 DEF RemoveAtLinkedList, Called
  <2>6. Abstract!RemoveAt_(index)
    BY <2>4, <2>5, SameOperators DEF Abstract!RemoveAt_, Abstract!Calls, Abstract!Returns
  <2> QED BY <2>3, <2>6
<1>5. ASSUME NEW d \in Data, RemoveFromLinkedList(d)
      PROVE  Abstract!RemoveFrom(d) /\ \E v : BecomesList(v)
  <2> DEFINE i == PositionOf(d, Contents)
  <2>1. /\ d \in Range(Contents) => i \in 1 .. size
        /\ d \notin Range(Contents) => i = 0
    BY <1>1, PositionFound
  <2>2. /\ call' = [op |-> "removefrom", index |-> 0, data |-> d]
        /\ returned' = <<IF i = 0 THEN 0 ELSE 1>>
        /\ IF i = 0 THEN UNCHANGED <<heap, head, foot, size>>
           ELSE IF size = 1 THEN RemoveOnly
           ELSE IF Walk[i] = head THEN RemoveHead
           ELSE RemoveAfter(Walk[i - 1], Walk[i] = foot)
    BY <1>5 DEF RemoveFromLinkedList, Called
  <2> HIDE DEF i
  <2>3. CASE d \in Range(Contents)
    <3>1. i \in 1 .. size /\ i # 0 /\ size # 0 /\ 1 \in 1 .. size /\ size \in 1 .. size
      BY SMTT(30), <1>1, <2>1, <2>3
    <3>2. (s[i] = head <=> i = 1) /\ (s[i] = foot <=> i = size) /\ Walk = s
      BY <3>1, WalkIsChain DEF Chain
    <3>3. BecomesList(UnlinkAt(Contents, i))
      <4>1. CASE size = 1
        BY <1>3, <2>2, <3>1, <4>1
      <4>2. CASE size # 1 /\ i = 1
        BY <1>3, <2>2, <3>1, <3>2, <4>2
      <4>3. CASE size # 1 /\ i # 1
        <5>1. RemoveAfter(s[i - 1], s[i] = foot)
          BY <2>2, <3>1, <3>2, <4>3
        <5>2. \E isFoot \in BOOLEAN : (isFoot <=> i = size) /\ RemoveAfter(s[i - 1], isFoot)
          <6>1. (s[i] = foot) \in BOOLEAN
            OBVIOUS
          <6> QED BY <3>2, <5>1, <6>1
        <5> QED BY <1>3, <3>1, <4>3, <5>2
      <4> QED BY <4>1, <4>2, <4>3
    <3>4. Contents' = UnlinkAt(Contents, i)
      BY <3>3, Became
    <3>5. returned' = <<1>>
      BY <2>2, <3>1
    <3>6. Abstract!RemoveFrom(d)
      BY <2>2, <2>3, <3>4, <3>5, SameOperators
      DEF Abstract!RemoveFrom, Abstract!Calls, Abstract!Returns, i
    <3> QED BY <3>3, <3>6
  <2>4. CASE d \notin Range(Contents)
    <3>1. heap' = heap /\ head' = head /\ foot' = foot /\ size' = size /\ returned' = <<0>>
      BY <2>1, <2>2, <2>4
    <3>2. BecomesList(Contents)
      BY <1>1, <3>1 DEF BecomesList
    <3>3. Contents' = Contents
      BY <3>2, Became
    <3>4. Abstract!RemoveFrom(d)
      BY <2>2, <2>4, <3>1, <3>3, SameOperators
      DEF Abstract!RemoveFrom, Abstract!Calls, Abstract!Returns
    <3> QED BY <3>2, <3>4
  <2> QED BY <2>3, <2>4
<1> QED BY <1>2, <1>4, <1>5

\* A list without nodes is a chain.
LEMMA EmptyChain ==
  ASSUME NEW h, DOMAIN h = {}, h = [x \in {} |-> h[x]]
  PROVE  Chain(<<>>, h, NULL, NULL, 0) /\ Values(<<>>, h) = <<>>
BY SMTT(30) DEF Chain, Values

\* The calls that only look at the list find what is there, and freelinkedlist
\* frees every node.
LEMMA OtherCalls ==
  ASSUME NEW s, Chain(s, heap, head, foot, size)
  PROVE  /\ \A index \in 0 .. size - 1 : GetAtLinkedList(index) =>
              Abstract!GetAt(index) /\ \E v : BecomesList(v)
         /\ \A d \in Data : IndexOfLinkedList(d) =>
              Abstract!IndexOf(d) /\ \E v : BecomesList(v)
         /\ ToArrayLinkedList => Abstract!ToArray /\ \E v : BecomesList(v)
         /\ FreeLinkedList => Abstract!Free /\ \E v : BecomesList(v)
<1>1. /\ size \in Nat /\ Contents = Values(s, heap)
      /\ \A i \in 1 .. size : Contents[i] = heap[s[i]].data
  BY ChainValues
<1>2. ASSUME heap' = heap, head' = head, foot' = foot, size' = size
      PROVE  Contents' = Contents /\ \E v : BecomesList(v)
  <2>1. BecomesList(Contents)
    BY <1>1, <1>2 DEF BecomesList
  <2> QED BY <2>1, Became
<1>3. ASSUME NEW index \in 0 .. size - 1, GetAtLinkedList(index)
      PROVE  Abstract!GetAt(index) /\ \E v : BecomesList(v)
  <2>1. index \in 0 .. size /\ index # size /\ index + 1 \in 1 .. size
    BY SMTT(30), <1>1
  <2>2. NodeAt(index) = s[index + 1]
    BY <2>1, NodeAtChain
  <2>3. /\ call' = [op |-> "getat", index |-> index, data |-> 0]
        /\ returned' = <<Contents[index + 1]>>
        /\ heap' = heap /\ head' = head /\ foot' = foot /\ size' = size
    BY <1>1, <1>3, <2>1, <2>2 DEF GetAtLinkedList, Observes, Called
  <2> QED BY <1>2, <2>3 DEF Abstract!GetAt, Abstract!Calls, Abstract!Returns
<1>4. ASSUME NEW d \in Data, IndexOfLinkedList(d)
      PROVE  Abstract!IndexOf(d) /\ \E v : BecomesList(v)
  <2>1. /\ call' = [op |-> "indexof", index |-> 0, data |-> d]
        /\ returned' = <<PositionOf(d, Contents) - 1>>
        /\ heap' = heap /\ head' = head /\ foot' = foot /\ size' = size
    BY <1>4 DEF IndexOfLinkedList, Observes, Called
  <2>2. Abstract!PositionOf(d, Contents) = PositionOf(d, Contents)
    BY SameOperators
  <2> QED BY <1>2, <2>1, <2>2 DEF Abstract!IndexOf, Abstract!Calls, Abstract!Returns
<1>5. ASSUME ToArrayLinkedList PROVE Abstract!ToArray /\ \E v : BecomesList(v)
  <2>1. /\ call' = [op |-> "toarray", index |-> 0, data |-> 0] /\ returned' = Contents
        /\ heap' = heap /\ head' = head /\ foot' = foot /\ size' = size
    BY <1>5 DEF ToArrayLinkedList, Observes, Called
  <2> QED BY <1>2, <2>1 DEF Abstract!ToArray, Abstract!Calls, Abstract!Returns
<1>6. ASSUME FreeLinkedList PROVE Abstract!Free /\ \E v : BecomesList(v)
  <2>1. Range(Walk) = DOMAIN heap
    <3>1. ChainTells(s)
      BY ChainTellsNow
    <3> QED BY <3>1 DEF ChainTells, NodesFormTheList
  <2>2. /\ call' = [op |-> "free", index |-> 0, data |-> 0] /\ returned' = <<>>
        /\ heap' = [n \in {} |-> heap[n]] /\ head' = NULL /\ foot' = NULL /\ size' = 0
    BY <1>6, <2>1 DEF FreeLinkedList, Called
  <2>3. Chain(<<>>, heap', head', foot', size') /\ Values(<<>>, heap') = <<>>
    BY EmptyChain, <2>2
  <2>4. BecomesList(<<>>)
    BY <2>3 DEF BecomesList
  <2>5. Contents' = <<>>
    BY <2>4, Became
  <2> QED BY <2>2, <2>4, <2>5 DEF Abstract!Free, Abstract!Calls, Abstract!Returns
<1> QED BY <1>3, <1>4, <1>5, <1>6

-----------------------------------------------------------------------------
(* The list, between its calls. *)

\* The inductive invariant: the allocated nodes are one chain.
ListInv == \E s : Chain(s, heap, head, foot, size)

\* Every call keeps the chain and is a call of the abstract list, or pops the
\* only element.
LEMMA CallsKeepTheChain ==
  ASSUME ListInv, [ListNext]_listVars
  PROVE  ListInv' /\ [Abstract!Next \/ PopKeepsTheOnly]_(Abstract!dataListVars)
<1>1. PICK s : Chain(s, heap, head, foot, size)
  BY DEF ListInv
<1>2. (\E v : BecomesList(v)) => ListInv'
  BY DEF BecomesList, ListInv
<1>3. Len(Contents) = size /\ size \in Nat
  BY <1>1, ChainValues
<1>4. CASE UNCHANGED listVars
  <2>1. BecomesList(Contents)
    <3>1. Contents = Values(s, heap)
      BY <1>1, ChainValues
    <3>2. heap' = heap /\ head' = head /\ foot' = foot /\ size' = size
      BY <1>4 DEF listVars
    <3> QED BY <1>1, <3>1, <3>2 DEF BecomesList
  <2>2. Contents' = Contents /\ call' = call /\ returned' = returned
    BY <1>4, <2>1, Became DEF listVars
  <2> QED BY <1>2, <2>1, <2>2 DEF Abstract!dataListVars
<1>5. CASE \E d \in Data : \/ AppendLinkedList(d) \/ RemoveFromLinkedList(d)
                           \/ IndexOfLinkedList(d)
                           \/ \E index \in 0 .. size : AddLinkedList(index, d)
  <2>1. PICK d \in Data : \/ AppendLinkedList(d) \/ RemoveFromLinkedList(d)
                          \/ IndexOfLinkedList(d)
                          \/ \E index \in 0 .. size : AddLinkedList(index, d)
    BY <1>5
  <2>2. (\E v : BecomesList(v))
        /\ \/ Abstract!Append_(d) \/ Abstract!RemoveFrom(d) \/ Abstract!IndexOf(d)
           \/ \E index \in 0 .. size : Abstract!Add(index, d)
    BY <1>1, <2>1, AddingCalls, RemovingCalls, OtherCalls
  <2> QED BY <1>2, <1>3, <2>2 DEF Abstract!Next
<1>6. CASE \E index \in 0 .. size - 1 : RemoveAtLinkedList(index) \/ GetAtLinkedList(index)
  <2>1. (\E v : BecomesList(v))
        /\ \E index \in 0 .. size - 1 : Abstract!RemoveAt_(index) \/ Abstract!GetAt(index)
    BY <1>1, <1>6, RemovingCalls, OtherCalls
  <2> QED BY <1>2, <1>3, <2>1 DEF Abstract!Next
<1>7. CASE PopLinkedList \/ ToArrayLinkedList \/ FreeLinkedList
  <2>1. (\E v : BecomesList(v))
        /\ (Abstract!Pop \/ PopKeepsTheOnly \/ Abstract!ToArray \/ Abstract!Free)
    BY <1>1, <1>7, RemovingCalls, OtherCalls
  <2> QED BY <1>2, <2>1 DEF Abstract!Next
<1> QED BY <1>4, <1>5, <1>6, <1>7 DEF ListNext

\* newlinkedlist makes an empty chain.
LEMMA InitialChain ==
  ASSUME ListInit
  PROVE  ListInv /\ Abstract!Init
<1>1. Chain(<<>>, heap, head, foot, size) /\ Values(<<>>, heap) = <<>>
  BY SMTT(30), EmptyChain DEF ListInit
<1>2. Contents = <<>>
  BY <1>1, ChainValues
<1> QED BY <1>1, <1>2 DEF ListInv, ListInit, Abstract!Init

\* After any calls of workshop/linked-list.c, in any order and for any number of
\* nodes, the nodes from head to foot are the allocated ones, size counts them,
\* and the list ends at its foot.
THEOREM NodesForm == ListSpec => []NodesFormTheList
<1>1. ListInit => ListInv
  BY InitialChain
<1>2. ListInv /\ [ListNext]_listVars => ListInv'
  BY CallsKeepTheChain
<1>3. ListInv => NodesFormTheList
  BY ChainTellsNow DEF ListInv, ChainTells
<1> QED BY <1>1, <1>2, <1>3, PTL DEF ListSpec

\* The linked list of workshop/linked-list.c implements a sequence of data: each
\* call does to the list, and returns, what its comment says, but for a pop of
\* the only element, which returns it and keeps it.
THEOREM ListImplementsDataList == ListSpec => ImplementsDataList
<1>1. ListInit => ListInv /\ Abstract!Init
  BY InitialChain
<1>2. ListInv /\ [ListNext]_listVars
        => ListInv' /\ [Abstract!Next \/ PopKeepsTheOnly]_(Abstract!dataListVars)
  BY CallsKeepTheChain
<1> QED BY <1>1, <1>2, PTL DEF ListSpec, ImplementsDataList

-----------------------------------------------------------------------------
(* The queues of process control blocks. *)

PcbTypeOK ==
    /\ pcb_next \in [Pcbs -> Pcbs \cup {Nil}]
    /\ queue_head \in [Lists -> Pcbs \cup {Nil}]
    /\ rank \in [Pcbs -> Ranks]
    /\ uncreated \subseteq Pcbs
    /\ running \in Pcbs \cup {Nil} /\ adding \in Pcbs \cup {Nil}
    /\ pcbs_list \in Lists
    /\ prev_pcb \in Pcbs \cup {Nil} /\ curr_pcb \in Pcbs \cup {Nil}
    /\ contents \in [Lists -> Seq(Pcbs)]
    /\ pos \in Nat

(* The pointers match the contents, during a walk too. *)
Linked ==
    \A l \in Lists :
        /\ queue_head[l] = IF contents[l] = <<>> THEN Nil ELSE contents[l][1]
        /\ \A i \in 1 .. Len(contents[l]) :
              pcb_next[contents[l][i]] =
                  IF i = Len(contents[l]) THEN Nil ELSE contents[l][i + 1]

(* A block in someone's hands is in none else's and points nowhere: it can *)
(* become the only block of a list as it is.                               *)
Loose ==
    /\ Nil \notin uncreated /\ {running, adding} \cap uncreated = {}
    /\ running = adding => running = Nil
    /\ \A p \in {running, adding} \ {Nil} : pcb_next[p] = Nil

(* The walk stands between the blocks number pos and pos + 1, and in a     *)
(* sorted list every block it has passed goes before the new one.          *)
Walking ==
    ~Idle =>
        LET c == contents[pcbs_list]
        IN  /\ c # <<>> /\ pos =< Len(c)
            /\ curr_pcb = IF pos = Len(c) THEN Nil ELSE c[pos + 1]
            /\ prev_pcb = IF pos = 0 THEN Nil ELSE c[pos]
            /\ pcbs_list \in SortedLists =>
                  \A k \in 1 .. pos : rank[c[k]] =< rank[adding]

PcbInv ==
    /\ PcbTypeOK /\ Linked /\ EachPcbInOnePlace /\ Loose /\ Walking
    /\ SortedListsAreSorted

USE PcbAssumption

-----------------------------------------------------------------------------
(* What Tail makes of a sequence. *)
LEMMA TailFacts ==
  ASSUME NEW s \in Seq(Pcbs), s # <<>>
  PROVE  /\ Tail(s) \in Seq(Pcbs)
         /\ Len(s) \in Nat /\ Len(s) >= 1 /\ s[1] \in Pcbs
         /\ Len(Tail(s)) = Len(s) - 1
         /\ \A i \in 1 .. Len(s) - 1 : Tail(s)[i] = s[i + 1]
         /\ Tail(s) = <<>> <=> Len(s) = 1
<1>1. /\ Tail(s) \in Seq(Pcbs)
      /\ Len(s) \in Nat /\ Len(s) >= 1 /\ s[1] \in Pcbs
      /\ Len(Tail(s)) = Len(s) - 1
      /\ \A i \in 1 .. Len(s) - 1 : Tail(s)[i] = s[i + 1]
  BY SMTT(30)
<1>2. \A t \in Seq(Pcbs) : t = <<>> <=> Len(t) = 0
  BY SMTT(30)
<1> QED BY SMTT(30), <1>1, <1>2

(* Two places with the same block are one. *)
LEMMA SamePlace ==
  ASSUME EachPcbInOnePlace, NEW m \in Lists, NEW k \in Lists,
         NEW a \in 1 .. Len(contents[m]), NEW b \in 1 .. Len(contents[k]),
         contents[m][a] = contents[k][b]
  PROVE  m = k /\ a = b
BY DEF EachPcbInOnePlace

(* The lists start in the invariant. *)
LEMMA PcbInitInv == PcbInit => PcbInv
BY SMTT(30) DEF PcbInit, PcbInv, PcbTypeOK, Linked, EachPcbInOnePlace, Loose, Walking,
       SortedListsAreSorted, Idle

(* Starting to add a loose block p keeps the invariant, when next and rank *)
(* of the blocks in lists do not change and p is in nobody else's hands.   *)
LEMMA StartAddingInv ==
  ASSUME PcbInv, Idle,
         NEW p \in Pcbs, NEW l \in Lists,
         StartAdding(p, l),
         \A m \in Lists : \A i \in 1 .. Len(contents[m]) : contents[m][i] # p,
         pcb_next' \in [Pcbs -> Pcbs \cup {Nil}], pcb_next'[p] = Nil,
         \A q \in Pcbs \ {p} : pcb_next'[q] = pcb_next[q],
         rank' \in [Pcbs -> Ranks],
         \A q \in Pcbs \ {p} : rank'[q] = rank[q],
         uncreated' = uncreated \ {p},
         running' = IF running = p THEN Nil ELSE running
  PROVE  PcbInv'
<1> USE DEF PcbInv, PcbTypeOK, Idle
<1>1. CASE queue_head[l] = Nil
  <2> /\ queue_head' = [queue_head EXCEPT ![l] = p]
      /\ contents' = [contents EXCEPT ![l] = <<p>>]
      /\ UNCHANGED <<adding, pcbs_list, prev_pcb, curr_pcb, pos>>
    BY <1>1 DEF StartAdding
  <2>0. contents[l] = <<>>
    BY SMTT(30), <1>1 DEF Linked
  <2>1. PcbTypeOK'
    BY SMTT(30)
  <2>2. Linked'
    BY SMTT(30), <2>0 DEF Linked
  <2>3. EachPcbInOnePlace'
    BY SMTT(30), <2>0 DEF EachPcbInOnePlace, Loose
  <2>4. Loose' /\ Walking'
    BY SMTT(30) DEF Loose, Walking
  <2>5. SortedListsAreSorted'
    BY SMTT(30), <2>0 DEF SortedListsAreSorted
  <2> QED BY <2>1, <2>2, <2>3, <2>4, <2>5
<1>2. CASE queue_head[l] # Nil
  <2> /\ adding' = p /\ pcbs_list' = l
      /\ prev_pcb' = Nil /\ curr_pcb' = queue_head[l]
      /\ pos' = 0
      /\ UNCHANGED <<queue_head, contents>>
    BY <1>2 DEF StartAdding
  <2>0. contents[l] # <<>> /\ queue_head[l] = contents[l][1]
    BY <1>2 DEF Linked
  <2>1. PcbTypeOK'
    OBVIOUS
  <2>2. Linked'
    BY SMTT(30) DEF Linked
  <2>3. EachPcbInOnePlace'
    BY SMTT(30) DEF EachPcbInOnePlace, Loose
  <2>4. Loose'
    BY DEF Loose
  <2>5. Walking'
    BY SMTT(30), <2>0 DEF Walking
  <2>6. SortedListsAreSorted'
    BY SMTT(30) DEF SortedListsAreSorted
  <2> QED BY <2>1, <2>2, <2>3, <2>4, <2>5, <2>6
<1> QED BY <1>1, <1>2

(* A new block goes to a list. *)
LEMMA CreateAndAddInv ==
  ASSUME PcbInv, NEW p \in Pcbs, NEW l \in Lists, CreateAndAdd(p, l)
  PROVE  PcbInv'
<1> USE DEF CreateAndAdd, PcbInv, PcbTypeOK
<1>1. \A m \in Lists : \A i \in 1 .. Len(contents[m]) : contents[m][i] # p
  BY SMTT(30) DEF EachPcbInOnePlace
<1>2. running' = IF running = p THEN Nil ELSE running
  BY DEF Loose
<1>3. /\ pcb_next' \in [Pcbs -> Pcbs \cup {Nil}] /\ pcb_next'[p] = Nil
      /\ \A q \in Pcbs \ {p} : pcb_next'[q] = pcb_next[q]
  OBVIOUS
<1> QED BY <1>1, <1>2, <1>3, StartAddingInv

(* The runner's block goes to a list, with a new rank. *)
LEMMA GiveBackInv ==
  ASSUME PcbInv, NEW l \in Lists, NEW r \in Ranks, GiveBack(l, r)
  PROVE  PcbInv'
<1> USE DEF GiveBack, PcbInv, PcbTypeOK
<1>1. \A m \in Lists : \A i \in 1 .. Len(contents[m]) : contents[m][i] # running
  BY DEF EachPcbInOnePlace
<1>2. /\ running \in Pcbs /\ uncreated' = uncreated \ {running}
      /\ pcb_next'[running] = Nil
  BY DEF Loose
<1>3. /\ rank' \in [Pcbs -> Ranks]
      /\ \A q \in Pcbs \ {running} : rank'[q] = rank[q]
  BY <1>2
<1> QED BY <1>1, <1>2, <1>3, StartAddingInv

(* The front block of a list goes to the runner. *)
LEMMA PopFrontAndLoadInv ==
  ASSUME PcbInv, NEW l \in Lists, PopFrontAndLoad(l)
  PROVE  PcbInv'
<1> DEFINE c == contents[l]
           d == contents'[l]
<1>1. /\ c \in Seq(Pcbs) /\ c # <<>> /\ queue_head[l] = c[1]
      /\ Len(c) \in Nat /\ Len(c) >= 1 /\ c[1] \in Pcbs
  BY SMTT(30) DEF PcbInv, PcbTypeOK, Linked, PopFrontAndLoad
<1>2. /\ d \in Seq(Pcbs) /\ Len(d) = Len(c) - 1
      /\ \A i \in 1 .. Len(c) - 1 : d[i] = c[i + 1]
      /\ d = <<>> <=> Len(c) = 1
      /\ \A m \in Lists \ {l} : contents'[m] = contents[m]
      /\ contents' \in [Lists -> Seq(Pcbs)]
  BY <1>1, TailFacts DEF PopFrontAndLoad, PcbInv, PcbTypeOK
<1>3. /\ \A q \in Pcbs \ {c[1]} : pcb_next'[q] = pcb_next[q]
      /\ pcb_next'[c[1]] = Nil
      /\ pcb_next' \in [Pcbs -> Pcbs \cup {Nil}]
      /\ running = Nil /\ running' = c[1] /\ Idle
      /\ queue_head' = [queue_head EXCEPT ![l] = pcb_next[c[1]]]
      /\ UNCHANGED <<rank, uncreated, adding, pcbs_list, prev_pcb, curr_pcb, pos>>
  BY <1>1 DEF PopFrontAndLoad, LoadedNext, PcbInv, PcbTypeOK
<1>4. \A m \in Lists : \A i \in 1 .. Len(contents'[m]) :
        contents'[m][i] \in Pcbs /\ contents'[m][i] # c[1]
  <2> SUFFICES ASSUME NEW m \in Lists, NEW i \in 1 .. Len(contents'[m])
               PROVE  contents'[m][i] \in Pcbs /\ contents'[m][i] # c[1]
    OBVIOUS
  <2>1. CASE m = l
    BY SMTT(30), <1>1, <1>2, <2>1 DEF PcbInv, EachPcbInOnePlace
  <2>2. CASE m # l
    BY SMTT(30), <1>1, <1>2, <2>2 DEF PcbInv, EachPcbInOnePlace
  <2> QED BY <2>1, <2>2
<1>5. PcbTypeOK'
  BY <1>1, <1>2, <1>3 DEF PcbInv, PcbTypeOK
<1>6. Linked'
  <2> SUFFICES ASSUME NEW m \in Lists
               PROVE  /\ queue_head'[m] = IF contents'[m] = <<>> THEN Nil ELSE contents'[m][1]
                      /\ \A i \in 1 .. Len(contents'[m]) : pcb_next'[contents'[m][i]] =
                            IF i = Len(contents'[m]) THEN Nil ELSE contents'[m][i + 1]
    BY DEF Linked
  <2>1. CASE m = l
    <3>0. 1 \in 1 .. Len(c)
      BY SMTT(30), <1>1
    <3>1. pcb_next[c[1]] = IF 1 = Len(c) THEN Nil ELSE c[1 + 1]
      BY <3>0 DEF PcbInv, Linked
    <3>2. queue_head'[l] = IF Len(c) = 1 THEN Nil ELSE c[2]
      BY SMTT(30), <1>3, <3>1 DEF PcbInv, PcbTypeOK
    <3>3. ASSUME NEW i \in 1 .. Len(d)
          PROVE  pcb_next'[d[i]] = IF i = Len(d) THEN Nil ELSE d[i + 1]
      <4>1. /\ i + 1 \in 1 .. Len(c) /\ d[i] = c[i + 1]
            /\ i # Len(d) => d[i + 1] = c[i + 2]
        <5> HIDE DEF c, d
        <5>1. i \in Nat /\ 1 =< i /\ i =< Len(c) - 1
          BY SMTT(30), <1>1, <1>2
        <5>2. i # Len(d) => i + 1 \in 1 .. Len(c) - 1
          BY SMTT(30), <1>1, <1>2, <5>1
        <5> QED BY SMTT(30), <1>1, <1>2, <5>1, <5>2
      <4>2. pcb_next[c[i + 1]] = IF i + 1 = Len(c) THEN Nil ELSE c[i + 2]
        BY SMTT(30), <1>1, <4>1 DEF PcbInv, Linked
      <4>3. pcb_next'[d[i]] = pcb_next[d[i]]
        BY <1>3, <1>4
      <4> QED BY SMTT(30), <1>1, <1>2, <4>1, <4>2, <4>3
    <3> QED BY SMTT(30), <1>1, <1>2, <2>1, <3>1, <3>2, <3>3
  <2>2. CASE m # l
    BY SMTT(30), <1>2, <1>3, <1>4, <2>2 DEF PcbInv, PcbTypeOK, Linked
  <2> QED BY <2>1, <2>2
<1>7. EachPcbInOnePlace'
  <2>1. ASSUME NEW m \in Lists, NEW k \in Lists,
               NEW i \in 1 .. Len(contents'[m]), NEW j \in 1 .. Len(contents'[k]),
               contents'[m][i] = contents'[k][j]
        PROVE  m = k /\ i = j
    <3> DEFINE up(x) == IF x = l THEN 1 ELSE 0
    <3>1. ASSUME NEW x \in Lists, NEW y \in 1 .. Len(contents'[x])
          PROVE  /\ y \in Nat /\ y + up(x) \in 1 .. Len(contents[x])
                 /\ contents'[x][y] = contents[x][y + up(x)]
      <4>1. CASE x = l
        BY SMTT(30), <1>1, <1>2, <4>1
      <4>2. CASE x # l
        <5>1. contents'[x] = contents[x] /\ contents[x] \in Seq(Pcbs)
          BY <1>2, <4>2
        <5> QED BY SMTT(30), <4>2, <5>1
      <4> QED BY <4>1, <4>2
    <3>2. PICK a \in 1 .. Len(contents[m]) : a = i + up(m) /\ contents'[m][i] = contents[m][a]
      BY <3>1
    <3>3. PICK b \in 1 .. Len(contents[k]) : b = j + up(k) /\ contents'[k][j] = contents[k][b]
      BY <3>1
    <3>4. contents[m][a] = contents[k][b]
      BY <2>1, <3>2, <3>3
    <3>5. m = k /\ a = b
      BY <3>4, SamePlace DEF PcbInv
    <3> QED BY SMTT(30), <3>1, <3>2, <3>3, <3>5
  <2>2. ASSUME NEW m \in Lists, NEW i \in 1 .. Len(contents'[m])
        PROVE  contents'[m][i] \notin {running', adding'} \cup uncreated'
    <3>1. PICK j \in 1 .. Len(contents[m]) : contents'[m][i] = contents[m][j]
      <4>1. CASE m = l
        BY SMTT(30), <1>1, <1>2, <4>1
      <4>2. CASE m # l
        BY <1>2, <4>2
      <4> QED BY <4>1, <4>2
    <3> QED BY SMTT(30), <1>3, <1>4, <3>1 DEF PcbInv, EachPcbInOnePlace
  <2> QED BY <2>1, <2>2 DEF EachPcbInOnePlace
<1>8. Loose' /\ Walking'
  <2>1. c[1] \notin uncreated
    BY SMTT(30), <1>1 DEF PcbInv, EachPcbInOnePlace
  <2> QED BY <1>1, <1>3, <2>1 DEF PcbInv, Loose, Walking, Idle
<1>9. SortedListsAreSorted'
  <2> SUFFICES ASSUME NEW m \in SortedLists,
                      NEW i \in 1 .. Len(contents'[m]), NEW j \in 1 .. Len(contents'[m]),
                      i < j
               PROVE  rank[contents'[m][i]] =< rank[contents'[m][j]]
    BY <1>3 DEF SortedListsAreSorted
  <2>1. CASE m = l
    <3>1. /\ i + 1 \in 1 .. Len(c) /\ j + 1 \in 1 .. Len(c) /\ i + 1 < j + 1
          /\ d[i] = c[i + 1] /\ d[j] = c[j + 1]
      BY SMTT(30), <1>1, <1>2, <2>1
    <3> QED BY <2>1, <3>1 DEF PcbInv, SortedListsAreSorted
  <2>2. CASE m # l
    BY <1>2, <2>2 DEF PcbInv, SortedListsAreSorted
  <2> QED BY <2>1, <2>2
<1> QED BY <1>5, <1>6, <1>7, <1>8, <1>9 DEF PcbInv

(* One turn of the loop. *)
LEMMA WalkOnInv == ASSUME PcbInv, WalkOn PROVE PcbInv'
<1> DEFINE c == contents[pcbs_list]
<1>1. PcbTypeOK' /\ Linked' /\ EachPcbInOnePlace' /\ Loose' /\ SortedListsAreSorted'
  BY SMTT(30) DEF WalkOn, PcbInv, PcbTypeOK, Linked, EachPcbInOnePlace, Loose, SortedListsAreSorted
<1>2. /\ c \in Seq(Pcbs) /\ c # <<>> /\ pos \in Nat /\ pos < Len(c) /\ adding # Nil
      /\ curr_pcb = c[pos + 1] /\ curr_pcb \in Pcbs
  BY SMTT(30) DEF WalkOn, PcbInv, PcbTypeOK, Walking, Idle
<1>3. /\ pos' = pos + 1 /\ prev_pcb' = c[pos + 1] /\ curr_pcb' = pcb_next[c[pos + 1]]
      /\ UNCHANGED <<adding, pcbs_list, contents, rank>>
  BY <1>2 DEF WalkOn
<1>4. pcb_next[c[pos + 1]] = IF pos + 1 = Len(c) THEN Nil ELSE c[pos + 2]
  BY SMTT(30), <1>2 DEF PcbInv, PcbTypeOK, Linked
<1>5. ASSUME pcbs_list \in SortedLists, NEW k \in 1 .. pos + 1
      PROVE  rank[c[k]] =< rank[adding]
  <2>1. rank[adding] \in Int /\ rank[c[pos + 1]] \in Int
    BY <1>2 DEF PcbInv, PcbTypeOK
  <2>2. rank[c[pos + 1]] =< rank[adding]
    BY SMTT(30), <1>2, <1>5, <2>1 DEF WalkOn, GoesBeforeCurr
  <2> QED BY SMTT(30), <1>2, <1>5, <2>2 DEF PcbInv, Walking, Idle
<1>6. Walking'
  BY SMTT(30), <1>2, <1>3, <1>4, <1>5 DEF Walking, Idle
<1> QED BY <1>1, <1>6 DEF PcbInv

(* What both insertions share: the new contents, with the new block in one *)
(* place and in order.                                                     *)
LEMMA AddedInv ==
  ASSUME PcbInv, ~Idle, Added,
         curr_pcb = Nil \/ GoesBeforeCurr,
         pcb_next' \in [Pcbs -> Pcbs \cup {Nil}],
         queue_head' \in [Lists -> Pcbs \cup {Nil}],
         running # Nil => pcb_next'[running] = Nil,
         Linked'
  PROVE  PcbInv'
<1> DEFINE c == contents[pcbs_list]
           d == contents'[pcbs_list]
<1>1. /\ adding \in Pcbs /\ c \in Seq(Pcbs) /\ pos \in 0 .. Len(c) /\ Len(c) \in Nat
      /\ d = InsertAfter(c, pos, adding) /\ pcbs_list \in Lists
  BY SMTT(30) DEF Added, PcbInv, PcbTypeOK, Walking, Idle
<1>2. /\ d \in Seq(Pcbs) /\ Len(d) = Len(c) + 1
      /\ \A i \in 1 .. pos : d[i] = c[i]
      /\ d[pos + 1] = adding
      /\ \A i \in pos + 2 .. Len(c) + 1 : d[i] = c[i - 1]
  <2> HIDE DEF c, d
  <2> QED BY SMTT(30), <1>1 DEF InsertAfter
<1>3. /\ contents' \in [Lists -> Seq(Pcbs)]
      /\ \A m \in Lists \ {pcbs_list} : contents'[m] = contents[m]
      /\ adding' = Nil /\ prev_pcb' = Nil /\ curr_pcb' = Nil /\ pos' = 0
      /\ UNCHANGED <<rank, uncreated, running, pcbs_list>>
  BY <1>2 DEF Added, PcbInv, PcbTypeOK
<1>4. PcbTypeOK'
  BY <1>3 DEF PcbInv, PcbTypeOK
<1>5. ASSUME NEW m \in Lists, NEW i \in 1 .. Len(contents'[m])
      PROVE  \/ m = pcbs_list /\ i = pos + 1 /\ contents'[m][i] = adding
             \/ /\ m # pcbs_list \/ i =< pos
                /\ i \in 1 .. Len(contents[m]) /\ contents'[m][i] = contents[m][i]
             \/ /\ m = pcbs_list /\ i > pos + 1
                /\ i - 1 \in 1 .. Len(contents[m]) /\ contents'[m][i] = contents[m][i - 1]
  <2>1. CASE m = pcbs_list
    <3>1. /\ contents'[m] = d /\ contents[m] = c
          /\ i \in Nat /\ pos \in Nat /\ Len(c) \in Nat
          /\ 1 =< i /\ i =< Len(c) + 1 /\ pos =< Len(c)
      BY SMTT(30), <1>1, <1>2, <2>1
    <3> HIDE DEF c, d
    <3>2. CASE i =< pos
      <4>1. i \in 1 .. pos /\ i \in 1 .. Len(c)
        BY SMTT(30), <3>1, <3>2
      <4> QED BY <1>2, <3>1, <3>2, <4>1
    <3>3. CASE i = pos + 1
      BY <1>2, <2>1, <3>1, <3>3
    <3>4. CASE i > pos + 1
      <4>1. i \in pos + 2 .. Len(c) + 1 /\ i - 1 \in 1 .. Len(c)
        BY SMTT(30), <3>1, <3>4
      <4> QED BY <1>2, <2>1, <3>1, <3>4, <4>1
    <3> QED BY SMTT(30), <3>1, <3>2, <3>3, <3>4
  <2>2. CASE m # pcbs_list
    BY <1>3, <2>2
  <2> QED BY <2>1, <2>2
<1>6. \A m \in Lists : \A i \in 1 .. Len(contents[m]) :
          contents[m][i] \notin {adding, running} \cup uncreated
  BY DEF PcbInv, EachPcbInOnePlace
<1>7. EachPcbInOnePlace'
  <2>0. ASSUME NEW m \in Lists, NEW i \in 1 .. Len(contents'[m]),
               contents'[m][i] = adding
        PROVE  m = pcbs_list /\ i = pos + 1
    <3>1. \A a \in 1 .. Len(contents[m]) : contents[m][a] # adding
      BY <1>6
    <3>2. ~ \E a \in 1 .. Len(contents[m]) : contents'[m][i] = contents[m][a]
      BY <2>0, <3>1
    <3> QED BY <1>5, <3>2
  <2>1. ASSUME NEW m \in Lists, NEW k \in Lists,
               NEW i \in 1 .. Len(contents'[m]), NEW j \in 1 .. Len(contents'[k]),
               contents'[m][i] = contents'[k][j]
        PROVE  m = k /\ i = j
    <3>1. CASE contents'[m][i] = adding
      <4>1. m = pcbs_list /\ i = pos + 1
        BY <2>0, <3>1
      <4>2. k = pcbs_list /\ j = pos + 1
        <5>1. contents'[k][j] = adding
          BY <2>1, <3>1
        <5> QED BY <2>0, <5>1
      <4> QED BY <4>1, <4>2
    <3>2. CASE contents'[m][i] # adding
      <4>1. PICK a \in 1 .. Len(contents[m]) :
              /\ contents'[m][i] = contents[m][a]
              /\ a = IF m # pcbs_list \/ i =< pos THEN i ELSE i - 1
              /\ m # pcbs_list \/ i # pos + 1
        BY SMTT(30), <1>1, <1>5, <3>2
      <4>2. PICK b \in 1 .. Len(contents[k]) :
              /\ contents'[k][j] = contents[k][b]
              /\ b = IF k # pcbs_list \/ j =< pos THEN j ELSE j - 1
              /\ k # pcbs_list \/ j # pos + 1
        BY SMTT(30), <1>1, <1>5, <2>1, <3>2
      <4>3. contents[m][a] = contents[k][b]
        BY <2>1, <4>1, <4>2
      <4>4. m = k /\ a = b
        BY SMTT(30), <4>3, SamePlace DEF PcbInv
      <4> QED BY SMTT(30), <1>1, <4>1, <4>2, <4>4
    <3> QED BY <3>1, <3>2
  <2>2. ASSUME NEW m \in Lists, NEW i \in 1 .. Len(contents'[m])
        PROVE  contents'[m][i] \notin {running', adding'} \cup uncreated'
    <3>1. contents'[m][i] = adding \/ \E j \in 1 .. Len(contents[m]) :
              contents'[m][i] = contents[m][j]
      BY <1>5
    <3>2. adding \notin {running, Nil} \cup uncreated
      BY <1>1 DEF PcbInv, Loose
    <3>3. contents'[m][i] # Nil
      BY SMTT(30), <1>3
    <3> QED BY <1>3, <1>6, <3>1, <3>2, <3>3
  <2> QED BY <2>1, <2>2 DEF EachPcbInOnePlace
<1>8. Loose' /\ Walking'
  BY <1>3 DEF PcbInv, Loose, Walking, Idle
<1>9. SortedListsAreSorted'
  <2> SUFFICES ASSUME NEW l \in SortedLists,
                      NEW i \in 1 .. Len(contents'[l]), NEW j \in 1 .. Len(contents'[l]),
                      i < j
               PROVE  rank[contents'[l][i]] =< rank[contents'[l][j]]
    BY <1>3 DEF SortedListsAreSorted
  <2>1. CASE l # pcbs_list
    BY <1>3, <2>1 DEF PcbInv, SortedListsAreSorted
  <2>2. CASE l = pcbs_list
    <3>1. \A k \in 1 .. pos : rank[c[k]] =< rank[adding]
      BY <2>2 DEF PcbInv, Walking
    <3>2. \A k, m \in 1 .. Len(c) : k < m => rank[c[k]] =< rank[c[m]]
      BY <2>2 DEF PcbInv, SortedListsAreSorted
    <3>3. \A k \in pos + 1 .. Len(c) : rank[adding] =< rank[c[k]]
      <4> SUFFICES ASSUME NEW k \in pos + 1 .. Len(c) PROVE rank[adding] =< rank[c[k]]
        OBVIOUS
      <4>1. /\ pos \in Nat /\ pos + 1 \in 1 .. Len(c) /\ curr_pcb = c[pos + 1]
            /\ curr_pcb # Nil
        BY SMTT(30), <1>1 DEF PcbInv, PcbTypeOK, Walking
      <4>2. rank[adding] < rank[c[pos + 1]]
        BY <4>1 DEF GoesBeforeCurr
      <4>3. rank[adding] \in Int /\ rank[c[pos + 1]] \in Int /\ rank[c[k]] \in Int
        <5>1. c[pos + 1] \in Pcbs /\ c[k] \in Pcbs
          BY SMTT(30), <1>1, <4>1
        <5> QED BY <1>1, <5>1 DEF PcbInv, PcbTypeOK
      <4>4. k = pos + 1 \/ rank[c[pos + 1]] =< rank[c[k]]
        BY SMTT(30), <1>1, <3>2, <4>1
      <4> QED BY SMTT(30), <4>2, <4>3, <4>4
    <3>4. /\ i \in 1 .. Len(c) + 1 /\ j \in 1 .. Len(c) + 1
          /\ contents'[l] = d
      BY <1>2, <2>2
    <3> HIDE DEF c, d
    <3>5. CASE i = pos + 1
      <4>1. j - 1 \in pos + 1 .. Len(c) /\ d[j] = c[j - 1]
        BY SMTT(30), <1>1, <1>2, <3>4, <3>5
      <4> QED BY <1>2, <3>3, <3>4, <3>5, <4>1
    <3>6. CASE j = pos + 1
      <4>1. i \in 1 .. pos /\ d[i] = c[i]
        BY SMTT(30), <1>1, <1>2, <3>4, <3>6
      <4> QED BY <1>2, <3>1, <3>4, <3>6, <4>1
    <3>7. CASE i # pos + 1 /\ j # pos + 1
      <4>1. PICK a \in 1 .. Len(c) : d[i] = c[a] /\ a = IF i =< pos THEN i ELSE i - 1
        BY SMTT(30), <1>1, <1>2, <3>4, <3>7
      <4>2. PICK b \in 1 .. Len(c) : d[j] = c[b] /\ b = IF j =< pos THEN j ELSE j - 1
        BY SMTT(30), <1>1, <1>2, <3>4, <3>7
      <4>3. a < b
        BY SMTT(30), <1>1, <3>4, <3>7, <4>1, <4>2
      <4> QED BY <3>2, <3>4, <4>1, <4>2, <4>3
    <3> QED BY <3>5, <3>6, <3>7
  <2> QED BY <2>1, <2>2
<1> QED BY <1>4, <1>7, <1>8, <1>9 DEF PcbInv

(* Insertion before the first block. *)
LEMMA InsertAtHeadInv == ASSUME PcbInv, InsertAtHead PROVE PcbInv'
<1> DEFINE c == contents[pcbs_list]
           d == contents'[pcbs_list]
<1>1. /\ adding \in Pcbs /\ c \in Seq(Pcbs) /\ c # <<>> /\ Len(c) \in Nat /\ Len(c) >= 1
      /\ pos \in 0 .. Len(c) /\ pcbs_list \in Lists /\ curr_pcb # Nil
      /\ curr_pcb = c[pos + 1] /\ pos + 1 \in 1 .. Len(c) /\ curr_pcb = c[1]
      /\ d = InsertAfter(c, pos, adding)
  BY SMTT(30) DEF InsertAtHead, Added, GoesBeforeCurr, PcbInv, PcbTypeOK, Walking, Linked, Idle
<1>2. pos = 0
  <2>1. 1 \in 1 .. Len(c) /\ contents[pcbs_list][pos + 1] = contents[pcbs_list][1]
    BY SMTT(30), <1>1
  <2>2. pos + 1 = 1
    BY <1>1, <2>1, SamePlace DEF PcbInv
  <2> QED BY SMTT(30), <1>1, <2>2
<1>3. /\ d \in Seq(Pcbs) /\ Len(d) = Len(c) + 1 /\ d # <<>> /\ d[1] = adding
      /\ \A i \in 2 .. Len(c) + 1 : d[i] = c[i - 1]
  <2> HIDE DEF c, d
  <2> QED BY SMTT(30), <1>1, <1>2 DEF InsertAfter
<1>4. /\ \A m \in Lists \ {pcbs_list} :
            contents'[m] = contents[m] /\ queue_head'[m] = queue_head[m]
      /\ queue_head'[pcbs_list] = adding
      /\ queue_head' \in [Lists -> Pcbs \cup {Nil}]
      /\ pcb_next' \in [Pcbs -> Pcbs \cup {Nil}]
      /\ pcb_next'[adding] = c[1]
      /\ \A q \in Pcbs \ {adding} : pcb_next'[q] = pcb_next[q]
  BY <1>1 DEF InsertAtHead, Added, PcbInv, PcbTypeOK
<1>5. \A m \in Lists : \A i \in 1 .. Len(contents[m]) :
        contents[m][i] \in Pcbs \ {adding}
  BY SMTT(30) DEF PcbInv, PcbTypeOK, EachPcbInOnePlace
<1>6. Linked'
  <2> SUFFICES ASSUME NEW m \in Lists
               PROVE  /\ queue_head'[m] = IF contents'[m] = <<>> THEN Nil ELSE contents'[m][1]
                      /\ \A i \in 1 .. Len(contents'[m]) : pcb_next'[contents'[m][i]] =
                            IF i = Len(contents'[m]) THEN Nil ELSE contents'[m][i + 1]
    BY DEF Linked
  <2>1. CASE m # pcbs_list
    BY SMTT(30), <1>4, <1>5, <2>1 DEF PcbInv, Linked
  <2>2. CASE m = pcbs_list
    <3>1. ASSUME NEW i \in 1 .. Len(d)
          PROVE  pcb_next'[d[i]] = IF i = Len(d) THEN Nil ELSE d[i + 1]
      <4>1. CASE i = 1
        <5> HIDE DEF c, d
        <5> QED BY SMTT(30), <1>1, <1>3, <1>4, <4>1
      <4>2. CASE i # 1
        <5>1. PICK j \in 1 .. Len(c) : j = i - 1 /\ d[i] = c[j]
          <6> HIDE DEF c, d
          <6>1. i - 1 \in 1 .. Len(c) /\ i \in 2 .. Len(c) + 1
            BY SMTT(30), <1>1, <1>3, <4>2
          <6> QED BY <1>3, <6>1
        <5>2. pcb_next'[c[j]] = IF j = Len(c) THEN Nil ELSE c[j + 1]
          <6>1. c[j] \in Pcbs \ {adding}
            BY <1>1, <1>5
          <6>2. pcb_next[c[j]] = IF j = Len(c) THEN Nil ELSE c[j + 1]
            BY <1>1 DEF PcbInv, Linked
          <6> HIDE DEF c, d
          <6> QED BY <1>4, <6>1, <6>2
        <5> HIDE DEF c, d
        <5>3. ASSUME i # Len(d) PROVE d[i + 1] = c[j + 1]
          <6>1. i + 1 \in 2 .. Len(c) + 1 /\ (i + 1) - 1 = j + 1
            BY SMTT(30), <1>1, <1>3, <5>1, <5>3
          <6> QED BY SMTT(30), <1>3, <6>1
        <5> QED BY SMTT(30), <1>1, <1>3, <5>1, <5>2, <5>3
      <4> QED BY <4>1, <4>2
    <3> QED BY <1>3, <1>4, <2>2, <3>1
  <2> QED BY <2>1, <2>2
<1>7. running # Nil => pcb_next'[running] = Nil
  BY <1>1, <1>4 DEF PcbInv, PcbTypeOK, Loose
<1> QED BY <1>4, <1>6, <1>7, AddedInv DEF InsertAtHead

(* Insertion after the block the walk has passed last. *)
LEMMA InsertAfterPrevInv == ASSUME PcbInv, InsertAfterPrev PROVE PcbInv'
<1> DEFINE c == contents[pcbs_list]
           d == contents'[pcbs_list]
<1>1. /\ adding \in Pcbs /\ c \in Seq(Pcbs) /\ c # <<>> /\ Len(c) \in Nat /\ Len(c) >= 1
      /\ pos \in 0 .. Len(c) /\ pcbs_list \in Lists
      /\ curr_pcb = IF pos = Len(c) THEN Nil ELSE c[pos + 1]
      /\ prev_pcb = IF pos = 0 THEN Nil ELSE c[pos]
      /\ queue_head[pcbs_list] = c[1]
      /\ d = InsertAfter(c, pos, adding)
  BY SMTT(30) DEF InsertAfterPrev, Added, PcbInv, PcbTypeOK, Walking, Linked, Idle
<1>2. pos \in 1 .. Len(c) /\ prev_pcb = c[pos] /\ c[pos] \in Pcbs
  <2>1. ASSUME pos = 0 PROVE FALSE
    <3>1. curr_pcb = c[1] /\ curr_pcb # Nil
      BY SMTT(30), <1>1, <2>1
    <3> QED BY <1>1, <3>1 DEF InsertAfterPrev
  <2> QED BY SMTT(30), <1>1, <2>1
<1>3. /\ d \in Seq(Pcbs) /\ Len(d) = Len(c) + 1 /\ d # <<>>
      /\ \A i \in 1 .. pos : d[i] = c[i]
      /\ d[pos + 1] = adding
      /\ \A i \in pos + 2 .. Len(c) + 1 : d[i] = c[i - 1]
  <2> HIDE DEF c, d
  <2> QED BY SMTT(30), <1>1, <1>2 DEF InsertAfter
<1>4. \A m \in Lists : \A i \in 1 .. Len(contents[m]) :
        contents[m][i] \in Pcbs \ {adding}
  BY SMTT(30) DEF PcbInv, PcbTypeOK, EachPcbInOnePlace
<1>5. /\ \A m \in Lists \ {pcbs_list} : contents'[m] = contents[m]
      /\ queue_head' = queue_head
      /\ pcb_next' \in [Pcbs -> Pcbs \cup {Nil}]
      /\ pcb_next'[adding] = curr_pcb
      /\ pcb_next'[c[pos]] = adding
      /\ \A q \in Pcbs \ {adding, c[pos]} : pcb_next'[q] = pcb_next[q]
  BY <1>1, <1>2, <1>4 DEF InsertAfterPrev, Added, PcbInv, PcbTypeOK
<1>6. Linked'
  <2> SUFFICES ASSUME NEW m \in Lists
               PROVE  /\ queue_head'[m] = IF contents'[m] = <<>> THEN Nil ELSE contents'[m][1]
                      /\ \A i \in 1 .. Len(contents'[m]) : pcb_next'[contents'[m][i]] =
                            IF i = Len(contents'[m]) THEN Nil ELSE contents'[m][i + 1]
    BY DEF Linked
  <2>0. ASSUME NEW k \in Lists, NEW j \in 1 .. Len(contents[k]), k # pcbs_list \/ j # pos
        PROVE  contents[k][j] # c[pos]
    <3>1. EachPcbInOnePlace /\ pcbs_list \in Lists /\ pos \in 1 .. Len(contents[pcbs_list])
      BY <1>1, <1>2 DEF PcbInv
    <3> QED BY <2>0, <3>1, SamePlace
  <2>1. CASE m # pcbs_list
    BY SMTT(30), <1>4, <1>5, <2>0, <2>1 DEF PcbInv, Linked
  <2>2. CASE m = pcbs_list
    <3>1. ASSUME NEW i \in 1 .. Len(d)
          PROVE  pcb_next'[d[i]] = IF i = Len(d) THEN Nil ELSE d[i + 1]
      <4>0. /\ i \in Nat /\ pos \in Nat /\ Len(c) \in Nat
            /\ Len(d) = Len(c) + 1 /\ i =< Len(c) + 1
        <5> HIDE DEF c, d
        <5> QED BY SMTT(30), <1>1, <1>2, <1>3
      <4>1. CASE i = pos
        <5> HIDE DEF c, d
        <5> QED BY SMTT(30), <1>1, <1>2, <1>3, <1>5, <4>1
      <4>2. CASE i = pos + 1
        <5> HIDE DEF c, d
        <5> QED BY SMTT(30), <1>1, <1>2, <1>3, <1>5, <4>2
      <4>3. CASE i # pos /\ i # pos + 1
        <5>1. PICK j \in 1 .. Len(c) :
                j = (IF i < pos THEN i ELSE i - 1) /\ j # pos /\ d[i] = c[j]
          <6> HIDE DEF c, d
          <6> QED BY SMTT(30), <1>1, <1>2, <1>3, <4>3
        <5>2. pcb_next[c[j]] = IF j = Len(c) THEN Nil ELSE c[j + 1]
          BY <1>1 DEF PcbInv, Linked
        <5>3. pcb_next'[c[j]] = pcb_next[c[j]]
          BY SMTT(30), <1>1, <1>4, <1>5, <2>0, <5>1
        <5> HIDE DEF c, d
        <5>4. ASSUME i # Len(d) PROVE d[i + 1] = c[j + 1]
          <6>1. CASE i < pos
            BY SMTT(30), <1>1, <1>2, <1>3, <5>1, <6>1
          <6>2. CASE i > pos
            <7>1. i > pos + 1 /\ i < Len(c) + 1
              BY SMTT(30), <4>0, <4>3, <5>4, <6>2
            <7>2. j = i - 1
              BY SMTT(30), <4>0, <5>1, <6>2
            <7>3. i + 1 \in pos + 2 .. Len(c) + 1 /\ (i + 1) - 1 = j + 1
              BY SMTT(30), <4>0, <7>1, <7>2
            <7> QED BY SMTT(30), <1>3, <7>3
          <6> QED BY SMTT(30), <1>1, <1>2, <4>3, <6>1, <6>2
        <5> QED BY SMTT(30), <1>1, <1>2, <1>3, <4>3, <5>1, <5>2, <5>3, <5>4
      <4> QED BY <4>1, <4>2, <4>3
    <3>2. d[1] = c[1]
      BY SMTT(30), <1>2, <1>3
    <3> QED BY <1>1, <1>3, <1>5, <2>2, <3>1, <3>2
  <2> QED BY <2>1, <2>2
<1>7. running # Nil => pcb_next'[running] = Nil
  <2>1. running # Nil => running \in Pcbs \ {adding, c[pos]}
    BY <1>1, <1>2 DEF PcbInv, PcbTypeOK, Loose, EachPcbInOnePlace
  <2> QED BY <1>5, <2>1 DEF PcbInv, Loose
<1>8. queue_head' \in [Lists -> Pcbs \cup {Nil}]
  BY <1>5 DEF PcbInv, PcbTypeOK
<1> QED BY <1>5, <1>6, <1>7, <1>8, AddedInv DEF InsertAfterPrev

-----------------------------------------------------------------------------
LEMMA PcbInvariant == PcbSpec => []PcbInv
<1>1. ASSUME PcbInv, [PcbNext]_pcbVars PROVE PcbInv'
  <2>1. CASE UNCHANGED pcbVars
    BY SMTT(30), <1>1, <2>1
       DEF pcbVars, PcbInv, PcbTypeOK, Linked, EachPcbInOnePlace, Loose, Walking,
           SortedListsAreSorted, Idle
  <2>2. CASE PcbNext
    BY <1>1, <2>2, CreateAndAddInv, PopFrontAndLoadInv, GiveBackInv, WalkOnInv,
       InsertAtHeadInv, InsertAfterPrevInv DEF PcbNext
  <2> QED BY <1>1, <2>1, <2>2
<1> QED BY PcbInitInv, <1>1, PTL DEF PcbSpec

(* For any blocks, lists and ranks, between two calls every list read      *)
(* along its next pointers is what was added to it and not yet taken       *)
(* (process-scheduler.c, lines 80-200).                                    *)
THEOREM ListsAreTheirContents == PcbSpec => []ListsHoldTheirContents
<1>1. PcbInv => ListsHoldTheirContents
  BY DEF PcbInv, Linked, ListsHoldTheirContents
<1> QED BY PcbInvariant, <1>1, PTL

(* No block is ever in two places. *)
THEOREM BlocksInOnePlace == PcbSpec => []EachPcbInOnePlace
<1>1. PcbInv => EachPcbInOnePlace
  BY DEF PcbInv
<1> QED BY PcbInvariant, <1>1, PTL

(* A list filled by add_pcb_to_pcbs_queue stays in order. *)
THEOREM QueuesStaySorted == PcbSpec => []SortedListsAreSorted
<1>1. PcbInv => SortedListsAreSorted
  BY DEF PcbInv
<1> QED BY PcbInvariant, <1>1, PTL

(* For any blocks, lists and ranks the pointers keep the lists of the      *)
(* runners: in order, with nothing lost, shared or dragged along           *)
(* (process-scheduler.c, lines 80-200).                                    *)
THEOREM ListsStayIntact == PcbSpec => []PcbListsIntact
BY ListsAreTheirContents, BlocksInOnePlace, QueuesStaySorted, PTL DEF PcbListsIntact

=============================================================================
