----------------------- MODULE MemoryManagementProofs -----------------------
(***************************************************************************)
(* First, what the operations on the free list do, for lists of any        *)
(* length: the cells they cover, their disjointness and, for lists without *)
(* empty segments, their separation.  Then, that every operation of the    *)
(* memory manager keeps its types and the partition of main memory, for    *)
(* any number of processes, any sizes and any memory.                      *)
(***************************************************************************)
EXTENDS MemoryManagement, WellFoundedInduction, TLAPS

(* The time a leaf may take, in seconds. *)
USE SMTT(30)

-----------------------------------------------------------------------------
(* Least elements, induction and recursion on the naturals. *)

\* Every non-empty set of naturals has a least element.  The scans of the
\* free list stop at the first segment that meets their condition.
LEMMA LeastElement ==
  ASSUME NEW T \in SUBSET Nat, T # {}
  PROVE  \E x \in T : \A y \in T : x <= y
<1> DEFINE R == OpToRel(<, Nat)
<1>1. IsWellFoundedOn(R, Nat)
  BY ZenonT(30), NatLessThanWellFounded
<1>2. \E x \in T : \A y \in T : ~ (<<y, x>> \in R)
  <2> HIDE DEF R
  <2> QED BY ZenonT(30), <1>1, WFMin
<1>3. PICK x \in T : \A y \in T : ~ (<<y, x>> \in R)
  BY ZenonT(30), <1>2
<1>4. ASSUME NEW y \in T PROVE x <= y
  <2>1. x \in Nat /\ y \in Nat
    OBVIOUS
  <2>2. <<y, x>> \notin R
    BY ZenonT(30), <1>3
  <2>3. ~ (y < x)
    BY <2>1, <2>2 DEF OpToRel
  <2> QED BY <2>1, <2>3
<1> QED BY <1>4

\* Induction over a loop counter, for a set instead of a predicate.
LEMMA NatSetInduction ==
  ASSUME NEW S, 0 \in S, \A n \in Nat : n \in S => n + 1 \in S
  PROVE  Nat \subseteq S
<1> DEFINE T == Nat \ S
<1> SUFFICES ASSUME T # {} PROVE FALSE
  OBVIOUS
<1>1. PICK x \in T : \A y \in T : x <= y
  BY ZenonT(30), LeastElement
<1>2. x \in Nat /\ x # 0 /\ x - 1 \in Nat /\ (x - 1) + 1 = x
  OBVIOUS
<1>3. x - 1 \notin T
  BY <1>1, <1>2
<1> QED BY <1>2, <1>3

\* f holds the values of a loop variable that starts as x0 and becomes
\* step[x, n] in turn n, after 0, 1, ..., N turns.
LoopValue(f, X, x0, N, step) ==
  /\ f \in [0 .. N -> X]
  /\ f[0] = x0
  /\ \A n \in 1 .. N : f[n] = step[<<f[n - 1], n>>]

\* A loop of N turns, each computing the next value from the last, has a
\* result.
LEMMA LoopValues ==
  ASSUME NEW X, NEW x0 \in X, NEW N \in Nat, NEW step \in [X \X (1 .. N) -> X]
  PROVE  \E f : LoopValue(f, X, x0, N, step)
<1> USE DEF LoopValue
<1> DEFINE Loop(f, m) == LoopValue(f, X, x0, m, step)
           S == {m \in Nat : m <= N => \E f : Loop(f, m)}
<1>1. 0 \in S
  <2>1. Loop([n \in 0 .. 0 |-> x0], 0)
    OBVIOUS
  <2> QED BY ZenonT(30), <2>1
<1>2. ASSUME NEW m \in Nat, m \in S PROVE m + 1 \in S
  <2> SUFFICES ASSUME m + 1 <= N PROVE \E f : Loop(f, m + 1)
    OBVIOUS
  <2>1. PICK f : Loop(f, m)
    BY <1>2
  <2> DEFINE g == [n \in 0 .. m + 1 |->
                     IF n <= m THEN f[n] ELSE step[<<f[m], m + 1>>]]
  <2>2. g \in [0 .. m + 1 -> X]
    <3>1. step[<<f[m], m + 1>>] \in X
      BY <2>1
    <3> QED BY <2>1, <3>1
  <2>3. ASSUME NEW n \in 1 .. m + 1 PROVE g[n] = step[<<g[n - 1], n>>]
    <3>1. CASE n <= m
      BY <2>1, <3>1
    <3>2. CASE n = m + 1
      BY SMTT(30), <2>1, <3>2
    <3> QED BY <3>1, <3>2
  <2>4. g[0] = x0
    BY <2>1
  <2> HIDE DEF g
  <2> QED BY <2>2, <2>3, <2>4
<1>3. N \in S
  <2> HIDE DEF S
  <2> QED BY <1>1, <1>2, NatSetInduction
<1> QED BY <1>3

-----------------------------------------------------------------------------
(* The cells of a list of segments. *)

Covered(segs) == UNION {Cells(segs[k]) : k \in DOMAIN segs}

Disjoint(segs) ==
  \A j, k \in DOMAIN segs : j # k => Cells(segs[j]) \cap Cells(segs[k]) = {}

\* No empty segment, in descending order; neighbours may touch.
Ordered(segs) ==
  /\ \A k \in DOMAIN segs : segs[k].size > 0
  /\ \A j, k \in DOMAIN segs : j < k => EndAddress(segs[j]) >= segs[k].start_address

\* Ordered, and neighbours do not touch.
Separated(segs) ==
  /\ \A k \in DOMAIN segs : segs[k].size > 0
  /\ \A j, k \in DOMAIN segs : j < k => EndAddress(segs[j]) > segs[k].start_address

\* The last segment of a list ends at address e, if there is one.
EndsAt(segs, e) == segs # <<>> /\ EndAddress(segs[Len(segs)]) = e

-----------------------------------------------------------------------------
(* One turn of the loop of consolidate. *)

\* Segment a, extended by the segment b that it touches.
Joined(a, b) == [start_address |-> a.start_address, size |-> a.size + b.size]

\* Joining two segments that touch gives their cells.
LEMMA JoinedCells ==
  ASSUME NEW a \in Segment, NEW b \in Segment, EndAddress(a) = b.start_address
  PROVE  /\ Joined(a, b) \in Segment
         /\ Joined(a, b).start_address = a.start_address
         /\ Joined(a, b).size = a.size + b.size
         /\ Cells(Joined(a, b)) = Cells(a) \cup Cells(b)
         /\ EndAddress(Joined(a, b)) = EndAddress(b)
BY DEF Joined, Segment, EndAddress, Cells

\* Either the next segment is joined to the last one built, or appended.
LEMMA MergeNextCases ==
  ASSUME NEW done \in Seq(Segment), NEW seg \in Segment
  PROVE  \/ /\ done # <<>>
            /\ EndAddress(done[Len(done)]) = seg.start_address
            /\ MergeNext(done, seg) =
                 [done EXCEPT ![Len(done)] = Joined(done[Len(done)], seg)]
         \/ /\ done # <<>> => EndAddress(done[Len(done)]) # seg.start_address
            /\ MergeNext(done, seg) = Append(done, seg)
<1>1. CASE done # <<>> /\ EndAddress(done[Len(done)]) = seg.start_address
  <2>1. Len(done) \in DOMAIN done /\ done[Len(done)] \in Segment
    BY <1>1
  <2>2. [done[Len(done)] EXCEPT !.size = @ + seg.size] =
          Joined(done[Len(done)], seg)
    BY <2>1 DEF Segment, Joined
  <2>3. MergeNext(done, seg) =
          [done EXCEPT ![Len(done)] =
             [done[Len(done)] EXCEPT !.size = @ + seg.size]]
    BY <1>1, <2>1 DEF MergeNext
  <2> QED BY ZenonT(30), <1>1, <2>2, <2>3
<1>2. CASE ~(done # <<>> /\ EndAddress(done[Len(done)]) = seg.start_address)
  BY <1>2 DEF MergeNext
<1> QED BY <1>1, <1>2

\* A turn of consolidate's loop builds a list of segments again.
LEMMA MergeNextType ==
  ASSUME NEW done \in Seq(Segment), NEW seg \in Segment
  PROVE  MergeNext(done, seg) \in Seq(Segment) /\ MergeNext(done, seg) # <<>>
<1>1. ASSUME done # <<>>, EndAddress(done[Len(done)]) = seg.start_address
      PROVE  LET r == [done EXCEPT ![Len(done)] = Joined(done[Len(done)], seg)]
             IN  r \in Seq(Segment) /\ r # <<>>
  <2>1. Len(done) \in 1 .. Len(done) /\ done[Len(done)] \in Segment
    BY <1>1
  <2>2. Joined(done[Len(done)], seg) \in Segment
    BY <1>1, <2>1, JoinedCells
  <2> QED BY <1>1, <2>1, <2>2
<1>2. Append(done, seg) \in Seq(Segment) /\ Append(done, seg) # <<>>
  <2>1. Append(done, seg) \in Seq(Segment)
    OBVIOUS
  <2>2. Len(Append(done, seg)) = Len(done) + 1 /\ Len(done) \in Nat /\ Len(<<>>) = 0
    OBVIOUS
  <2> QED BY <2>1, <2>2
<1> QED BY ZenonT(30), <1>1, <1>2, MergeNextCases

\* A turn adds the cells of segment n, and keeps the segments disjoint.
LEMMA MergeNextCovers ==
  ASSUME NEW done \in Seq(Segment), NEW seg \in Segment,
         Disjoint(done), Cells(seg) \cap Covered(done) = {}
  PROVE  /\ Covered(MergeNext(done, seg)) = Covered(done) \cup Cells(seg)
         /\ Disjoint(MergeNext(done, seg))
<1> DEFINE r == MergeNext(done, seg)
           L == Len(done)
<1>1. CASE /\ done # <<>>
           /\ EndAddress(done[L]) = seg.start_address
           /\ r = [done EXCEPT ![L] = Joined(done[L], seg)]
  <2>1. L \in DOMAIN done /\ done[L] \in Segment /\ DOMAIN r = DOMAIN done
    BY <1>1
  <2>2. Cells(r[L]) = Cells(done[L]) \cup Cells(seg)
    BY <1>1, <2>1, JoinedCells
  <2>3. \A k \in DOMAIN done : k # L => r[k] = done[k]
    BY <1>1
  <2>4. \A k \in DOMAIN done : Cells(done[k]) \cap Cells(seg) = {}
    BY DEF Covered
  <2> HIDE DEF r, L
  <2>5. Covered(r) = Covered(done) \cup Cells(seg)
    BY <2>1, <2>2, <2>3 DEF Covered
  <2>6. Disjoint(r)
    BY <2>1, <2>2, <2>3, <2>4 DEF Disjoint
  <2> QED BY <2>5, <2>6 DEF r
<1>2. CASE r = Append(done, seg)
  <2>1. DOMAIN r = DOMAIN done \cup {L + 1} /\ L + 1 \notin DOMAIN done
    BY <1>2
  <2>2. r[L + 1] = seg /\ \A k \in DOMAIN done : r[k] = done[k]
    BY <1>2
  <2>3. \A k \in DOMAIN done : Cells(done[k]) \cap Cells(seg) = {}
    BY DEF Covered
  <2> HIDE DEF r, L
  <2>4. Covered(r) = Covered(done) \cup Cells(seg)
    BY <2>1, <2>2 DEF Covered
  <2>5. Disjoint(r)
    BY <2>1, <2>2, <2>3 DEF Disjoint
  <2> QED BY <2>4, <2>5 DEF r
<1> QED BY <1>1, <1>2, MergeNextCases

\* A turn on a segment below all those built keeps them separated.
LEMMA MergeNextSeparates ==
  ASSUME NEW done \in Seq(Segment), NEW seg \in Segment,
         Separated(done), seg.size > 0,
         done # <<>> => EndAddress(done[Len(done)]) >= seg.start_address
  PROVE  /\ Separated(MergeNext(done, seg))
         /\ EndsAt(MergeNext(done, seg), EndAddress(seg))
<1> DEFINE r == MergeNext(done, seg)
           L == Len(done)
<1>0. /\ \A k \in DOMAIN done :
           /\ done[k] \in Segment
           /\ done[k].start_address \in Nat /\ done[k].size \in Nat
           /\ EndAddress(done[k]) \in Int
      /\ seg.start_address \in Nat /\ seg.size \in Nat
  <2>1. \A k \in DOMAIN done : done[k] \in Segment
    OBVIOUS
  <2> QED BY <2>1 DEF Segment, EndAddress
<1>1. CASE /\ done # <<>>
           /\ EndAddress(done[L]) = seg.start_address
           /\ r = [done EXCEPT ![L] = Joined(done[L], seg)]
  <2>1. /\ L \in DOMAIN done /\ done[L] \in Segment
        /\ DOMAIN r = DOMAIN done /\ Len(r) = L /\ r # <<>>
        /\ DOMAIN done = 1 .. L
    <3>1. L \in DOMAIN done /\ done[L] \in Segment /\ DOMAIN done = 1 .. L
      BY <1>1
    <3>2. Len(r) = L /\ r # <<>>
      BY <1>1, <3>1, JoinedCells, MergeNextType
    <3>3. DOMAIN r = DOMAIN done
      BY <1>1
    <3> QED BY <3>1, <3>2, <3>3
  <2>2. /\ r[L].start_address = done[L].start_address
        /\ r[L].size = done[L].size + seg.size
        /\ EndAddress(r[L]) = EndAddress(seg)
    BY <1>1, <2>1, JoinedCells
  <2>3. \A k \in DOMAIN done : k # L => r[k] = done[k]
    BY <1>1
  <2> HIDE DEF r, L
  <2>5. ASSUME NEW k \in DOMAIN r PROVE r[k].size > 0
    <3>1. done[k].size > 0 /\ done[k].size \in Nat
      BY <1>0, <2>1 DEF Separated
    <3> QED BY <1>0, <2>1, <2>2, <2>3, <3>1
  <2>6. ASSUME NEW j \in DOMAIN r, NEW k \in DOMAIN r, j < k
        PROVE  EndAddress(r[j]) > r[k].start_address
    <3>1. j # L /\ r[j] = done[j]
      BY <2>1, <2>3, <2>6
    <3>2. r[k].start_address = done[k].start_address
      BY <2>1, <2>2, <2>3
    <3> QED BY <2>1, <2>6, <3>1, <3>2 DEF Separated
  <2> QED BY <2>1, <2>2, <2>5, <2>6 DEF Separated, EndsAt, r
<1>2. CASE /\ done # <<>> => EndAddress(done[L]) # seg.start_address
           /\ r = Append(done, seg)
  <2>1. /\ DOMAIN r = DOMAIN done \cup {L + 1} /\ L \in Nat
        /\ Len(r) = L + 1 /\ r # <<>> /\ DOMAIN done = 1 .. L
    BY <1>2
  <2>2. r[L + 1] = seg /\ \A k \in DOMAIN done : r[k] = done[k]
    BY <1>2
  <2>4. ASSUME NEW j \in DOMAIN done
        PROVE  EndAddress(done[j]) > seg.start_address
    <3>1. done # <<>> /\ L \in DOMAIN done
      OBVIOUS
    <3>2. EndAddress(done[L]) > seg.start_address
      BY <1>0, <1>2, <3>1
    <3>3. j # L => EndAddress(done[j]) > done[L].start_address
      BY <3>1 DEF Separated
    <3> QED BY <1>0, <3>1, <3>2, <3>3 DEF EndAddress, Separated
  <2> HIDE DEF r, L
  <2>5. \A k \in DOMAIN r : r[k].size > 0
    BY <2>1, <2>2 DEF Separated
  <2>6. ASSUME NEW j \in DOMAIN r, NEW k \in DOMAIN r, j < k
        PROVE  EndAddress(r[j]) > r[k].start_address
    <3>1. j \in DOMAIN done /\ r[j] = done[j]
      BY <2>1, <2>2, <2>6
    <3>2. CASE k \in DOMAIN done
      BY <2>2, <2>6, <3>1, <3>2 DEF Separated
    <3>3. CASE k = L + 1
      BY <2>2, <2>4, <3>1, <3>3
    <3> QED BY <2>1, <3>2, <3>3
  <2> QED BY <2>1, <2>2, <2>5, <2>6 DEF Separated, EndsAt, r
<1> QED BY <1>1, <1>2, MergeNextCases

-----------------------------------------------------------------------------
(* consolidate *)

\* The loop of consolidate: built[n] is the list after n segments.
LEMMA ConsolidateLoop ==
  ASSUME NEW segs \in Seq(Segment)
  PROVE  \E built \in [0 .. Len(segs) -> Seq(Segment)] :
           /\ built[0] = <<>>
           /\ \A n \in 1 .. Len(segs) :
                built[n] = MergeNext(built[n - 1], segs[n])
           /\ Consolidate(segs) = built[Len(segs)]
<1> DEFINE N == Len(segs)
           X == Seq(Segment)
           step == [w \in X \X (1 .. N) |-> MergeNext(w[1], segs[w[2]])]
           IsLoop(f) == f = [n \in 0 .. N |->
                               IF n = 0 THEN <<>>
                               ELSE MergeNext(f[n - 1], segs[n])]
           built == CHOOSE f : IsLoop(f)
<1>1. N \in Nat /\ <<>> \in X
  OBVIOUS
<1>2. step \in [X \X (1 .. N) -> X]
  <2>1. ASSUME NEW w \in X \X (1 .. N) PROVE MergeNext(w[1], segs[w[2]]) \in X
    <3>1. w[1] \in X /\ w[2] \in 1 .. N /\ segs[w[2]] \in Segment
      OBVIOUS
    <3> QED BY ZenonT(30), <3>1, MergeNextType
  <2> QED BY <2>1
<1>3. PICK f \in [0 .. N -> X] :
        f[0] = <<>> /\ \A n \in 1 .. N : f[n] = step[<<f[n - 1], n>>]
  <2> DEFINE x0 == <<>>
  <2>1. x0 \in X /\ N \in Nat
    BY <1>1
  <2> HIDE DEF step, X, N, x0, IsLoop, built
  <2>2. \E f : LoopValue(f, X, x0, N, step)
    BY ZenonT(30), <1>2, <2>1, LoopValues
  <2> QED BY ZenonT(30), <2>2 DEF LoopValue, x0
<1>4. ASSUME NEW n \in 1 .. N PROVE f[n] = MergeNext(f[n - 1], segs[n])
  <2>1. f[n - 1] \in X
    BY <1>1
  <2>2. <<f[n - 1], n>> \in X \X (1 .. N)
    BY <2>1
  <2> HIDE DEF X
  <2> QED BY ZenonT(30), <1>3, <2>2
<1>5. IsLoop(f)
  BY <1>1, <1>3, <1>4
<1>6. IsLoop(built)
  BY <1>5
<1>7. Consolidate(segs) = built[N]
  BY DEF Consolidate
<1> HIDE DEF built
<1>8. /\ built[0] = <<>>
      /\ \A n \in 1 .. N : built[n] = MergeNext(built[n - 1], segs[n])
  BY <1>1, <1>6
<1> DEFINE S == {n \in Nat : n <= N => built[n] \in X}
<1>9. ASSUME NEW n \in Nat, n \in S PROVE n + 1 \in S
  <2> SUFFICES ASSUME n + 1 <= N PROVE built[n + 1] \in X
    OBVIOUS
  <2>1. built[n] \in X /\ n + 1 \in 1 .. N /\ segs[n + 1] \in Segment
    BY <1>1, <1>9
  <2>2. built[n + 1] = MergeNext(built[(n + 1) - 1], segs[n + 1])
    BY <1>8, <2>1
  <2>3. (n + 1) - 1 = n
    OBVIOUS
  <2> QED BY ZenonT(30), <2>1, <2>2, <2>3, MergeNextType
<1>10. Nat \subseteq S
  <2>1. 0 \in S
    BY ZenonT(30), <1>1, <1>8
  <2> HIDE DEF S
  <2> QED BY <1>9, <2>1, NatSetInduction
<1>11. built \in [0 .. N -> X]
  <2>1. \A n \in 0 .. N : built[n] \in X
    BY <1>1, <1>10
  <2> QED BY <1>6, <2>1
<1> QED BY <1>7, <1>8, <1>11

\* consolidate keeps the cells of a list and the disjointness of its segments.
LEMMA ConsolidateCovers ==
  ASSUME NEW segs \in Seq(Segment), Disjoint(segs)
  PROVE  /\ Consolidate(segs) \in Seq(Segment)
         /\ Covered(Consolidate(segs)) = Covered(segs)
         /\ Disjoint(Consolidate(segs))
<1> DEFINE N == Len(segs)
           Upto(n) == UNION {Cells(segs[k]) : k \in 1 .. n}
<1>1. PICK built \in [0 .. N -> Seq(Segment)] :
        /\ built[0] = <<>>
        /\ \A n \in 1 .. N : built[n] = MergeNext(built[n - 1], segs[n])
        /\ Consolidate(segs) = built[N]
  BY ConsolidateLoop
<1> DEFINE S == {n \in Nat : n <= N => /\ Covered(built[n]) = Upto(n)
                                       /\ Disjoint(built[n])}
<1>2. 0 \in S
  BY <1>1 DEF Covered, Disjoint
<1>3. ASSUME NEW n \in Nat, n \in S PROVE n + 1 \in S
  <2> SUFFICES ASSUME n + 1 <= N
               PROVE  Covered(built[n + 1]) = Upto(n + 1) /\ Disjoint(built[n + 1])
    OBVIOUS
  <2>1. /\ n \in 0 .. N /\ n + 1 \in DOMAIN segs /\ (n + 1) - 1 = n
        /\ segs[n + 1] \in Segment /\ built[n] \in Seq(Segment)
    OBVIOUS
  <2>2. Covered(built[n]) = Upto(n) /\ Disjoint(built[n])
    BY <1>3, <2>1
  <2>3. built[n + 1] = MergeNext(built[n], segs[n + 1])
    BY <1>1, <2>1
  <2>4. \A k \in 1 .. n : k \in DOMAIN segs /\ k # n + 1
    BY <2>1
  <2>5. Cells(segs[n + 1]) \cap Upto(n) = {}
    BY <2>1, <2>4 DEF Disjoint
  <2>6. Upto(n + 1) = Upto(n) \cup Cells(segs[n + 1])
    <3>1. 1 .. n + 1 = (1 .. n) \cup {n + 1}
      OBVIOUS
    <3> QED BY <3>1
  <2> HIDE DEF Upto
  <2> QED BY ZenonT(30), <2>1, <2>2, <2>3, <2>5, <2>6, MergeNextCovers
<1>4. N \in S /\ N \in Nat
  <2> HIDE DEF S
  <2> QED BY <1>2, <1>3, NatSetInduction
<1>5. Upto(N) = Covered(segs)
  BY DEF Covered
<1> HIDE DEF Upto
<1>6. Covered(built[N]) = Upto(N) /\ Disjoint(built[N]) /\ built[N] \in Seq(Segment)
  <2>1. N <= N /\ N \in 0 .. N
    BY <1>4
  <2> QED BY <1>4, <2>1
<1> QED BY <1>1, <1>5, <1>6

\* consolidate separates the segments of an ordered list.
LEMMA ConsolidateSeparates ==
  ASSUME NEW segs \in Seq(Segment), Ordered(segs)
  PROVE  Separated(Consolidate(segs))
<1> DEFINE N == Len(segs)
<1>1. PICK built \in [0 .. N -> Seq(Segment)] :
        /\ built[0] = <<>>
        /\ \A n \in 1 .. N : built[n] = MergeNext(built[n - 1], segs[n])
        /\ Consolidate(segs) = built[N]
  BY ConsolidateLoop
<1> DEFINE S == {n \in Nat : n <= N =>
                   /\ Separated(built[n])
                   /\ IF n = 0 THEN built[n] = <<>>
                      ELSE EndsAt(built[n], EndAddress(segs[n]))}
<1>2. 0 \in S
  BY <1>1 DEF Separated
<1>3. ASSUME NEW n \in Nat, n \in S PROVE n + 1 \in S
  <2> SUFFICES ASSUME n + 1 <= N
               PROVE  /\ Separated(built[n + 1])
                      /\ EndsAt(built[n + 1], EndAddress(segs[n + 1]))
    OBVIOUS
  <2>1. /\ n \in 0 .. N /\ n + 1 \in DOMAIN segs /\ (n + 1) - 1 = n
        /\ segs[n + 1] \in Segment /\ built[n] \in Seq(Segment)
        /\ segs[n + 1].size > 0
    BY DEF Ordered
  <2>2. /\ Separated(built[n])
        /\ IF n = 0 THEN built[n] = <<>>
           ELSE EndsAt(built[n], EndAddress(segs[n]))
    BY <1>3, <2>1
  <2>3. built[n + 1] = MergeNext(built[n], segs[n + 1])
    BY <1>1, <2>1
  <2>4. n # 0 => EndAddress(segs[n]) >= segs[n + 1].start_address
    <3>1. n # 0 => n \in DOMAIN segs /\ n < n + 1
      OBVIOUS
    <3> QED BY <2>1, <3>1 DEF Ordered
  <2>5. built[n] # <<>> =>
          EndAddress(built[n][Len(built[n])]) >= segs[n + 1].start_address
    BY <2>2, <2>4 DEF EndsAt
  <2> QED BY <2>1, <2>2, <2>3, <2>5, MergeNextSeparates
<1>4. N \in S /\ N \in Nat
  <2> HIDE DEF S
  <2> QED BY <1>2, <1>3, NatSetInduction
<1> QED BY <1>1, <1>4

-----------------------------------------------------------------------------
(* Linking a node into a list and unlinking one. *)

\* Linking an element in at position k adds it and moves the later ones up.
LEMMA LinkAtElements ==
  ASSUME NEW S, NEW s \in Seq(S), NEW k \in 1 .. Len(s) + 1, NEW e \in S
  PROVE  /\ LinkAt(s, k, e) \in Seq(S)
         /\ Len(LinkAt(s, k, e)) = Len(s) + 1
         /\ \A i \in 1 .. Len(s) + 1 :
              LinkAt(s, k, e)[i] =
                IF i < k THEN s[i] ELSE IF i = k THEN e ELSE s[i - 1]
BY DEF LinkAt

\* Unlinking the element at position k moves the later ones down.
LEMMA UnlinkAtElements ==
  ASSUME NEW S, NEW s \in Seq(S), NEW k \in 1 .. Len(s)
  PROVE  /\ UnlinkAt(s, k) \in Seq(S)
         /\ Len(UnlinkAt(s, k)) = Len(s) - 1
         /\ \A i \in 1 .. Len(s) - 1 :
              UnlinkAt(s, k)[i] = IF i < k THEN s[i] ELSE s[i + 1]
BY DEF UnlinkAt

-----------------------------------------------------------------------------
(* add_free_memory_segment_to_free_memory_segments_list *)

\* The insertion scan ends, at the first segment not above the new one.
LEMMA InsertPositionFound ==
  ASSUME NEW segs \in Seq(Segment), NEW seg \in Segment,
         NEW k, k = InsertPosition(seg, segs)
  PROVE  /\ k \in 1 .. Len(segs) + 1
         /\ \A j \in 1 .. k - 1 : seg.start_address < segs[j].start_address
         /\ k <= Len(segs) => seg.start_address >= segs[k].start_address
<1> DEFINE Stop(n) == n <= Len(segs) =>
                        seg.start_address >= segs[n].start_address
           T == {n \in 1 .. Len(segs) + 1 : Stop(n)}
<1>1. Len(segs) + 1 \in T /\ T \in SUBSET Nat
  OBVIOUS
<1>2. PICK n \in T : \A m \in T : n <= m
  BY ZenonT(30), <1>1, LeastElement
<1>3. ASSUME NEW j \in 1 .. n - 1
      PROVE  seg.start_address < segs[j].start_address
  <2>1. j \in 1 .. Len(segs) /\ j \in Nat /\ n \in Nat /\ j < n
    BY <1>2
  <2>2. j \notin T
    BY <1>2, <2>1
  <2>3. segs[j] \in Segment
    BY <2>1
  <2> QED BY SMTT(30), <2>1, <2>2, <2>3 DEF Segment
<1> QED BY ZenonT(30), <1>2, <1>3 DEF InsertPosition

\* Linking a segment in adds its cells.
LEMMA InsertCovers ==
  ASSUME NEW segs \in Seq(Segment), NEW seg \in Segment,
         NEW k \in 1 .. Len(segs) + 1,
         Disjoint(segs), Cells(seg) \cap Covered(segs) = {}
  PROVE  /\ Covered(LinkAt(segs, k, seg)) = Covered(segs) \cup Cells(seg)
         /\ Disjoint(LinkAt(segs, k, seg))
<1> DEFINE r == LinkAt(segs, k, seg)
           L == Len(segs)
           at(i) == IF i < k THEN i ELSE i - 1
<1>1. /\ DOMAIN r = 1 .. L + 1 /\ DOMAIN segs = 1 .. L /\ L \in Nat
      /\ \A i \in 1 .. L + 1 :
           r[i] = IF i < k THEN segs[i] ELSE IF i = k THEN seg ELSE segs[i - 1]
  <2>1. /\ Len(r) = L + 1 /\ r \in Seq(Segment)
        /\ \A i \in 1 .. L + 1 :
             r[i] = IF i < k THEN segs[i] ELSE IF i = k THEN seg ELSE segs[i - 1]
    BY LinkAtElements
  <2> HIDE DEF r
  <2> QED BY <2>1
<1>2. r[k] = seg /\ k \in DOMAIN r
  BY <1>1
<1>3. \A i \in DOMAIN r : i # k => at(i) \in DOMAIN segs /\ r[i] = segs[at(i)]
  BY <1>1
<1>4. \A i, j \in DOMAIN r : i # k /\ j # k /\ i # j => at(i) # at(j)
  BY <1>1
<1>5. \A n \in DOMAIN segs : \E i \in DOMAIN r : i # k /\ r[i] = segs[n]
  <2> TAKE n \in DOMAIN segs
  <2>1. CASE n < k
    BY <1>1, <2>1
  <2>2. CASE n >= k
    <3>1. n + 1 \in DOMAIN r /\ n + 1 # k /\ r[n + 1] = segs[n]
      BY <1>1, <2>2
    <3> QED BY <3>1
  <2> QED BY <1>1, <2>1, <2>2
<1>6. \A n \in DOMAIN segs : Cells(segs[n]) \cap Cells(seg) = {}
  BY DEF Covered
<1> HIDE DEF r, at, L
<1>7. Covered(r) = Covered(segs) \cup Cells(seg)
  BY <1>2, <1>3, <1>5 DEF Covered
<1>8. Disjoint(r)
  <2> SUFFICES ASSUME NEW i \in DOMAIN r, NEW j \in DOMAIN r, i # j
               PROVE  Cells(r[i]) \cap Cells(r[j]) = {}
    BY DEF Disjoint
  <2>1. CASE i = k \/ j = k
    BY <1>2, <1>3, <1>6, <2>1
  <2>2. CASE i # k /\ j # k
    BY <1>3, <1>4, <2>2 DEF Disjoint
  <2> QED BY <2>1, <2>2
<1> QED BY <1>7, <1>8 DEF r

\* Returning a segment adds exactly its cells to the free list.
LEMMA AddSegmentCovers ==
  ASSUME NEW segs \in Seq(Segment), NEW seg \in Segment,
         Disjoint(segs), Cells(seg) \cap Covered(segs) = {}
  PROVE  /\ AddFreeMemorySegment(seg, segs) \in Seq(Segment)
         /\ Covered(AddFreeMemorySegment(seg, segs)) = Covered(segs) \cup Cells(seg)
         /\ Disjoint(AddFreeMemorySegment(seg, segs))
<1> DEFINE k == InsertPosition(seg, segs)
<1>1. k \in 1 .. Len(segs) + 1
  BY InsertPositionFound
<1>2. LinkAt(segs, k, seg) \in Seq(Segment)
  BY <1>1, LinkAtElements
<1> HIDE DEF k
<1>3. /\ Covered(LinkAt(segs, k, seg)) = Covered(segs) \cup Cells(seg)
      /\ Disjoint(LinkAt(segs, k, seg))
  BY <1>1, InsertCovers
<1> QED BY <1>2, <1>3, ConsolidateCovers DEF AddFreeMemorySegment, k

\* Returning a segment keeps the free list in order and consolidated.
LEMMA AddSegmentSeparates ==
  ASSUME NEW segs \in Seq(Segment), NEW seg \in Segment, seg.size > 0,
         Separated(segs), Cells(seg) \cap Covered(segs) = {}
  PROVE  Separated(AddFreeMemorySegment(seg, segs))
<1> DEFINE k == InsertPosition(seg, segs)
           r == LinkAt(segs, k, seg)
           L == Len(segs)
<1>1. /\ k \in 1 .. L + 1
      /\ \A j \in 1 .. k - 1 : seg.start_address < segs[j].start_address
      /\ k <= L => seg.start_address >= segs[k].start_address
  BY InsertPositionFound
<1> HIDE DEF k
<1>2. /\ r \in Seq(Segment) /\ DOMAIN r = 1 .. L + 1
      /\ DOMAIN segs = 1 .. L /\ L \in Nat
      /\ \A i \in 1 .. L + 1 :
           r[i] = IF i < k THEN segs[i] ELSE IF i = k THEN seg ELSE segs[i - 1]
  BY <1>1, LinkAtElements
<1>3. /\ \A i \in DOMAIN segs :
           /\ segs[i].start_address \in Nat /\ segs[i].size \in Nat
           /\ segs[i].size > 0
           /\ EndAddress(segs[i]) = segs[i].start_address - segs[i].size
      /\ seg.start_address \in Nat /\ seg.size \in Nat
      /\ EndAddress(seg) = seg.start_address - seg.size
  <2>1. \A i \in DOMAIN segs : segs[i] \in Segment
    OBVIOUS
  <2> QED BY <2>1 DEF Segment, Separated, EndAddress
<1>4. \A i \in DOMAIN segs :
        /\ seg.start_address \notin Cells(segs[i])
        /\ segs[i].start_address \notin Cells(seg)
  <2>1. \A i \in DOMAIN segs : segs[i].start_address \in Cells(segs[i])
    BY <1>3 DEF Cells
  <2>2. seg.start_address \in Cells(seg)
    BY <1>3 DEF Cells
  <2>3. \A i \in DOMAIN segs : Cells(segs[i]) \cap Cells(seg) = {}
    BY DEF Covered
  <2> QED BY <2>1, <2>2, <2>3
<1>5. ASSUME NEW j \in 1 .. k - 1
      PROVE  EndAddress(segs[j]) >= seg.start_address
  <2>1. j \in DOMAIN segs
    BY <1>1, <1>2
  <2>2. seg.start_address < segs[j].start_address
    BY <1>1
  <2>3. seg.start_address \notin EndAddress(segs[j]) + 1 .. segs[j].start_address
    BY <1>4, <2>1 DEF Cells
  <2> QED BY <1>3, <2>1, <2>2, <2>3, SMTT(30)
<1>6. ASSUME NEW j \in k .. L PROVE EndAddress(seg) >= segs[j].start_address
  <2>1. j \in DOMAIN segs /\ k \in DOMAIN segs
    BY <1>1, <1>2
  <2>2. segs[j].start_address <= segs[k].start_address
    <3>1. CASE j = k
      BY <1>3, <2>1, <3>1
    <3>2. CASE k < j
      <4>1. EndAddress(segs[k]) > segs[j].start_address
        BY <2>1, <3>2 DEF Separated
      <4> QED BY <1>3, <2>1, <4>1, SMTT(30)
    <3> QED BY <1>1, <3>1, <3>2
  <2>3. segs[j].start_address <= seg.start_address
    BY <1>1, <1>3, <2>1, <2>2
  <2> QED BY <1>3, <1>4, <2>1, <2>3 DEF Cells
<1> HIDE DEF r, L
<1>7. ASSUME NEW i \in DOMAIN r PROVE r[i].size > 0
  <2>1. CASE i < k
    BY <1>1, <1>2, <1>3, <2>1
  <2>2. CASE i = k
    BY <1>2, <2>2
  <2>3. CASE i > k
    <3>1. i - 1 \in DOMAIN segs /\ r[i] = segs[i - 1]
      BY <1>1, <1>2, <2>3
    <3> QED BY <1>3, <3>1
  <2> QED BY <1>1, <1>2, <2>1, <2>2, <2>3
<1>8. ASSUME NEW i \in DOMAIN r, NEW j \in DOMAIN r, i < j
      PROVE  EndAddress(r[i]) >= r[j].start_address
  <2>1. CASE j = k
    BY <1>1, <1>2, <1>5, <1>8, <2>1
  <2>2. CASE i = k
    <3>1. j - 1 \in k .. L /\ r[j] = segs[j - 1] /\ r[i] = seg
      BY <1>1, <1>2, <1>8, <2>2
    <3> QED BY <1>6, <3>1
  <2>3. CASE i # k /\ j # k
    <3> DEFINE at(n) == IF n < k THEN n ELSE n - 1
    <3>1. /\ at(i) \in DOMAIN segs /\ at(j) \in DOMAIN segs /\ at(i) < at(j)
          /\ r[i] = segs[at(i)] /\ r[j] = segs[at(j)]
      BY SMTT(30), <1>1, <1>2, <1>8, <2>3
    <3> HIDE DEF at
    <3>2. EndAddress(segs[at(i)]) > segs[at(j)].start_address
      BY <3>1 DEF Separated
    <3> QED BY <1>3, <3>1, <3>2, SMTT(30)
  <2> QED BY <2>1, <2>2, <2>3
<1>9. Ordered(r)
  BY <1>7, <1>8 DEF Ordered
<1> QED BY <1>2, <1>9, ConsolidateSeparates DEF AddFreeMemorySegment, r, k

-----------------------------------------------------------------------------
(* The search and the occupation of a segment in swap_in_process_memory. *)

\* When some segment is large enough the search stops at the first one.
LEMMA FirstFitFound ==
  ASSUME NEW segs \in Seq(Segment), NEW size \in Nat, Fits(size, segs),
         NEW k, k = FirstFit(size, segs)
  PROVE  /\ k \in DOMAIN segs /\ size <= segs[k].size
         /\ \A j \in 1 .. k - 1 : segs[j].size < size
<1> DEFINE T == {n \in DOMAIN segs : size <= segs[n].size}
<1>1. T # {} /\ T \in SUBSET Nat
  BY DEF Fits
<1>2. PICK n \in T : \A m \in T : n <= m
  BY ZenonT(30), <1>1, LeastElement
<1>3. ASSUME NEW j \in 1 .. n - 1 PROVE segs[j].size < size
  <2>1. j \in DOMAIN segs /\ j < n /\ j \in Nat /\ n \in Nat
    BY <1>2
  <2>2. j \notin T
    BY <1>2, <2>1
  <2>3. segs[j] \in Segment
    BY <2>1
  <2> QED BY <2>1, <2>2, <2>3 DEF Segment
<1> QED BY <1>2, <1>3 DEF FirstFit

\* In a list without adjacent segments, free cells that follow each other are
\* all in one segment.
LEMMA BlockInOneSegment ==
  ASSUME NEW segs \in Seq(Segment), Separated(segs), NEW n \in Nat \ {0}, NEW a \in Nat,
         \A c \in a - n + 1 .. a : c \in Covered(segs)
  PROVE  \E j \in DOMAIN segs : a <= segs[j].start_address /\ n <= segs[j].size
<1>1. \A k \in DOMAIN segs :
        /\ k \in Nat /\ segs[k].start_address \in Nat /\ segs[k].size \in Nat
        /\ EndAddress(segs[k]) \in Int
        /\ segs[k].size = segs[k].start_address - EndAddress(segs[k])
  <2> TAKE k \in DOMAIN segs
  <2>1. segs[k] \in Segment /\ k \in Nat
    OBVIOUS
  <2> QED BY <2>1 DEF Segment, EndAddress
<1>2. \A c \in a - n + 1 .. a : \E k \in DOMAIN segs :
        EndAddress(segs[k]) < c /\ c <= segs[k].start_address
  <2> TAKE c \in a - n + 1 .. a
  <2>1. PICK k \in DOMAIN segs : c \in Cells(segs[k])
    BY DEF Covered
  <2> QED BY <1>1, <2>1 DEF Cells
<1>3. PICK j \in DOMAIN segs : EndAddress(segs[j]) < a /\ a <= segs[j].start_address
  BY <1>2
<1> DEFINE e == EndAddress(segs[j])
<1>4. ASSUME e >= a - n + 1 PROVE FALSE
  <2>1. PICK i \in DOMAIN segs : EndAddress(segs[i]) < e /\ e <= segs[i].start_address
    <3>1. e \in a - n + 1 .. a
      BY <1>1, <1>3, <1>4
    <3> QED BY <1>2, <3>1
  <2>2. i # j
    BY <1>1, <2>1
  <2>3. CASE j < i
    <3>1. e > segs[i].start_address
      BY <2>3 DEF Separated
    <3> QED BY <1>1, <2>1, <3>1
  <2>4. CASE i < j
    <3>1. EndAddress(segs[i]) > segs[j].start_address
      BY <2>4 DEF Separated
    <3> QED BY <1>1, <1>3, <2>1, <3>1
  <2> QED BY <1>1, <2>2, <2>3, <2>4
<1>5. n <= segs[j].size
  <2> HIDE DEF e
  <2>1. e \in Int /\ segs[j].size = segs[j].start_address - e /\ segs[j].start_address \in Nat
    BY <1>1 DEF e
  <2> QED BY <1>3, <1>4, <2>1
<1> QED BY <1>3, <1>5

\* What is left of segment k lies below the part that is handed out.
LEMMA OccupiedCells ==
  ASSUME NEW seg \in Segment, NEW size \in Nat, size <= seg.size,
         Cells(seg) \subseteq Nat \ {0},
         NEW used, used = [start_address |-> seg.start_address, size |-> size],
         NEW rest, rest = [start_address |-> seg.start_address - size,
                           size          |-> seg.size - size]
  PROVE  /\ Cells(used) \subseteq Cells(seg)
         /\ size # seg.size => /\ rest \in Segment
                               /\ Cells(rest) = Cells(seg) \ Cells(used)
                               /\ rest.size > 0
                               /\ EndAddress(rest) = EndAddress(seg)
                               /\ rest.start_address <= seg.start_address
         /\ size = seg.size => Cells(seg) = Cells(used)
<1>1. seg.start_address \in Nat /\ seg.size \in Nat
  BY DEF Segment
<1>2. seg.size > 0 => seg.start_address - seg.size + 1 \in Cells(seg)
  BY <1>1 DEF Cells, EndAddress
<1>3. seg.size > 0 => seg.start_address - seg.size >= 0
  BY <1>1, <1>2
<1>4. size # seg.size => rest \in Segment /\ rest.size > 0
  BY <1>1, <1>3 DEF Segment
<1>5. /\ Cells(used) = seg.start_address - size + 1 .. seg.start_address
      /\ Cells(seg) = seg.start_address - seg.size + 1 .. seg.start_address
      /\ Cells(rest) = seg.start_address - seg.size + 1 .. seg.start_address - size
      /\ EndAddress(rest) = EndAddress(seg)
  BY <1>1 DEF Cells, EndAddress
<1> QED BY SMTT(30), <1>1, <1>4, <1>5

\* Occupying part of segment k takes exactly the cells handed out off the
\* free list.
LEMMA OccupyCovers ==
  ASSUME NEW segs \in Seq(Segment), NEW size \in Nat, NEW k \in DOMAIN segs,
         size <= segs[k].size, Disjoint(segs), Covered(segs) \subseteq Nat \ {0},
         NEW used,
         used = [start_address |-> segs[k].start_address, size |-> size],
         NEW r, r = OccupySegment(size, segs, k)
  PROVE  /\ r \in Seq(Segment)
         /\ Disjoint(r)
         /\ Cells(used) \subseteq Covered(segs)
         /\ Covered(r) = Covered(segs) \ Cells(used)
<1> DEFINE L == Len(segs)
           rest == [start_address |-> segs[k].start_address - size,
                    size          |-> segs[k].size - size]
<1>1. segs[k] \in Segment /\ Cells(segs[k]) \subseteq Nat \ {0}
  BY DEF Covered
<1>2. /\ Cells(used) \subseteq Cells(segs[k])
      /\ size # segs[k].size => /\ rest \in Segment
                                /\ Cells(rest) = Cells(segs[k]) \ Cells(used)
      /\ size = segs[k].size => Cells(segs[k]) = Cells(used)
  BY <1>1, OccupiedCells
<1>3. Cells(used) \subseteq Covered(segs)
  BY <1>2 DEF Covered
<1>4. \A j \in DOMAIN segs : j # k => Cells(segs[j]) \cap Cells(segs[k]) = {}
  BY DEF Disjoint
<1>5. CASE size = segs[k].size
  <2> DEFINE at(i) == IF i < k THEN i ELSE i + 1
  <2>1. r = UnlinkAt(segs, k)
    BY <1>5 DEF OccupySegment
  <2>2. /\ r \in Seq(Segment) /\ DOMAIN r = 1 .. L - 1
        /\ DOMAIN segs = 1 .. L /\ L \in Nat
        /\ \A i \in 1 .. L - 1 : r[i] = segs[at(i)]
    BY SMTT(30), <2>1, UnlinkAtElements
  <2>3. /\ \A i \in DOMAIN r : at(i) \in DOMAIN segs /\ at(i) # k
        /\ \A i, j \in DOMAIN r : i # j => at(i) # at(j)
    BY <2>2
  <2>4. \A n \in DOMAIN segs : n # k => \E i \in DOMAIN r : r[i] = segs[n]
    <3> SUFFICES ASSUME NEW n \in DOMAIN segs, n # k
                 PROVE  \E i \in DOMAIN r : r[i] = segs[n]
      OBVIOUS
    <3>1. CASE n < k
      BY <2>2, <3>1
    <3>2. CASE n > k
      <4>1. n - 1 \in DOMAIN r /\ r[n - 1] = segs[n]
        BY <2>2, <3>2
      <4> QED BY <4>1
    <3> QED BY <2>2, <3>1, <3>2
  <2> HIDE DEF at, L
  <2>5. Disjoint(r)
    BY <2>2, <2>3 DEF Disjoint
  <2>6. \A c : c \in Covered(r) => \E n \in DOMAIN segs \ {k} : c \in Cells(segs[n])
    BY <2>2, <2>3 DEF Covered
  <2>7. Covered(r) = Covered(segs) \ Cells(segs[k])
    BY <1>4, <2>4, <2>6 DEF Covered
  <2> QED BY <1>2, <1>3, <1>5, <2>2, <2>5, <2>7
<1>6. CASE size # segs[k].size
  <2>1. r = [segs EXCEPT ![k] = rest]
    BY <1>6 DEF OccupySegment
  <2>2. r \in Seq(Segment) /\ DOMAIN r = DOMAIN segs
    BY <1>2, <1>6, <2>1
  <2>3. r[k] = rest /\ \A j \in DOMAIN segs : j # k => r[j] = segs[j]
    BY <2>1
  <2> HIDE DEF rest
  <2>4. Disjoint(r)
    BY <1>2, <1>4, <1>6, <2>2, <2>3 DEF Disjoint
  <2>5. Covered(r) = Covered(segs) \ Cells(used)
    BY <1>2, <1>4, <1>6, <2>2, <2>3 DEF Covered
  <2> QED BY <1>3, <2>2, <2>4, <2>5
<1> QED BY <1>5, <1>6

\* Occupying part of a segment keeps the free list in order and consolidated.
LEMMA OccupySeparates ==
  ASSUME NEW segs \in Seq(Segment), NEW size \in Nat, NEW k \in DOMAIN segs,
         size <= segs[k].size, Separated(segs), Covered(segs) \subseteq Nat \ {0},
         NEW r, r = OccupySegment(size, segs, k)
  PROVE  Separated(r)
<1> DEFINE L == Len(segs)
           rest == [start_address |-> segs[k].start_address - size,
                    size          |-> segs[k].size - size]
<1>1. segs[k] \in Segment /\ Cells(segs[k]) \subseteq Nat \ {0}
  BY DEF Covered
<1> DEFINE used == [start_address |-> segs[k].start_address, size |-> size]
<1>2. /\ Cells(used) \subseteq Cells(segs[k])
      /\ size # segs[k].size => /\ rest \in Segment
                                /\ rest.size > 0
                                /\ EndAddress(rest) = EndAddress(segs[k])
                                /\ rest.start_address <= segs[k].start_address
  BY <1>1, OccupiedCells
<1> HIDE DEF used
<1>3. CASE size = segs[k].size
  <2> DEFINE at(i) == IF i < k THEN i ELSE i + 1
  <2>1. r = UnlinkAt(segs, k)
    BY <1>3 DEF OccupySegment
  <2>2. /\ DOMAIN r = 1 .. L - 1 /\ DOMAIN segs = 1 .. L /\ L \in Nat
        /\ \A i \in 1 .. L - 1 : r[i] = segs[at(i)]
    BY SMTT(30), <2>1, UnlinkAtElements
  <2>3. /\ \A i \in DOMAIN r : at(i) \in DOMAIN segs
        /\ \A i, j \in DOMAIN r : i < j => at(i) < at(j)
    BY <2>2, SMTT(30)
  <2> HIDE DEF at, L
  <2> QED BY <2>2, <2>3 DEF Separated
<1>4. CASE size # segs[k].size
  <2>1. r = [segs EXCEPT ![k] = rest]
    BY <1>4 DEF OccupySegment
  <2>2. DOMAIN r = DOMAIN segs /\ DOMAIN segs = 1 .. L
    BY <2>1
  <2>3. r[k] = rest /\ \A j \in DOMAIN segs : j # k => r[j] = segs[j]
    BY <2>1
  <2>4. \A j \in DOMAIN segs : /\ segs[j].start_address \in Nat
                               /\ EndAddress(segs[j]) \in Int
    <3>1. \A j \in DOMAIN segs : segs[j] \in Segment
      OBVIOUS
    <3> QED BY <3>1 DEF Segment, EndAddress
  <2>5. rest.start_address \in Nat
    BY <1>2, <1>4 DEF Segment
  <2> HIDE DEF rest, L
  <2>6. \A j \in DOMAIN segs : /\ EndAddress(r[j]) = EndAddress(segs[j])
                               /\ r[j].start_address <= segs[j].start_address
                               /\ r[j].start_address \in Nat
                               /\ r[j].size > 0
    BY <1>2, <1>4, <2>3, <2>4, <2>5, SMTT(30) DEF Separated
  <2>7. ASSUME NEW i \in DOMAIN segs, NEW j \in DOMAIN segs, i < j
        PROVE  EndAddress(r[i]) > r[j].start_address
    <3>1. EndAddress(segs[i]) > segs[j].start_address
      BY <2>7 DEF Separated
    <3> QED BY <2>4, <2>6, <3>1
  <2> QED BY <2>2, <2>6, <2>7 DEF Separated
<1> QED BY <1>3, <1>4

-----------------------------------------------------------------------------
(* The memory manager. *)

MemInv == MemTypeOK /\ MemoryPartition

\* MemoryPartition, in terms of the cells the free list covers.
PartitionView ==
  /\ Covered(free_list) \subseteq 1 .. memsize
  /\ Disjoint(free_list)
  /\ \A p \in Resident : /\ Cells(mem[p]) \subseteq 1 .. memsize
                         /\ Cells(mem[p]) \cap Covered(free_list) = {}
  /\ \A p, q \in Resident : p # q => Cells(mem[p]) \cap Cells(mem[q]) = {}
  /\ \A c \in 1 .. memsize :
       c \in Covered(free_list) \/ \E p \in Resident : c \in Cells(mem[p])

\* The partition, stated on the free list and the address of each process.
LEMMA PartitionViewed ==
  /\ MemoryPartition <=> PartitionView
  /\ MemoryPartition' <=> PartitionView'
<1>1. ASSUME MemoryPartition PROVE PartitionView
  BY <1>1 DEF MemoryPartition, PartitionView, Covered, Disjoint
<1>2. ASSUME PartitionView PROVE MemoryPartition
  BY <1>2 DEF MemoryPartition, PartitionView, Covered, Disjoint
<1>3. ASSUME MemoryPartition' PROVE PartitionView'
  BY <1>3 DEF MemoryPartition, PartitionView, Covered, Disjoint
<1>4. ASSUME PartitionView' PROVE MemoryPartition'
  BY <1>4 DEF MemoryPartition, PartitionView, Covered, Disjoint
<1> QED BY <1>1, <1>2, <1>3, <1>4

\* The fields of a process memory have the types the struct declares.
LEMMA MemFields ==
  ASSUME MemTypeOK, NEW p \in Procs
  PROVE  /\ mem[p] \in ProcessMemory
         /\ mem[p].start_address \in Nat \cup {IN_DISK}
         /\ mem[p].size \in Nat
         /\ mem[p].swap_in_time \in Nat
         /\ mem[p].process_id \in Int
         /\ ~InDisk(p) => mem[p].start_address \in Nat
BY DEF MemTypeOK, ProcessMemory, InDisk

-----------------------------------------------------------------------------
(* Releasing the memory of a process. *)

\* The segment that swapping p out gives back.
Freed(p) == [start_address |-> mem[p].start_address, size |-> mem[p].size]

\* The segment a swap-out builds has the cells of the process.
LEMMA FreedCells ==
  ASSUME MemTypeOK, NEW p \in Resident
  PROVE  /\ Freed(p) \in Segment
         /\ Freed(p).size = mem[p].size
         /\ Cells(Freed(p)) = Cells(mem[p])
<1>1. p \in Procs /\ ~InDisk(p)
  BY DEF Resident
<1> QED BY <1>1, MemFields DEF Freed, Segment, Cells, EndAddress

\* What the swap-out of one process changes (memory-management.c:445-453).
LEMMA ReleaseFields ==
  ASSUME MemTypeOK, NEW p \in Procs, Release(p)
  PROVE  /\ mem' \in [Procs -> ProcessMemory]
         /\ \A q \in Procs : q # p => mem'[q] = mem[q]
         /\ \A q \in Procs : mem'[q].size = mem[q].size
         /\ InDisk(p)'
         /\ Resident' = Resident \ {p}
<1> DEFINE m == [mem[p] EXCEPT !.start_address = IN_DISK, !.swap_in_time = 0]
<1>1. mem' = [mem EXCEPT ![p] = m]
  BY ZenonT(30) DEF Release, MemTypeOK
<1>2. m \in ProcessMemory /\ m.start_address = IN_DISK /\ m.size = mem[p].size
  BY ZenonT(30), MemFields DEF ProcessMemory
<1> HIDE DEF m
<1>3. /\ mem' \in [Procs -> ProcessMemory]
      /\ mem'[p] = m
      /\ \A q \in Procs : q # p => mem'[q] = mem[q]
  BY <1>1, <1>2 DEF MemTypeOK
<1> QED BY <1>2, <1>3 DEF InDisk, Resident

\* Swapping a process out moves its cells from the process to the free list.
LEMMA ReleasePartition ==
  ASSUME MemInv, NEW p \in Resident, Release(p)
  PROVE  free_list' \in Seq(Segment) /\ MemoryPartition'
<1>1. p \in Procs /\ MemTypeOK /\ PartitionView /\ free_list \in Seq(Segment)
  BY PartitionViewed DEF MemInv, MemTypeOK, Resident
<1>2. /\ Freed(p) \in Segment
      /\ Cells(Freed(p)) = Cells(mem[p])
      /\ Cells(Freed(p)) \cap Covered(free_list) = {}
      /\ Disjoint(free_list)
  BY <1>1, FreedCells DEF PartitionView
<1>3. free_list' = AddFreeMemorySegment(Freed(p), free_list)
  BY DEF Release, Freed
<1>4. /\ free_list' \in Seq(Segment)
      /\ Covered(free_list)' = Covered(free_list) \cup Cells(mem[p])
      /\ Disjoint(free_list)'
  BY <1>1, <1>2, <1>3, AddSegmentCovers
<1>5. Resident' = Resident \ {p} /\ \A q \in Resident' : mem'[q] = mem[q]
  BY <1>1, ReleaseFields DEF Resident
<1>6. PartitionView'
  <2>1. (Covered(free_list) \subseteq 1 .. memsize)'
    BY <1>1, <1>4 DEF PartitionView
  <2>2. \A q \in Resident' : /\ Cells(mem'[q]) \subseteq 1 .. memsize
                             /\ Cells(mem'[q]) \cap Covered(free_list') = {}
    BY <1>1, <1>4, <1>5 DEF PartitionView
  <2>3. \A q, s \in Resident' : q # s => Cells(mem'[q]) \cap Cells(mem'[s]) = {}
    BY <1>1, <1>5 DEF PartitionView
  <2>4. \A c \in 1 .. memsize :
          c \in Covered(free_list') \/ \E q \in Resident' : c \in Cells(mem'[q])
    BY <1>1, <1>4, <1>5 DEF PartitionView
  <2> QED BY ZenonT(30), <1>4, <2>1, <2>2, <2>3, <2>4 DEF PartitionView
<1> QED BY <1>4, <1>6, PartitionViewed

\* ... and leaves no two holes side by side.
LEMMA ReleaseSeparated ==
  ASSUME MemInv, HolesSeparated, NEW p \in Resident, mem[p].size > 0, Release(p)
  PROVE  HolesSeparated'
<1>1. MemTypeOK /\ PartitionView /\ free_list \in Seq(Segment)
  BY PartitionViewed DEF MemInv, MemTypeOK
<1>2. /\ Freed(p) \in Segment /\ Freed(p).size > 0
      /\ Cells(Freed(p)) \cap Covered(free_list) = {}
  BY <1>1, FreedCells DEF PartitionView
<1>3. Separated(free_list)
  BY DEF HolesSeparated, Separated
<1>4. free_list' = AddFreeMemorySegment(Freed(p), free_list)
  BY DEF Release, Freed
<1>5. Separated(free_list')
  BY SMTT(30), <1>1, <1>2, <1>3, <1>4, AddSegmentSeparates
<1> QED BY <1>5 DEF HolesSeparated, Separated

-----------------------------------------------------------------------------
(* Placing a process: the last turn of swap_in_process_memory. *)

\* What a successful swap-in changes (memory-management.c:367-394).
LEMMA PlaceFields ==
  ASSUME MemTypeOK, NEW t \in Nat, swapping # None, SwapInReturn(t),
         NEW k, k = FirstFit(mem[swapping].size, free_list)
  PROVE  /\ swapping \in Procs /\ swapping \in Listed
         /\ k \in DOMAIN free_list
         /\ mem[swapping].size <= free_list[k].size
         /\ mem' \in [Procs -> ProcessMemory]
         /\ \A q \in Procs : q # swapping => mem'[q] = mem[q]
         /\ \A q \in Procs : mem'[q].size = mem[q].size
         /\ mem'[swapping].start_address = free_list[k].start_address
         /\ Resident' = Resident \cup {swapping}
         /\ swapping \notin Resident
<1>1. swapping \in Procs /\ swapping \in Listed /\ InDisk(swapping)
  BY DEF MemTypeOK
<1>2. mem[swapping].size \in Nat /\ free_list \in Seq(Segment)
  BY <1>1, MemFields DEF MemTypeOK
<1>3. k \in DOMAIN free_list /\ mem[swapping].size <= free_list[k].size
  BY <1>2, FirstFitFound DEF SwapInReturn
<1>4. free_list[k].start_address \in Nat
  <2>1. free_list[k] \in Segment
    BY <1>2, <1>3
  <2> QED BY <2>1 DEF Segment
<1> DEFINE m == [mem[swapping] EXCEPT !.start_address = free_list[k].start_address,
                                      !.swap_in_time = t]
<1>5. mem' = [mem EXCEPT ![swapping] = m]
  BY ZenonT(30), <1>1 DEF SwapInReturn, MemTypeOK
<1>6. /\ m \in ProcessMemory /\ m.size = mem[swapping].size
      /\ m.start_address = free_list[k].start_address
  BY ZenonT(30), <1>1, <1>4, MemFields DEF ProcessMemory
<1> HIDE DEF m
<1>7. /\ mem' \in [Procs -> ProcessMemory] /\ mem'[swapping] = m
      /\ \A q \in Procs : q # swapping => mem'[q] = mem[q]
  BY <1>1, <1>5, <1>6 DEF MemTypeOK
<1>8. Resident' = Resident \cup {swapping} /\ swapping \notin Resident
  BY <1>1, <1>4, <1>6, <1>7 DEF Resident, InDisk, IN_DISK
<1> QED BY <1>1, <1>3, <1>6, <1>7, <1>8

\* Swapping a process in moves cells from the free list to the process.
LEMMA PlacePartition ==
  ASSUME MemInv, NEW t \in Nat, swapping # None, SwapInReturn(t)
  PROVE  free_list' \in Seq(Segment) /\ MemoryPartition'
<1> DEFINE k == FirstFit(mem[swapping].size, free_list)
           n == mem[swapping].size
           used == [start_address |-> free_list[k].start_address, size |-> n]
<1>1. MemTypeOK /\ PartitionView /\ free_list \in Seq(Segment)
  BY PartitionViewed DEF MemInv, MemTypeOK
<1>2. /\ swapping \in Procs
      /\ k \in DOMAIN free_list
      /\ n <= free_list[k].size
      /\ \A q \in Procs : q # swapping => mem'[q] = mem[q]
      /\ mem'[swapping].size = n
      /\ mem'[swapping].start_address = free_list[k].start_address
      /\ Resident' = Resident \cup {swapping}
      /\ swapping \notin Resident
  BY <1>1, PlaceFields
<1>3. free_list' = OccupySegment(n, free_list, k)
  BY DEF SwapInReturn
<1>4. n \in Nat /\ Disjoint(free_list) /\ Covered(free_list) \subseteq Nat \ {0}
  BY <1>1, <1>2, MemFields DEF PartitionView
<1>5. used = [start_address |-> free_list[k].start_address, size |-> n]
  OBVIOUS
<1>6. Cells(mem'[swapping]) = Cells(used)
  BY <1>2 DEF Cells, EndAddress
<1> HIDE DEF k, n, used
<1>7. /\ free_list' \in Seq(Segment)
      /\ Disjoint(free_list')
      /\ Cells(used) \subseteq Covered(free_list)
      /\ Covered(free_list') = Covered(free_list) \ Cells(used)
  BY SMTT(30), <1>1, <1>2, <1>3, <1>4, <1>5, OccupyCovers
<1>8. \A q \in Resident : q # swapping /\ mem'[q] = mem[q]
  BY <1>2 DEF Resident
<1>9. PartitionView'
  <2>1. Covered(free_list') \subseteq 1 .. memsize
    BY <1>1, <1>7 DEF PartitionView
  <2>2. ASSUME NEW q \in Resident'
        PROVE  /\ Cells(mem'[q]) \subseteq 1 .. memsize
               /\ Cells(mem'[q]) \cap Covered(free_list') = {}
    <3>1. CASE q = swapping
      BY <1>1, <1>7, <1>6, <3>1 DEF PartitionView
    <3>2. CASE q \in Resident
      BY <1>1, <1>7, <1>8, <3>2 DEF PartitionView
    <3> QED BY <1>2, <3>1, <3>2
  <2>3. ASSUME NEW q \in Resident
        PROVE  Cells(mem'[q]) \cap Cells(mem'[swapping]) = {}
    BY SMTT(30), <1>1, <1>7, <1>6, <1>8, <2>3 DEF PartitionView
  <2>4. ASSUME NEW q \in Resident, NEW s \in Resident, q # s
        PROVE  Cells(mem'[q]) \cap Cells(mem'[s]) = {}
    BY <1>1, <1>8, <2>4 DEF PartitionView
  <2>5. \A q, s \in Resident' : q # s => Cells(mem'[q]) \cap Cells(mem'[s]) = {}
    BY <1>2, <2>3, <2>4
  <2>6. ASSUME NEW c \in 1 .. memsize
        PROVE  c \in Covered(free_list') \/ \E q \in Resident' : c \in Cells(mem'[q])
    <3>1. CASE c \in Covered(free_list)
      BY SMTT(30), <1>2, <1>7, <1>6, <3>1
    <3>2. CASE \E q \in Resident : c \in Cells(mem[q])
      BY <1>2, <1>8, <3>2
    <3> QED BY <1>1, <3>1, <3>2 DEF PartitionView
  <2> QED BY ZenonT(30), <1>7, <2>1, <2>2, <2>5, <2>6 DEF PartitionView
<1> QED BY <1>7, <1>9, PartitionViewed

\* ... and leaves no two holes side by side.
LEMMA PlaceSeparated ==
  ASSUME MemInv, HolesSeparated, NEW t \in Nat, swapping # None, SwapInReturn(t)
  PROVE  HolesSeparated'
<1> DEFINE k == FirstFit(mem[swapping].size, free_list)
           n == mem[swapping].size
<1>1. MemTypeOK /\ PartitionView /\ free_list \in Seq(Segment)
  BY PartitionViewed DEF MemInv, MemTypeOK
<1>2. swapping \in Procs /\ k \in DOMAIN free_list /\ n <= free_list[k].size
  BY <1>1, PlaceFields
<1>3. n \in Nat /\ Covered(free_list) \subseteq Nat \ {0} /\ Separated(free_list)
  BY <1>1, <1>2, MemFields DEF PartitionView, HolesSeparated, Separated
<1>4. free_list' = OccupySegment(n, free_list, k)
  BY DEF SwapInReturn
<1> HIDE DEF k, n
<1>5. Separated(free_list')
  BY SMTT(30), <1>1, <1>2, <1>3, <1>4, OccupySeparates
<1> QED BY <1>5 DEF HolesSeparated, Separated

-----------------------------------------------------------------------------
(* The choice of a victim. *)

\* v is a candidate that no resident process among the first n is better than.
BestOf(v, n) ==
  /\ v \in Resident \cup {None}
  /\ \A i \in 1 .. n :
       LET p == process_memories_list[i] IN
       ~InDisk(p) => /\ v # None
                     /\ \/ mem[p].size < mem[v].size
                        \/ /\ mem[p].size = mem[v].size
                           /\ mem[p].swap_in_time >= mem[v].swap_in_time

\* The scan of the list finds the best victim there is: the largest resident
\* process and, among the largest, one in memory for longest; none exactly
\* when nothing is resident.
LEMMA VictimIsBest ==
  ASSUME MemTypeOK, None \notin Procs
  PROVE  BestOf(SwapOutVictim, Len(process_memories_list))
<1> DEFINE N == Len(process_memories_list)
           X == Procs \cup {None}
           step == [w \in X \X (1 .. N) |->
                      NextVictim(w[1], process_memories_list[w[2]])]
           IsLoop(f) == f = [n \in 0 .. N |->
                               IF n = 0 THEN None
                               ELSE NextVictim(f[n - 1], process_memories_list[n])]
           best == CHOOSE f : IsLoop(f)
<1>1. /\ N \in Nat /\ None \in X
      /\ \A n \in 1 .. N : process_memories_list[n] \in Procs
  BY DEF MemTypeOK
<1>2. step \in [X \X (1 .. N) -> X]
  <2>1. ASSUME NEW w \in X \X (1 .. N)
        PROVE  NextVictim(w[1], process_memories_list[w[2]]) \in X
    BY <1>1 DEF NextVictim
  <2> QED BY <2>1
<1>3. PICK f : LoopValue(f, X, None, N, step)
  <2> HIDE DEF step, X, N, IsLoop, best
  <2> QED BY ZenonT(30), <1>1, <1>2, LoopValues
<1>4. ASSUME NEW n \in 1 .. N
      PROVE  f[n] = NextVictim(f[n - 1], process_memories_list[n])
  <2>0. n - 1 \in 0 .. N /\ f \in [0 .. N -> X]
    BY <1>1, <1>3 DEF LoopValue
  <2>1. f[n - 1] \in X /\ f[n] = step[<<f[n - 1], n>>]
    BY <1>3, <2>0, ZenonT(30) DEF LoopValue
  <2>2. <<f[n - 1], n>> \in X \X (1 .. N)
    BY <2>1
  <2> HIDE DEF X
  <2> QED BY <2>1, <2>2
<1>5. IsLoop(f)
  BY <1>1, <1>3, <1>4 DEF LoopValue
<1>6. IsLoop(best) /\ SwapOutVictim = best[N]
  BY <1>5 DEF SwapOutVictim
<1> HIDE DEF best
<1>7. /\ best[0] = None
      /\ \A n \in 1 .. N : best[n] = NextVictim(best[n - 1], process_memories_list[n])
  BY <1>1, <1>6
<1> DEFINE S == {n \in Nat : n <= N => BestOf(best[n], n)}
<1>8. 0 \in S
  BY <1>7 DEF BestOf
<1>9. ASSUME NEW n \in Nat, n \in S PROVE n + 1 \in S
  <2> SUFFICES ASSUME n + 1 <= N PROVE BestOf(best[n + 1], n + 1)
    OBVIOUS
  <2> DEFINE p == process_memories_list[n + 1]
             v == best[n]
  <2>1. BestOf(v, n) /\ p \in Procs /\ n + 1 \in 1 .. N
    BY <1>1, <1>9
  <2>2. best[n + 1] = NextVictim(v, p)
    <3>1. (n + 1) - 1 = n
      OBVIOUS
    <3> QED BY <1>7, <2>1, <3>1
  <2>3. \A i \in 1 .. n + 1 : i \in 1 .. n \/ i = n + 1
    OBVIOUS
  <2>4. \A i \in 1 .. n : process_memories_list[i] \in Procs
    BY <1>1, <2>1
  <2> HIDE DEF p, v
  <2>5. v # None => v \in Procs
    BY <2>1 DEF BestOf, Resident
  <2>6. CASE ~InDisk(p) /\ (v = None \/ BetterVictim(p, v))
    <3>1. best[n + 1] = p /\ p \in Resident /\ p # None
      BY <2>1, <2>2, <2>6 DEF NextVictim, Resident
    <3>2. ASSUME NEW i \in 1 .. n, ~InDisk(process_memories_list[i])
          PROVE  LET q == process_memories_list[i] IN
                 \/ mem[q].size < mem[p].size
                 \/ /\ mem[q].size = mem[p].size
                    /\ mem[q].swap_in_time >= mem[p].swap_in_time
      <4> DEFINE q == process_memories_list[i]
      <4>1. /\ v # None /\ BetterVictim(p, v)
            /\ \/ mem[q].size < mem[v].size
               \/ /\ mem[q].size = mem[v].size
                  /\ mem[q].swap_in_time >= mem[v].swap_in_time
        BY <2>1, <2>6, <3>2 DEF BestOf
      <4>2. q \in Procs /\ v \in Procs
        BY <2>4, <2>5, <4>1
      <4>3. /\ mem[q].size \in Nat /\ mem[q].swap_in_time \in Nat
            /\ mem[v].size \in Nat /\ mem[v].swap_in_time \in Nat
            /\ mem[p].size \in Nat /\ mem[p].swap_in_time \in Nat
        BY <2>1, <4>2, MemFields
      <4> HIDE DEF q
      <4>4. \/ mem[q].size < mem[p].size
            \/ /\ mem[q].size = mem[p].size
               /\ mem[q].swap_in_time >= mem[p].swap_in_time
        BY <4>1, <4>3 DEF BetterVictim
      <4> QED BY <4>4 DEF q
    <3>3. mem[p].size \in Nat /\ mem[p].swap_in_time \in Nat
      BY <2>1, MemFields
    <3> QED BY <2>3, <3>1, <3>2, <3>3 DEF BestOf, p
  <2>7. CASE ~(~InDisk(p) /\ (v = None \/ BetterVictim(p, v)))
    <3>1. best[n + 1] = v
      BY <2>2, <2>7 DEF NextVictim
    <3>2. ~InDisk(p) => /\ v # None
                        /\ \/ mem[p].size < mem[v].size
                           \/ /\ mem[p].size = mem[v].size
                              /\ mem[p].swap_in_time >= mem[v].swap_in_time
      BY <2>1, <2>5, <2>7, MemFields DEF BetterVictim
    <3> QED BY <2>1, <2>3, <3>1, <3>2 DEF BestOf, p
  <2> QED BY <2>6, <2>7
<1>10. N \in S
  <2> HIDE DEF S
  <2> QED BY <1>1, <1>8, <1>9, NatSetInduction
<1> QED BY <1>1, <1>6, <1>10

\* Something is evicted exactly when something is resident.
LEMMA VictimResident ==
  ASSUME MemTypeOK, None \notin Procs
  PROVE  /\ SwapOutVictim # None => SwapOutVictim \in Resident
         /\ SwapOutVictim = None => Resident = {}
<1>1. BestOf(SwapOutVictim, Len(process_memories_list))
  BY VictimIsBest
<1>2. \A p \in Resident : \E i \in 1 .. Len(process_memories_list) :
        process_memories_list[i] = p
  BY DEF MemTypeOK, Listed, Range
<1> QED BY <1>1, <1>2 DEF BestOf, Resident

-----------------------------------------------------------------------------
(* Each operation keeps the types and the partition. *)

\* What becomes of MemTypeOK when a process is swapped out.
LEMMA ReleaseType ==
  ASSUME MemInv, NEW p \in Resident, Release(p),
         UNCHANGED <<process_memories_list, swapping, fault>>
  PROVE  MemInv'
<1>1. MemTypeOK /\ p \in Procs
  BY DEF MemInv, Resident
<1>2. /\ mem' \in [Procs -> ProcessMemory]
      /\ \A q \in Procs : q # p => mem'[q] = mem[q]
      /\ InDisk(p)'
      /\ Resident' = Resident \ {p}
  BY <1>1, ReleaseFields
<1>3. free_list' \in Seq(Segment) /\ MemoryPartition'
  BY ReleasePartition
<1>4. swapping' # None => InDisk(swapping)'
  BY <1>1, <1>2 DEF MemTypeOK, InDisk
<1>5. MemTypeOK'
  BY SMTT(30), <1>1, <1>2, <1>3, <1>4 DEF MemTypeOK, Listed
<1> QED BY <1>3, <1>5 DEF MemInv

\* add_new_process_memory keeps the types and the partition.
LEMMA AddNewProcessMemoryInv ==
  ASSUME MemInv, NEW p \in Procs, NEW size \in Nat, NEW pid \in Int,
         AddNewProcessMemory(p, size, pid)
  PROVE  /\ MemInv'
         /\ Listed' = Listed \cup {p}
         /\ Resident' = Resident
         /\ \A q \in Procs : q # p => mem'[q] = mem[q]
         /\ mem'[p].size = size
<1> DEFINE L == Len(process_memories_list)
<1>1. MemTypeOK /\ process_memories_list \in Seq(Procs) /\ p \notin Listed
  BY DEF MemInv, MemTypeOK, AddNewProcessMemory
<1>2. /\ process_memories_list' \in Seq(Procs)
      /\ DOMAIN process_memories_list' = 1 .. L + 1
      /\ DOMAIN process_memories_list = 1 .. L /\ L \in Nat
      /\ \A i \in 1 .. L : process_memories_list'[i] = process_memories_list[i]
      /\ process_memories_list'[L + 1] = p
  BY <1>1 DEF AddNewProcessMemory
<1>3. IsInjective(process_memories_list')
  <2>1. \A i \in 1 .. L : process_memories_list[i] # p
    BY <1>1, <1>2 DEF Listed, Range
  <2>2. \A i \in DOMAIN process_memories_list' : i \in 1 .. L \/ i = L + 1
    BY <1>2
  <2> HIDE DEF L
  <2> QED BY SMTT(30), <1>1, <1>2, <2>1, <2>2 DEF MemTypeOK, IsInjective
<1>4. Listed' = Listed \cup {p}
  <2>1. 1 .. L + 1 = (1 .. L) \cup {L + 1}
    BY <1>2
  <2> HIDE DEF L
  <2> QED BY <1>2, <2>1 DEF Listed, Range
<1>5. NewProcessMemory(size, pid) \in ProcessMemory
  BY DEF NewProcessMemory, ProcessMemory
<1>6. /\ mem' \in [Procs -> ProcessMemory]
      /\ mem'[p] = NewProcessMemory(size, pid)
      /\ \A q \in Procs : q # p => mem'[q] = mem[q]
  BY <1>1, <1>5 DEF AddNewProcessMemory, MemTypeOK
<1>7. InDisk(p)' /\ InDisk(p) /\ mem'[p].size = size
  BY <1>1, <1>6 DEF NewProcessMemory, InDisk, MemTypeOK, Resident
<1>8. Resident' = Resident /\ \A q \in Resident : mem'[q] = mem[q]
  BY <1>6, <1>7 DEF Resident, InDisk
<1>9. MemTypeOK'
  <2>1. swapping' # None => swapping' \in Listed' /\ InDisk(swapping)'
    BY <1>1, <1>4, <1>6 DEF AddNewProcessMemory, MemTypeOK, InDisk
  <2> QED BY SMTT(30), <1>1, <1>2, <1>3, <1>4, <1>6, <1>8, <2>1
          DEF AddNewProcessMemory, MemTypeOK
<1>10. MemoryPartition'
  <2>1. PartitionView /\ free_list' = free_list
    BY PartitionViewed DEF MemInv, AddNewProcessMemory
  <2>2. PartitionView'
    BY <1>8, <2>1 DEF PartitionView
  <2> QED BY <2>2, PartitionViewed
<1> QED BY SMTT(30), <1>4, <1>6, <1>7, <1>8, <1>9, <1>10 DEF MemInv

\* swap_out_by_process_memory keeps the types and the partition.
LEMMA SwapOutByProcessMemoryInv ==
  ASSUME MemInv, NEW p \in Procs, SwapOutByProcessMemory(p)
  PROVE  MemInv'
<1>1. CASE InDisk(p)
  <2>1. UNCHANGED memVars
    BY <1>1 DEF SwapOutByProcessMemory, memVars
  <2> QED BY <2>1 DEF MemInv, MemTypeOK, MemoryPartition, memVars, Listed,
                      Resident, InDisk
<1>2. CASE ~InDisk(p)
  BY <1>2, ReleaseType DEF SwapOutByProcessMemory, Resident
<1> QED BY SMTT(30), <1>1, <1>2

\* Unlinking the object at position i leaves the others linked, once each.
LEMMA UnlinkedList ==
  ASSUME MemTypeOK, NEW i \in DOMAIN process_memories_list,
         process_memories_list' = UnlinkAt(process_memories_list, i)
  PROVE  /\ process_memories_list' \in Seq(Procs)
         /\ IsInjective(process_memories_list')
         /\ Listed' = Listed \ {process_memories_list[i]}
<1> DEFINE L == Len(process_memories_list)
           at(n) == IF n < i THEN n ELSE n + 1
<1>1. process_memories_list \in Seq(Procs) /\ IsInjective(process_memories_list)
  BY DEF MemTypeOK
<1>2. /\ process_memories_list' \in Seq(Procs)
      /\ DOMAIN process_memories_list' = 1 .. L - 1
      /\ DOMAIN process_memories_list = 1 .. L /\ L \in Nat
      /\ \A n \in 1 .. L - 1 :
           process_memories_list'[n] = process_memories_list[at(n)]
  <2>1. i \in 1 .. L /\ DOMAIN process_memories_list = 1 .. L /\ L \in Nat
    BY SMTT(30), <1>1
  <2>2. /\ process_memories_list' \in Seq(Procs)
        /\ Len(process_memories_list') = L - 1
        /\ \A n \in 1 .. L - 1 :
             process_memories_list'[n] =
               IF n < i THEN process_memories_list[n]
               ELSE process_memories_list[n + 1]
    BY ZenonT(30), <1>1, <2>1, UnlinkAtElements
  <2>3. DOMAIN process_memories_list' = 1 .. L - 1
    BY <2>2
  <2> QED BY <2>1, <2>2, <2>3
<1>3. /\ \A n \in 1 .. L - 1 : at(n) \in 1 .. L /\ at(n) # i
      /\ \A m, n \in 1 .. L - 1 : at(m) = at(n) => m = n
  BY <1>2
<1>4. ASSUME NEW m \in 1 .. L, m # i PROVE \E n \in 1 .. L - 1 : at(n) = m
  <2>1. CASE m < i
    BY <1>2, <2>1
  <2>2. CASE m > i
    <3>1. m - 1 \in 1 .. L - 1 /\ at(m - 1) = m
      BY <1>2, <2>2
    <3> QED BY <3>1
  <2> QED BY <1>2, <1>4, <2>1, <2>2
<1> HIDE DEF at, L
<1>5. IsInjective(process_memories_list')
  BY <1>1, <1>2, <1>3 DEF IsInjective
<1>6. \A q \in Listed' : q \in Listed /\ q # process_memories_list[i]
  BY <1>1, <1>2, <1>3 DEF IsInjective, Listed, Range
<1>7. \A q \in Listed : q # process_memories_list[i] => q \in Listed'
  BY SMTT(30), <1>2, <1>4 DEF Listed, Range
<1> QED BY SMTT(30), <1>2, <1>5, <1>6, <1>7

\* remove_by_process_id keeps the types and the partition.
LEMMA RemoveByProcessIdInv ==
  ASSUME MemInv, swapping = None, NEW pid, RemoveByProcessId(pid)
  PROVE  MemInv' /\ Listed' \subseteq Listed
<1>1. MemTypeOK /\ MemoryPartition
  BY DEF MemInv
<1>2. PICK i \in DOMAIN process_memories_list :
        LET p == process_memories_list[i] IN
        /\ IF InDisk(p) THEN UNCHANGED <<free_list, mem>> ELSE Release(p)
        /\ process_memories_list' = UnlinkAt(process_memories_list, i)
        /\ UNCHANGED <<swapping, fault>>
  BY DEF RemoveByProcessId
<1> DEFINE p == process_memories_list[i]
<1>3. p \in Procs
  BY <1>1 DEF MemTypeOK
<1>4. /\ process_memories_list' \in Seq(Procs)
      /\ IsInjective(process_memories_list')
      /\ Listed' = Listed \ {p}
  BY <1>1, <1>2, UnlinkedList
<1> HIDE DEF p
<1>5. CASE InDisk(p)
  <2>1. free_list' = free_list /\ mem' = mem
    BY <1>2, <1>5 DEF p
  <2>2. MemTypeOK'
    BY SMTT(30), <1>1, <1>2, <1>4, <1>5, <2>1 DEF MemTypeOK, Resident, InDisk
  <2>3. MemoryPartition'
    BY <1>1, <2>1 DEF MemoryPartition, Resident, InDisk
  <2> QED BY <1>4, <2>2, <2>3 DEF MemInv
<1>6. CASE ~InDisk(p)
  <2>1. Release(p) /\ p \in Resident
    BY <1>2, <1>3, <1>6 DEF p, Resident
  <2>2. mem' \in [Procs -> ProcessMemory] /\ Resident' = Resident \ {p}
    BY <1>1, <1>3, <2>1, ReleaseFields
  <2>3. free_list' \in Seq(Segment) /\ MemoryPartition'
    BY <2>1, ReleasePartition
  <2>4. MemTypeOK'
    BY <1>1, <1>2, <1>4, <2>2, <2>3 DEF MemTypeOK
  <2> QED BY <1>4, <2>3, <2>4 DEF MemInv
<1> QED BY <1>5, <1>6

\* A call of swap_in_process_memory keeps the types and the partition.
LEMMA SwapInCallInv ==
  ASSUME MemInv, NEW p \in Listed, SwapInCall(p)
  PROVE  MemInv'
<1>1. p \in Procs
  BY DEF MemInv, MemTypeOK, Listed, Range
<1>2. MemTypeOK'
  BY <1>1 DEF MemInv, SwapInCall, MemTypeOK, Listed, Resident, InDisk
<1>3. MemoryPartition'
  BY DEF MemInv, SwapInCall, MemoryPartition, Resident, InDisk
<1> QED BY <1>2, <1>3 DEF MemInv

\* Each turn of a swap-in, eviction or placement, keeps types and partition.
LEMMA SwapInStepInv ==
  ASSUME MemInv, None \notin Procs, NEW t \in Nat, SwapInStep(t)
  PROVE  MemInv'
<1>1. MemTypeOK /\ MemoryPartition /\ swapping # None
  BY DEF MemInv, SwapInStep
<1>2. CASE SwapInReturn(t)
  <2>1. free_list' \in Seq(Segment) /\ MemoryPartition'
    BY <1>1, <1>2, PlacePartition
  <2>2. /\ swapping \in Listed /\ mem' \in [Procs -> ProcessMemory]
        /\ Resident' = Resident \cup {swapping}
    BY <1>1, <1>2, PlaceFields
  <2>3. MemTypeOK'
    BY <1>1, <1>2, <2>1, <2>2 DEF SwapInReturn, MemTypeOK, Listed
  <2> QED BY <2>1, <2>3 DEF MemInv
<1>3. CASE SwapOutProcessMemory
  BY SMTT(30), <1>1, <1>3, VictimResident, ReleaseType DEF SwapOutProcessMemory
<1>4. CASE SwapOutUninitialised
  BY <1>1, <1>4 DEF SwapOutUninitialised, MemInv, MemTypeOK, MemoryPartition,
                    Listed, Resident, InDisk
<1> QED BY <1>2, <1>3, <1>4 DEF SwapInStep

-----------------------------------------------------------------------------
(* Each operation keeps the holes apart when no process is empty. *)

SizedInv ==
  /\ HolesSeparated
  /\ \A p \in Listed : mem[p].size > 0
  /\ fault => swapping # None /\ mem[swapping].size > memsize

\* Once nothing is resident, the consolidated free list is one hole.
LEMMA EmptyMemoryIsOneHole ==
  ASSUME MemInv, HolesSeparated, Resident = {}, memsize \in Nat \ {0}
  PROVE  \E k \in DOMAIN free_list : free_list[k].size = memsize
<1>1. PartitionView /\ free_list \in Seq(Segment) /\ Separated(free_list)
  BY PartitionViewed DEF MemInv, MemTypeOK, HolesSeparated, Separated
<1>2. \A k \in DOMAIN free_list : /\ free_list[k].start_address \in Nat
                                  /\ free_list[k].size \in Nat
                                  /\ free_list[k].size > 0
  <2>1. \A k \in DOMAIN free_list : free_list[k] \in Segment
    BY <1>1
  <2> QED BY <1>1, <2>1 DEF Segment, Separated
<1>3. \A c \in 1 .. memsize :
        \E k \in DOMAIN free_list : c \in Cells(free_list[k])
  BY <1>1 DEF PartitionView, Covered
<1>4. \A k \in DOMAIN free_list : /\ free_list[k].start_address <= memsize
                                  /\ EndAddress(free_list[k]) >= 0
                                  /\ EndAddress(free_list[k]) \in Int
  <2> TAKE k \in DOMAIN free_list
  <2>1. Cells(free_list[k]) \subseteq 1 .. memsize
    BY <1>1 DEF PartitionView, Covered
  <2>2. /\ free_list[k].start_address \in Cells(free_list[k])
        /\ EndAddress(free_list[k]) + 1 \in Cells(free_list[k])
        /\ EndAddress(free_list[k]) \in Int
    BY <1>2 DEF Cells, EndAddress
  <2>3. /\ free_list[k].start_address \in 1 .. memsize
        /\ EndAddress(free_list[k]) + 1 \in 1 .. memsize
    BY <2>1, <2>2
  <2> QED BY <2>2, <2>3
<1>5. PICK j \in DOMAIN free_list : memsize \in Cells(free_list[j])
  BY <1>3
<1>6. free_list[j].start_address = memsize
  BY <1>2, <1>4, <1>5 DEF Cells
<1> DEFINE e == EndAddress(free_list[j])
<1>7. ASSUME e # 0 PROVE FALSE
  <2>1. e \in 1 .. memsize /\ e < memsize
    BY SMTT(30), <1>2, <1>4, <1>6, <1>7 DEF EndAddress
  <2>2. PICK i \in DOMAIN free_list : e \in Cells(free_list[i])
    BY <1>3, <2>1
  <2>3. e <= free_list[i].start_address /\ EndAddress(free_list[i]) < e
    BY <1>2, <1>4, <2>1, <2>2 DEF Cells
  <2>4. i # j
    BY <1>4, <2>3
  <2>5. CASE j < i
    <3>1. e > free_list[i].start_address
      BY <1>1, <2>5 DEF Separated
    <3> QED BY SMTT(30), <1>2, <1>4, <2>3, <3>1
  <2>6. CASE i < j
    <3>1. EndAddress(free_list[i]) > memsize
      BY <1>1, <1>6, <2>6 DEF Separated
    <3> QED BY <1>4, <2>1, <2>3, <3>1
  <2>7. i \in Nat /\ j \in Nat
    BY <1>1
  <2> QED BY SMTT(30), <2>4, <2>5, <2>6, <2>7
<1>8. free_list[j].size = memsize
  BY <1>2, <1>6, <1>7 DEF EndAddress
<1> QED BY <1>8

\* add_new_process_memory keeps the holes apart if the process is not empty.
LEMMA AddNewProcessMemorySized ==
  ASSUME MemInv, SizedInv, NEW p \in Procs, NEW size \in Nat \ {0},
         NEW pid \in Int, AddNewProcessMemory(p, size, pid)
  PROVE  SizedInv'
<1>1. /\ Listed' = Listed \cup {p} /\ mem'[p].size = size
      /\ \A q \in Procs : q # p => mem'[q] = mem[q]
  BY AddNewProcessMemoryInv
<1>2. /\ Listed \subseteq Procs /\ p \notin Listed
      /\ swapping' = swapping /\ fault' = fault /\ free_list' = free_list
  BY DEF AddNewProcessMemory, MemInv, MemTypeOK, Listed, Range
<1>3. HolesSeparated'
  BY <1>2 DEF SizedInv, HolesSeparated
<1>4. \A q \in Listed' : mem'[q].size > 0
  BY <1>1, <1>2 DEF SizedInv
<1>5. fault' => swapping' # None /\ mem'[swapping'].size > memsize
  <2>1. swapping # None => swapping \in Listed
    BY DEF MemInv, MemTypeOK
  <2> QED BY <1>1, <1>2, <2>1 DEF SizedInv
<1> QED BY <1>3, <1>4, <1>5 DEF SizedInv

\* What becomes of SizedInv when a process is swapped out.
LEMMA ReleaseSized ==
  ASSUME MemInv, SizedInv, NEW p \in Resident, Release(p),
         UNCHANGED <<swapping, fault>>, Listed' \subseteq Listed
  PROVE  SizedInv'
<1>1. MemTypeOK /\ p \in Procs /\ p \in Listed /\ Listed \subseteq Procs
  BY DEF MemInv, MemTypeOK, Resident, Listed, Range
<1>2. \A q \in Procs : mem'[q].size = mem[q].size
  BY <1>1, ReleaseFields
<1>3. HolesSeparated'
  BY <1>1, ReleaseSeparated DEF SizedInv
<1>4. \A q \in Listed' : mem'[q].size > 0
  BY <1>1, <1>2 DEF SizedInv
<1>5. fault' => swapping' # None /\ mem'[swapping'].size > memsize
  BY <1>1, <1>2 DEF SizedInv, MemTypeOK
<1> QED BY SMTT(30), <1>3, <1>4, <1>5 DEF SizedInv

\* swap_out_by_process_memory keeps the holes apart.
LEMMA SwapOutByProcessMemorySized ==
  ASSUME MemInv, SizedInv, NEW p \in Procs, SwapOutByProcessMemory(p)
  PROVE  SizedInv'
<1>1. CASE InDisk(p)
  BY <1>1 DEF SwapOutByProcessMemory, SizedInv, HolesSeparated, Listed
<1>2. CASE ~InDisk(p)
  <2>1. Listed' \subseteq Listed
    BY DEF SwapOutByProcessMemory, Listed
  <2> QED BY <1>2, <2>1, ReleaseSized DEF SwapOutByProcessMemory, Resident
<1> QED BY <1>1, <1>2

\* remove_by_process_id keeps the holes apart.
LEMMA RemoveByProcessIdSized ==
  ASSUME MemInv, SizedInv, swapping = None, NEW pid, RemoveByProcessId(pid)
  PROVE  SizedInv'
<1>1. Listed' \subseteq Listed
  BY RemoveByProcessIdInv
<1>2. PICK i \in DOMAIN process_memories_list :
        LET p == process_memories_list[i] IN
        /\ IF InDisk(p) THEN UNCHANGED <<free_list, mem>> ELSE Release(p)
        /\ UNCHANGED <<swapping, fault>>
  BY DEF RemoveByProcessId
<1> DEFINE p == process_memories_list[i]
<1>3. p \in Procs
  BY DEF MemInv, MemTypeOK
<1> HIDE DEF p
<1>4. CASE InDisk(p)
  <2>1. UNCHANGED <<free_list, mem, swapping, fault>>
    BY <1>2, <1>4 DEF p
  <2> QED BY <1>1, <2>1 DEF SizedInv, HolesSeparated
<1>5. CASE ~InDisk(p)
  <2>1. Release(p) /\ p \in Resident /\ UNCHANGED <<swapping, fault>>
    BY <1>2, <1>3, <1>5 DEF p, Resident
  <2> QED BY <1>1, <2>1, ReleaseSized
<1> QED BY <1>4, <1>5

\* A call of swap_in_process_memory leaves the free list alone.
LEMMA SwapInCallSized ==
  ASSUME SizedInv, NEW p \in Listed, SwapInCall(p)
  PROVE  SizedInv'
BY DEF SizedInv, HolesSeparated, SwapInCall, Listed

\* Each turn of a swap-in keeps the holes apart.
LEMMA SwapInStepSized ==
  ASSUME MemInv, SizedInv, MemoryAssumption, NEW t \in Nat, SwapInStep(t)
  PROVE  SizedInv'
<1>1. /\ MemTypeOK /\ swapping # None /\ ~fault
      /\ swapping \in Procs /\ Listed \subseteq Procs
  BY DEF MemInv, MemTypeOK, SwapInStep, Listed, Range
<1>2. CASE SwapInReturn(t)
  <2>1. HolesSeparated'
    BY <1>1, <1>2, PlaceSeparated DEF SizedInv
  <2>2. \A q \in Procs : mem'[q].size = mem[q].size
    BY <1>1, <1>2, PlaceFields
  <2>3. ~fault' /\ Listed' = Listed
    BY <1>1, <1>2 DEF SwapInReturn, Listed
  <2> QED BY SMTT(30), <1>1, <2>1, <2>2, <2>3 DEF SizedInv
<1>3. CASE SwapOutProcessMemory
  <2>1. Listed' \subseteq Listed
    BY <1>3 DEF SwapOutProcessMemory, Listed
  <2>2. SwapOutVictim \in Resident
    BY SMTT(30), <1>1, <1>3, VictimResident DEF SwapOutProcessMemory, MemoryAssumption
  <2> QED BY SMTT(30), <1>3, <2>1, <2>2, ReleaseSized DEF SwapOutProcessMemory
<1>4. CASE SwapOutUninitialised
  <2>1. Resident = {}
    BY <1>1, <1>4, VictimResident DEF SwapOutUninitialised, MemoryAssumption
  <2>2. PICK k \in DOMAIN free_list : free_list[k].size = memsize
    BY <2>1, EmptyMemoryIsOneHole DEF SizedInv, MemoryAssumption
  <2>3. mem[swapping].size > memsize
    BY SMTT(30), <1>1, <1>4, <2>2, MemFields DEF SwapOutUninitialised, Fits, MemoryAssumption
  <2> QED BY <1>1, <1>4, <2>3
          DEF SwapOutUninitialised, SizedInv, HolesSeparated, Listed
<1> QED BY <1>2, <1>3, <1>4 DEF SwapInStep

-----------------------------------------------------------------------------
(* The start, and steps that leave the memory manager alone. *)

\* The manager starts with one hole: the types and the partition hold.
LEMMA InitMemInv ==
  ASSUME MemInit, MemoryAssumption
  PROVE  MemInv
<1>1. Resident = {} /\ Listed = {}
  BY DEF MemInit, Resident, InDisk, NewProcessMemory, Listed, Range
<1>2. mem \in [Procs -> ProcessMemory]
  BY DEF MemInit, NewProcessMemory, ProcessMemory, IN_DISK
<1>3. [start_address |-> memsize, size |-> memsize] \in Segment
  BY DEF MemoryAssumption, Segment
<1>4. /\ free_list \in Seq(Segment) /\ DOMAIN free_list = {1}
      /\ free_list[1] = [start_address |-> memsize, size |-> memsize]
  BY <1>3 DEF MemInit, NewFreeMemorySegmentsList
<1>5. MemTypeOK
  <2>1. process_memories_list \in Seq(Procs) /\ IsInjective(process_memories_list)
    BY DEF MemInit, IsInjective
  <2> QED BY ZenonT(30), <1>1, <1>2, <1>4, <2>1 DEF MemTypeOK, MemInit
<1>6. Cells(free_list[1]) = 1 .. memsize
  BY <1>4 DEF Cells, EndAddress, MemoryAssumption
<1>7. MemoryPartition
  BY <1>1, <1>4, <1>6 DEF MemoryPartition
<1> QED BY <1>5, <1>7 DEF MemInv

\* The manager starts with one hole: no two holes touch.
LEMMA InitSizedInv ==
  ASSUME MemInit, MemoryAssumption
  PROVE  SizedInv
<1>1. Listed = {} /\ ~fault
  BY DEF MemInit, Listed, Range
<1>2. DOMAIN free_list = {1} /\ free_list[1].size = memsize
  BY DEF MemInit, NewFreeMemorySegmentsList
<1>3. HolesSeparated
  BY <1>2 DEF HolesSeparated, MemoryAssumption
<1> QED BY <1>1, <1>3 DEF SizedInv

\* A step that leaves the manager alone keeps its invariants.
LEMMA StutterMemInv ==
  ASSUME UNCHANGED memVars
  PROVE  (MemInv => MemInv') /\ (SizedInv => SizedInv')
<1>1. MemTypeOK => MemTypeOK'
  BY DEF memVars, MemTypeOK, Listed, Resident, InDisk
<1>2. MemoryPartition => MemoryPartition'
  BY DEF memVars, MemoryPartition, Resident, InDisk
<1>3. SizedInv => SizedInv'
  BY DEF memVars, SizedInv, HolesSeparated, Listed
<1> QED BY <1>1, <1>2, <1>3 DEF MemInv
=============================================================================
