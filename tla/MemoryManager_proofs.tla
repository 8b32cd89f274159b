------------------------ MODULE MemoryManager_proofs ------------------------
(****************************************************************************)
(* Proofs about MemoryManager, for every heap, header size and request.     *)
(****************************************************************************)
EXTENDS MemoryManager, TLAPS

USE HeapAssumption

\* A map of headers in which every header is well formed and the list is
\* the tiling of the heap.
Shape(m) ==
  /\ m \in [DOMAIN m -> MemoryChunk]
  /\ DOMAIN m \subseteq Nat
  /\ Tiles(m)
  /\ Linked(m)

----------------------------------------------------------------------------
\* The list's geometry.

\* No header is at address 0, so NULL is never a chunk.
LEMMA NullIsNoChunk ==
  ASSUME NEW m, Shape(m)
  PROVE  NULL \notin DOMAIN m
BY DEF Shape, Tiles, NULL, EndOf

\* The chunk behind starts where the one in front ends.
LEMMA NextIsBehind ==
  ASSUME NEW m, Shape(m), NEW c \in DOMAIN m, m[c].next # NULL
  PROVE  /\ m[c].next \in DOMAIN m
         /\ m[c].next = EndOf(m, c)
         /\ m[c].next > c
         /\ m[m[c].next].prev = c
<1>1. m[c] \in MemoryChunk /\ c \in Nat
  BY DEF Shape
<1>2. /\ m[c].next = IF EndOf(m, c) = HeapEnd THEN NULL ELSE EndOf(m, c)
      /\ m[c].next \in DOMAIN m /\ m[m[c].next].prev = c
  BY DEF Shape, Linked
<1> QED
  BY <1>1, <1>2 DEF MemoryChunk, EndOf

\* What n, the list in which c has absorbed e, holds of each header of m.
Absorbed(m, c, e, n) ==
  /\ DOMAIN n = DOMAIN m \ {e}
  /\ c \in DOMAIN n /\ e # c /\ m[e].next # e /\ m[e].next # c
  /\ n[c] = [next |-> m[e].next, prev |-> m[c].prev,
             allocated |-> m[c].allocated,
             size |-> m[c].size + m[e].size + H]
  /\ m[e].next # NULL =>
       /\ m[e].next \in DOMAIN n
       /\ n[m[e].next] = [next |-> m[m[e].next].next, prev |-> c,
                          allocated |-> m[m[e].next].allocated,
                          size |-> m[m[e].next].size]
  /\ \A d \in DOMAIN n : d # c /\ d # m[e].next => n[d] = m[d]

\* What Absorb makes of each header.
LEMMA AbsorbFields ==
  ASSUME NEW m, Shape(m), NEW c \in DOMAIN m, m[c].next # NULL
  PROVE  Absorbed(m, c, m[c].next, Absorb(m, c, m[c].next))
<1> SUFFICES ASSUME NEW e, e = m[c].next, NEW n, n = Absorb(m, c, e)
    PROVE  Absorbed(m, c, e, n)
  OBVIOUS
<1>1. /\ e \in DOMAIN m /\ e > c
      /\ m[c] \in MemoryChunk /\ m[e] \in MemoryChunk
      /\ c \in Nat /\ e \in Nat /\ c # NULL
  BY NextIsBehind, NullIsNoChunk DEF Shape
<1>2. m[e].next # NULL => /\ m[e].next \in DOMAIN m /\ m[e].next > e
                          /\ m[m[e].next] \in MemoryChunk
  BY <1>1, NextIsBehind DEF Shape
<1>3. m[e].next # e /\ m[e].next # c /\ e # c
  BY <1>1, <1>2 DEF NULL
<1>4. DOMAIN n = DOMAIN m \ {e} /\ c \in DOMAIN n
  BY <1>1, <1>3 DEF Absorb
<1>5. n[c] = [m[c] EXCEPT !.next = m[e].next, !.size = @ + m[e].size + H]
  BY <1>4 DEF Absorb
<1>6. n[c] = [next |-> m[e].next, prev |-> m[c].prev,
              allocated |-> m[c].allocated, size |-> m[c].size + m[e].size + H]
  BY <1>1, <1>5 DEF MemoryChunk
<1>7. ASSUME m[e].next # NULL
      PROVE  /\ m[e].next \in DOMAIN n
             /\ n[m[e].next] = [m[m[e].next] EXCEPT !.prev = c]
  BY <1>2, <1>3, <1>4, <1>7 DEF Absorb
<1>8. m[e].next # NULL =>
        n[m[e].next] = [next |-> m[m[e].next].next, prev |-> c,
                        allocated |-> m[m[e].next].allocated,
                        size |-> m[m[e].next].size]
  BY <1>2, <1>7 DEF MemoryChunk
<1>9. \A d \in DOMAIN n : d # c /\ d # m[e].next => n[d] = m[d]
  BY <1>4 DEF Absorb
<1> QED
  BY <1>3, <1>4, <1>6, <1>7, <1>8, <1>9 DEF Absorbed

\* The chunk that absorbs its successor covers exactly what both covered, and
\* no other chunk moves.
LEMMA AbsorbExtents ==
  ASSUME NEW m, Shape(m), NEW c \in DOMAIN m, m[c].next # NULL
  PROVE  /\ EndOf(Absorb(m, c, m[c].next), c) = EndOf(m, m[c].next)
         /\ EndOf(m, c) = m[c].next
         /\ \A d \in DOMAIN m \ {c, m[c].next} :
              EndOf(Absorb(m, c, m[c].next), d) = EndOf(m, d)
<1> DEFINE e == m[c].next
           n == Absorb(m, c, e)
           after == m[e].next
<1>1. e \in DOMAIN m /\ e = EndOf(m, c)
  BY NextIsBehind
<1>2. m[c] \in MemoryChunk /\ m[e] \in MemoryChunk /\ c \in Nat /\ e \in Nat
  BY <1>1 DEF Shape
<1>0. Absorbed(m, c, e, n)
  BY AbsorbFields
<1>3. /\ DOMAIN n = DOMAIN m \ {e}
      /\ n[c] = [next |-> after, prev |-> m[c].prev,
                 allocated |-> m[c].allocated,
                 size |-> m[c].size + m[e].size + H]
      /\ after # NULL =>
           n[after] = [next |-> m[after].next, prev |-> c,
                       allocated |-> m[after].allocated,
                       size |-> m[after].size]
      /\ \A d \in DOMAIN n : d # c /\ d # after => n[d] = m[d]
  BY <1>0 DEF Absorbed
<1>4. NULL \notin DOMAIN m
  BY NullIsNoChunk
<1> HIDE DEF n, after
<1>5. n[c].size = m[c].size + m[e].size + H
  BY <1>3
<1>6. \A d \in DOMAIN n : d # c => n[d].size = m[d].size
  BY <1>3, <1>4
<1>7. /\ EndOf(n, c) = EndOf(m, e)
      /\ \A d \in DOMAIN m \ {c, e} : EndOf(n, d) = EndOf(m, d)
  BY <1>1, <1>2, <1>3, <1>5, <1>6 DEF EndOf, MemoryChunk
<1> QED
  BY <1>1, <1>7 DEF n

\* Absorbing the chunk behind keeps the list a tiling that is linked both ways.
LEMMA AbsorbShape ==
  ASSUME NEW m, Shape(m), NEW c \in DOMAIN m, m[c].next # NULL
  PROVE  Shape(Absorb(m, c, m[c].next))
<1> DEFINE e == m[c].next
           n == Absorb(m, c, e)
           after == m[e].next
<1>0. Absorbed(m, c, e, n)
  BY AbsorbFields
<1>1. /\ DOMAIN n = DOMAIN m \ {e}
      /\ c \in DOMAIN n /\ e # c /\ after # e /\ after # c
      /\ n[c] = [next |-> after, prev |-> m[c].prev,
                 allocated |-> m[c].allocated,
                 size |-> m[c].size + m[e].size + H]
      /\ after # NULL =>
           /\ after \in DOMAIN n
           /\ n[after] = [next |-> m[after].next, prev |-> c,
                          allocated |-> m[after].allocated,
                          size |-> m[after].size]
      /\ \A d \in DOMAIN n : d # c /\ d # after => n[d] = m[d]
  BY <1>0 DEF Absorbed
<1>2. /\ EndOf(n, c) = EndOf(m, e)
      /\ EndOf(m, c) = e
      /\ \A d \in DOMAIN n : d # c => EndOf(n, d) = EndOf(m, d)
  BY <1>1, AbsorbExtents
<1>3. e \in DOMAIN m /\ e > c /\ m[e].prev = c
  BY NextIsBehind
<1>4. \A d \in DOMAIN m : m[d] \in MemoryChunk /\ d \in Nat /\ d # NULL
  BY NullIsNoChunk DEF Shape
<1>5. n \in [DOMAIN n -> MemoryChunk] /\ DOMAIN n \subseteq Nat
  <2>1. n = [d \in DOMAIN n |-> n[d]]
    BY DEF Absorb
  <2>2. ASSUME NEW d \in DOMAIN n PROVE n[d] \in MemoryChunk
    <3>1. CASE d = c
      BY <1>1, <1>3, <1>4, <3>1 DEF MemoryChunk
    <3>2. CASE d = after
      BY <1>1, <1>4, <3>2 DEF MemoryChunk
    <3>3. CASE d # c /\ d # after
      BY <1>1, <1>4, <3>3
    <3> QED BY <3>1, <3>2, <3>3
  <2>3. DOMAIN n \subseteq Nat
    BY <1>1, <1>4
  <2> HIDE DEF n
  <2> QED BY <2>1, <2>2, <2>3
<1>6. \A d \in DOMAIN m : EndOf(m, d) \in Nat /\ d < EndOf(m, d)
  BY <1>4 DEF EndOf, MemoryChunk
<1>7. Tiles(n)
  <2>1. \A d \in DOMAIN n : StartAddress <= d /\ EndOf(n, d) <= HeapEnd
    BY <1>1, <1>2, <1>3 DEF Shape, Tiles
  <2>2. ASSUME NEW d \in DOMAIN n, NEW f \in DOMAIN n, d < f
        PROVE  EndOf(n, d) <= f
    <3>1. d \in DOMAIN m /\ f \in DOMAIN m /\ d # e /\ f # e
      BY <1>1
    <3>2. EndOf(m, d) <= f
      BY <2>2, <3>1 DEF Shape, Tiles
    <3>3. CASE d # c
      BY <1>2, <3>2, <3>3
    <3>4. CASE d = c
      <4>1. f > e
        BY <1>2, <1>3, <1>4, <3>1, <3>2, <3>4
      <4>2. EndOf(m, e) <= f
        BY <4>1, <1>3, <3>1 DEF Shape, Tiles
      <4> QED BY <4>2, <1>2, <3>4
    <3> QED BY <3>3, <3>4
  <2>3. ASSUME HeapSize >= H, NEW a \in StartAddress .. (HeapEnd - 1)
        PROVE  \E d \in DOMAIN n : d <= a /\ a < EndOf(n, d)
    <3>1. PICK d \in DOMAIN m : d <= a /\ a < EndOf(m, d)
      BY <2>3 DEF Shape, Tiles
    <3>2. CASE d = e \/ d = c
      <4>1. c <= a /\ a < EndOf(m, e)
        BY <1>2, <1>3, <1>4, <1>6, <3>1, <3>2
      <4> QED BY <4>1, <1>1, <1>2
    <3>3. CASE d # e /\ d # c
      BY <1>1, <1>2, <3>1, <3>3
    <3> QED BY <3>2, <3>3
  <2> QED BY <2>1, <2>2, <2>3 DEF Tiles
<1>8. Linked(n)
  <2> SUFFICES ASSUME NEW d \in DOMAIN n
      PROVE /\ n[d].next = IF EndOf(n, d) = HeapEnd THEN NULL ELSE EndOf(n, d)
            /\ n[d].next # NULL =>
                 n[d].next \in DOMAIN n /\ n[n[d].next].prev = d
            /\ d = StartAddress <=> n[d].prev = NULL
            /\ n[d].prev # NULL =>
                 n[d].prev \in DOMAIN n /\ n[n[d].prev].next = d
    BY DEF Linked
  <2>0. \A g \in DOMAIN m :
          /\ m[g].next = IF EndOf(m, g) = HeapEnd THEN NULL ELSE EndOf(m, g)
          /\ m[g].next # NULL => m[g].next \in DOMAIN m /\ m[m[g].next].prev = g
          /\ g = StartAddress <=> m[g].prev = NULL
          /\ m[g].prev # NULL => m[g].prev \in DOMAIN m /\ m[m[g].prev].next = g
    BY DEF Shape, Linked
  <2> HIDE DEF n
  <2>1. CASE d = c
    <3>1. n[d].prev # NULL => n[d].prev \in DOMAIN n /\ n[n[d].prev].next = d
      <4> SUFFICES ASSUME n[d].prev # NULL
          PROVE n[d].prev \in DOMAIN n /\ n[n[d].prev].next = d
        OBVIOUS
      <4>1. n[d].prev = m[c].prev
        BY <1>1, <2>1
      <4>2. m[c].prev \in DOMAIN m /\ m[m[c].prev].next = c
        BY <2>0, <4>1
      <4>3. EndOf(m, m[c].prev) = c /\ m[c].prev # c
        BY <2>0, <4>2, <1>4, <1>6
      <4>4. m[c].prev # e /\ m[c].prev # after
        BY <1>3, <1>4, <1>6, <4>2, <4>3, <2>0
      <4> QED BY <1>1, <2>1, <4>1, <4>2, <4>3, <4>4
    <3> QED BY <1>1, <1>2, <1>3, <2>0, <2>1, <3>1
  <2>2. CASE d = after
    <3>1. m[after].next # NULL => /\ m[after].next \in DOMAIN m
                                  /\ m[m[after].next].prev = after
                                  /\ m[after].next # e /\ m[after].next # c
                                  /\ m[after].next # after
      BY <1>1, <1>3, <1>4, <1>6, <2>0, <2>2
    <3> QED BY <1>1, <1>2, <1>3, <1>4, <2>0, <2>2, <3>1
  <2>3. CASE d # c /\ d # after
    <3>1. n[d] = m[d] /\ d \in DOMAIN m /\ d # e
      BY <1>1, <2>3
    <3>2. m[d].next # NULL => /\ m[d].next \in DOMAIN n
                              /\ n[m[d].next].prev = d
      BY <1>1, <1>3, <2>0, <2>3, <3>1
    <3>3. m[d].prev # NULL => m[d].prev \in DOMAIN n /\ n[m[d].prev].next = d
      BY <1>1, <1>3, <2>0, <2>3, <3>1
    <3> QED BY <1>2, <2>0, <2>3, <3>1, <3>2, <3>3
  <2> QED BY <2>1, <2>2, <2>3
<1> QED
  BY <1>5, <1>7, <1>8 DEF Shape

\* Marking a chunk allocated or free moves nothing.
LEMMA SameShape ==
  ASSUME NEW m, Shape(m), NEW c \in DOMAIN m, NEW b \in BOOLEAN
  PROVE  Shape([m EXCEPT ![c].allocated = b])
<1> DEFINE n == [m EXCEPT ![c].allocated = b]
<1>1. m = [d \in DOMAIN m |-> m[d]] /\ m[c] \in MemoryChunk
  BY DEF Shape
<1>2. /\ DOMAIN n = DOMAIN m
      /\ n[c] = [next |-> m[c].next, prev |-> m[c].prev,
                 allocated |-> b, size |-> m[c].size]
      /\ \A d \in DOMAIN m : d # c => n[d] = m[d]
      /\ n = [d \in DOMAIN n |-> n[d]]
  BY <1>1 DEF MemoryChunk
<1> HIDE DEF n
<1>3. n \in [DOMAIN n -> MemoryChunk]
  <2>1. n[c] \in MemoryChunk
    BY <1>1, <1>2 DEF MemoryChunk
  <2> QED BY <1>2, <2>1 DEF Shape
<1>4. \A d \in DOMAIN m : /\ n[d].next = m[d].next
                         /\ n[d].prev = m[d].prev
                         /\ n[d].size = m[d].size
  BY <1>2
<1>5. \A d \in DOMAIN m : EndOf(n, d) = EndOf(m, d)
  BY <1>4 DEF EndOf
<1>6. Tiles(n)
  BY <1>2, <1>5 DEF Shape, Tiles
<1>7. Linked(n)
  BY <1>2, <1>4, <1>5 DEF Shape, Linked
<1>8. Shape(n)
  BY <1>2, <1>3, <1>6, <1>7 DEF Shape
<1> QED
  BY <1>8 DEF n

----------------------------------------------------------------------------
\* What merging does to allocated chunks and to neighbouring free ones.

\* Chunks that are in use.
Taken(m) == {d \in DOMAIN m : m[d].allocated}

\* Two lists hold the same allocated chunks, each with the same size.
SameBlocks(m, n) ==
  /\ Taken(n) = Taken(m)
  /\ \A d \in Taken(m) : n[d].size = m[d].size

\* No chunk outside S is free with a free chunk behind it.
CoalescedBut(m, S) ==
  \A d \in DOMAIN m \ S :
    ~m[d].allocated /\ m[d].next # NULL => m[m[d].next].allocated

\* Absorbing a free chunk leaves the taken chunks as they were.
LEMMA AbsorbKeepsBlocks ==
  ASSUME NEW m, Shape(m), NEW c \in DOMAIN m, m[c].next # NULL,
         ~m[c].allocated, ~m[m[c].next].allocated
  PROVE  /\ SameBlocks(m, Absorb(m, c, m[c].next))
         /\ ~Absorb(m, c, m[c].next)[c].allocated
         /\ c \in DOMAIN Absorb(m, c, m[c].next)
<1> DEFINE e == m[c].next
           n == Absorb(m, c, e)
           after == m[e].next
<1>0. Absorbed(m, c, e, n)
  BY AbsorbFields
<1>1. /\ DOMAIN n = DOMAIN m \ {e}
      /\ c \in DOMAIN n
      /\ n[c] = [next |-> after, prev |-> m[c].prev,
                 allocated |-> m[c].allocated,
                 size |-> m[c].size + m[e].size + H]
      /\ after # NULL =>
           n[after] = [next |-> m[after].next, prev |-> c,
                       allocated |-> m[after].allocated,
                       size |-> m[after].size]
      /\ \A d \in DOMAIN n : d # c /\ d # after => n[d] = m[d]
  BY <1>0 DEF Absorbed
<1>2. NULL \notin DOMAIN m
  BY NullIsNoChunk
<1>3. ~m[e].allocated
  OBVIOUS
<1> HIDE DEF n, after, e
<1>4. ~n[c].allocated
  BY <1>1
<1>5. \A d \in DOMAIN n : d # c => /\ n[d].allocated = m[d].allocated
                                   /\ n[d].size = m[d].size
  BY <1>1, <1>2
<1>6. SameBlocks(m, n)
  BY <1>1, <1>3, <1>4, <1>5 DEF SameBlocks, Taken
<1> QED
  BY <1>1, <1>4, <1>6 DEF n, e

\* Absorbing brings together no free neighbours but the two that merge.
LEMMA AbsorbCoalesced ==
  ASSUME NEW m, Shape(m), NEW c \in DOMAIN m, m[c].next # NULL,
         CoalescedBut(m, {c, m[c].next})
  PROVE  CoalescedBut(Absorb(m, c, m[c].next), {c})
<1> DEFINE e == m[c].next
           n == Absorb(m, c, e)
           after == m[e].next
<1>0. Absorbed(m, c, e, n)
  BY AbsorbFields
<1>1. /\ DOMAIN n = DOMAIN m \ {e}
      /\ c \in DOMAIN n
      /\ n[c] = [next |-> after, prev |-> m[c].prev,
                 allocated |-> m[c].allocated,
                 size |-> m[c].size + m[e].size + H]
      /\ after # NULL =>
           n[after] = [next |-> m[after].next, prev |-> c,
                       allocated |-> m[after].allocated,
                       size |-> m[after].size]
      /\ \A d \in DOMAIN n : d # c /\ d # after => n[d] = m[d]
  BY <1>0 DEF Absorbed
<1>2. NULL \notin DOMAIN m
  BY NullIsNoChunk
<1>3. m[e].prev = c
  BY NextIsBehind
<1>4. \A d \in DOMAIN m : m[d].next # NULL =>
         m[d].next \in DOMAIN m /\ m[m[d].next].prev = d
  BY DEF Shape, Linked
<1>5. \A d \in DOMAIN m \ {c, e} :
        ~m[d].allocated /\ m[d].next # NULL => m[m[d].next].allocated
  BY DEF CoalescedBut
<1> HIDE DEF n, after, e
<1>6. \A d \in DOMAIN n : n[d].allocated = m[d].allocated
  BY <1>1, <1>2
<1>7. \A d \in DOMAIN n : d # c => n[d].next = m[d].next
  BY <1>1, <1>2
<1>8. ASSUME NEW d \in DOMAIN n \ {c}, ~n[d].allocated, n[d].next # NULL
      PROVE  n[n[d].next].allocated
  <2>1. n[d].next = m[d].next /\ ~m[d].allocated /\ d \in DOMAIN m \ {c, e}
    BY <1>1, <1>6, <1>7, <1>8
  <2>2. m[d].next \in DOMAIN m /\ m[d].next # e
    BY <1>3, <1>4, <1>8, <2>1
  <2> QED
    BY <1>1, <1>5, <1>6, <1>8, <2>1, <2>2
<1>9. CoalescedBut(n, {c})
  BY <1>8 DEF CoalescedBut
<1> QED
  BY <1>9 DEF n, e

\* The forward merge leaves no free chunk with a free chunk behind it.
LEMMA MergeNextCorrect ==
  ASSUME NEW m, Shape(m), NEW c \in DOMAIN m, ~m[c].allocated,
         CoalescedBut(m, {c})
  PROVE  /\ Shape(MergeNext(m, c))
         /\ SameBlocks(m, MergeNext(m, c))
         /\ CoalescedBut(MergeNext(m, c), {})
<1>1. CASE ~NextIsFree(m, c)
  <2>1. MergeNext(m, c) = m
    BY <1>1 DEF MergeNext
  <2>2. CoalescedBut(m, {})
    BY <1>1 DEF CoalescedBut, NextIsFree
  <2> QED
    BY <2>1, <2>2 DEF SameBlocks
<1>2. CASE NextIsFree(m, c)
  <2> DEFINE e == m[c].next
             n == Absorb(m, c, e)
             after == m[e].next
  <2>1. MergeNext(m, c) = n
    BY <1>2 DEF MergeNext
  <2>2. e # NULL /\ ~m[e].allocated
    BY <1>2 DEF NextIsFree
  <2>3. Shape(n)
    BY <2>2, AbsorbShape
  <2>4. SameBlocks(m, n)
    BY <2>2, AbsorbKeepsBlocks
  <2>5. CoalescedBut(n, {c})
    <3>1. CoalescedBut(m, {c, e})
      BY DEF CoalescedBut
    <3> QED BY <2>2, <3>1, AbsorbCoalesced
  <2>6. n[c].next # NULL => n[n[c].next].allocated
    <3>0. m[c].next # NULL
      BY <2>2
    <3>a. Absorbed(m, c, e, n)
      BY <3>0, AbsorbFields
    <3>1. /\ DOMAIN n = DOMAIN m \ {e}
          /\ c \in DOMAIN n
          /\ n[c] = [next |-> after, prev |-> m[c].prev,
                     allocated |-> m[c].allocated,
                     size |-> m[c].size + m[e].size + H]
          /\ after # NULL =>
               n[after] = [next |-> m[after].next, prev |-> c,
                           allocated |-> m[after].allocated,
                           size |-> m[after].size]
          /\ \A d \in DOMAIN n : d # c /\ d # after => n[d] = m[d]
      BY <3>a DEF Absorbed
    <3>2. e \in DOMAIN m \ {c}
      BY <2>2, NextIsBehind DEF Shape
    <3>3. after # NULL => m[after].allocated
      BY <2>2, <3>2 DEF CoalescedBut
    <3> HIDE DEF n, after
    <3>4. n[c].next = after /\ (after # NULL => n[after].allocated)
      BY <3>1, <3>3
    <3> QED BY <3>4
  <2>7. CoalescedBut(n, {})
    <3> HIDE DEF n
    <3> QED BY <2>5, <2>6 DEF CoalescedBut
  <2> QED
    BY <2>1, <2>3, <2>4, <2>7
<1> QED
  BY <1>1, <1>2

\* free, after the chunk has been marked free: both merges.
LEMMA CoalesceCorrect ==
  ASSUME NEW m, Shape(m), NEW c \in DOMAIN m, ~m[c].allocated,
         \A d \in DOMAIN m : /\ d # c /\ ~m[d].allocated
                             /\ m[d].next # NULL /\ m[d].next # c
                             => m[m[d].next].allocated
  PROVE  /\ Shape(Coalesce(m, c))
         /\ SameBlocks(m, Coalesce(m, c))
         /\ CoalescedBut(Coalesce(m, c), {})
<1>0. \A d \in DOMAIN m :
        /\ m[d].next # NULL => m[m[d].next].prev = d
        /\ m[d].prev # NULL => m[d].prev \in DOMAIN m /\ m[m[d].prev].next = d
  BY DEF Shape, Linked
<1>1. CASE ~PrevIsFree(m, c)
  <2>1. CoalescedBut(m, {c})
    BY <1>0, <1>1, NullIsNoChunk DEF CoalescedBut, PrevIsFree
  <2> QED
    BY <1>1, <2>1, MergeNextCorrect DEF Coalesce
<1>2. CASE PrevIsFree(m, c)
  <2> DEFINE b == m[c].prev
             n == Absorb(m, b, c)
  <2>1. b \in DOMAIN m /\ m[b].next = c /\ ~m[b].allocated
    BY <1>0, <1>2 DEF PrevIsFree
  <2>2. c # NULL
    BY NullIsNoChunk
  <2>3. Coalesce(m, c) = MergeNext(n, b)
    BY <1>2 DEF Coalesce
  <2> HIDE DEF b
  <2>4. Shape(n)
    BY <2>1, <2>2, AbsorbShape
  <2>5. SameBlocks(m, n) /\ b \in DOMAIN n /\ ~n[b].allocated
    BY <2>1, <2>2, AbsorbKeepsBlocks
  <2>6. CoalescedBut(n, {b})
    <3>1. CoalescedBut(m, {b, c})
      BY <1>0, <2>1 DEF CoalescedBut
    <3> QED BY <2>1, <2>2, <3>1, AbsorbCoalesced
  <2> HIDE DEF n
  <2>7. /\ Shape(MergeNext(n, b)) /\ SameBlocks(n, MergeNext(n, b))
        /\ CoalescedBut(MergeNext(n, b), {})
    BY <2>4, <2>5, <2>6, MergeNextCorrect
  <2>8. SameBlocks(m, MergeNext(n, b))
    BY <2>5, <2>7 DEF SameBlocks
  <2> QED
    BY <2>3, <2>7, <2>8
<1> QED
  BY <1>1, <1>2

----------------------------------------------------------------------------
\* What splitting does.

\* The sum malloc compares with does not wrap: a chunk that is large enough
\* lies inside the heap, and so does the sum but for its last byte.
LEMMA NoWrap ==
  ASSUME Shape(chunk), NEW c \in DOMAIN chunk, NEW n \in Nat,
         n <= chunk[c].size
  PROVE  Word(n + H + 1) = n + H + 1
<1>1. c \in Nat /\ chunk[c].size \in Nat
  BY DEF Shape, MemoryChunk
<1>2. StartAddress <= c /\ c + H + chunk[c].size <= StartAddress + HeapSize
  BY DEF Shape, Tiles, EndOf, HeapEnd
<1>3. n + H + 1 \in 0 .. (WordSize - 1)
  BY <1>1, <1>2
<1> QED
  BY <1>3 DEF Word

\* A split by malloc keeps the list a tiling that is linked both ways.
LEMMA SplitShape ==
  ASSUME Shape(chunk), NEW c \in DOMAIN chunk, NEW n \in Nat,
         chunk[c].size >= n + H + 1
  PROVE  /\ Shape(Split(c, n))
         /\ c + H + n \notin DOMAIN chunk
         /\ DOMAIN Split(c, n) = DOMAIN chunk \cup {c + H + n}
<1> DEFINE temp == c + H + n
           after == chunk[c].next
           m == Split(c, n)
<1>1. \A d \in DOMAIN chunk :
        /\ chunk[d] \in MemoryChunk /\ d \in Nat /\ d # NULL
        /\ EndOf(chunk, d) \in Nat /\ d < EndOf(chunk, d)
  BY NullIsNoChunk DEF Shape, EndOf, MemoryChunk
<1>2. /\ \A d \in DOMAIN chunk :
           StartAddress <= d /\ EndOf(chunk, d) <= HeapEnd
      /\ \A d, f \in DOMAIN chunk : d < f => EndOf(chunk, d) <= f
      /\ HeapSize >= H => \A a \in StartAddress .. (HeapEnd - 1) :
           \E d \in DOMAIN chunk : d <= a /\ a < EndOf(chunk, d)
  BY DEF Shape, Tiles
<1>3. \A g \in DOMAIN chunk :
        /\ chunk[g].next =
             IF EndOf(chunk, g) = HeapEnd THEN NULL ELSE EndOf(chunk, g)
        /\ chunk[g].next # NULL => /\ chunk[g].next \in DOMAIN chunk
                                   /\ chunk[chunk[g].next].prev = g
        /\ g = StartAddress <=> chunk[g].prev = NULL
        /\ chunk[g].prev # NULL => /\ chunk[g].prev \in DOMAIN chunk
                                   /\ chunk[chunk[g].prev].next = g
  BY DEF Shape, Linked
<1>4. /\ temp \in Nat /\ c < temp /\ temp + H < EndOf(chunk, c)
      /\ temp # NULL /\ temp > StartAddress
  BY <1>1, <1>2 DEF EndOf, MemoryChunk, NULL
<1>5. temp \notin DOMAIN chunk
  BY <1>1, <1>2, <1>4
<1>6. after # NULL => /\ after \in DOMAIN chunk /\ after # c /\ after # temp
                      /\ chunk[after].prev = c
  BY <1>1, <1>3, <1>5
<1>7. /\ DOMAIN m = DOMAIN chunk \cup {temp}
      /\ m[temp] = [next |-> after, prev |-> c, allocated |-> FALSE,
                    size |-> chunk[c].size - n - H]
      /\ m[c] = [next |-> temp, prev |-> chunk[c].prev, allocated |-> TRUE,
                 size |-> n]
      /\ after # NULL => m[after] = [chunk[after] EXCEPT !.prev = temp]
      /\ \A d \in DOMAIN chunk : d # c /\ d # after => m[d] = chunk[d]
      /\ m = [d \in DOMAIN m |-> m[d]]
  BY <1>4, <1>5, <1>6 DEF Split
<1> HIDE DEF m, temp
<1>8. after # NULL => m[after] = [next |-> chunk[after].next, prev |-> temp,
                                  allocated |-> chunk[after].allocated,
                                  size |-> chunk[after].size]
  BY <1>1, <1>6, <1>7 DEF MemoryChunk
<1>9. \A d \in DOMAIN m : m[d] \in MemoryChunk /\ d \in Nat
  <2> SUFFICES ASSUME NEW d \in DOMAIN m
      PROVE m[d] \in MemoryChunk /\ d \in Nat
    OBVIOUS
  <2>0. /\ chunk[c].size \in Nat /\ after \in Nat /\ chunk[c].prev \in Nat
        /\ c \in Nat /\ chunk[c].size - n - H \in Nat
    BY <1>1 DEF MemoryChunk
  <2>1. CASE d = temp
    <3>1. [next |-> after, prev |-> c, allocated |-> FALSE,
           size |-> chunk[c].size - n - H] \in MemoryChunk
      BY <2>0 DEF MemoryChunk
    <3> QED BY <1>4, <1>7, <2>1, <3>1
  <2>2. CASE d = c
    <3>1. [next |-> temp, prev |-> chunk[c].prev, allocated |-> TRUE,
           size |-> n] \in MemoryChunk
      BY <1>4, <2>0 DEF MemoryChunk
    <3> QED BY <1>1, <1>7, <2>2, <3>1
  <2>3. CASE d # c /\ d = after
    BY <1>1, <1>4, <1>6, <1>7, <1>8, <2>3 DEF MemoryChunk
  <2>4. CASE d # c /\ d # temp /\ d # after
    BY <1>1, <1>7, <2>4
  <2> QED BY <2>1, <2>2, <2>3, <2>4
<1>10. /\ EndOf(m, c) = temp
       /\ EndOf(m, temp) = EndOf(chunk, c)
       /\ \A d \in DOMAIN chunk : d # c => EndOf(m, d) = EndOf(chunk, d)
  <2>1. m[c].size = n /\ m[temp].size = chunk[c].size - n - H
    BY <1>7
  <2>2. \A d \in DOMAIN chunk : d # c => m[d].size = chunk[d].size
    BY <1>1, <1>7, <1>8
  <2>3. chunk[c].size \in Nat /\ c \in Nat
    BY <1>1 DEF MemoryChunk
  <2> QED BY <2>1, <2>2, <2>3 DEF EndOf, temp
<1>11. Tiles(m)
  <2>1. \A d \in DOMAIN m : StartAddress <= d /\ EndOf(m, d) <= HeapEnd
    <3> SUFFICES ASSUME NEW d \in DOMAIN m
        PROVE StartAddress <= d /\ EndOf(m, d) <= HeapEnd
      OBVIOUS
    <3>1. EndOf(chunk, c) <= HeapEnd /\ StartAddress <= c
      BY <1>2
    <3> HeapEnd \in Nat
      BY DEF HeapEnd
    <3>2. CASE d = temp
      BY <1>4, <1>10, <3>1, <3>2
    <3>3. CASE d = c
      BY <1>1, <1>4, <1>10, <3>1, <3>3
    <3>4. CASE d # c /\ d # temp
      BY <1>2, <1>7, <1>10, <3>4
    <3> QED BY <3>2, <3>3, <3>4
  <2>2. ASSUME NEW d \in DOMAIN m, NEW f \in DOMAIN m, d < f
        PROVE  EndOf(m, d) <= f
    <3>1. CASE d = temp
      <4>1. f \in DOMAIN chunk /\ c < f
        BY <1>1, <1>4, <1>7, <2>2, <3>1
      <4> QED BY <1>2, <1>10, <3>1, <4>1
    <3>2. CASE d = c /\ f # temp
      <4>1. EndOf(chunk, c) <= f
        BY <1>2, <1>7, <2>2, <3>2
      <4> QED BY <1>1, <1>4, <1>7, <1>10, <3>2, <4>1
    <3>3. CASE d = c /\ f = temp
      BY <1>4, <1>10, <3>3
    <3>4. CASE d # c /\ d # temp /\ f = temp
      <4>1. d \in DOMAIN chunk /\ d < c
        BY <1>1, <1>2, <1>4, <1>7, <2>2, <3>4
      <4>2. EndOf(chunk, d) <= c
        BY <1>2, <4>1
      <4> QED BY <1>1, <1>4, <1>10, <3>4, <4>1, <4>2
    <3>5. CASE d # c /\ d # temp /\ f # temp
      BY <1>2, <1>7, <1>10, <2>2, <3>5
    <3> QED BY <3>1, <3>2, <3>3, <3>4, <3>5
  <2>3. ASSUME HeapSize >= H, NEW a \in StartAddress .. (HeapEnd - 1)
        PROVE  \E d \in DOMAIN m : d <= a /\ a < EndOf(m, d)
    <3>1. PICK d \in DOMAIN chunk : d <= a /\ a < EndOf(chunk, d)
      BY <1>2, <2>3
    <3>2. CASE d = c /\ a < temp
      BY <1>7, <1>10, <3>1, <3>2
    <3>3. CASE d = c /\ ~(a < temp)
      <4> a \in Int /\ temp \in Int
        BY <1>4 DEF HeapEnd
      <4> QED BY <1>7, <1>10, <3>1, <3>3
    <3>4. CASE d # c
      BY <1>7, <1>10, <3>1, <3>4
    <3> QED BY <3>2, <3>3, <3>4
  <2> QED BY <2>1, <2>2, <2>3 DEF Tiles
<1>12. Linked(m)
  <2> SUFFICES ASSUME NEW d \in DOMAIN m
      PROVE /\ m[d].next = IF EndOf(m, d) = HeapEnd THEN NULL ELSE EndOf(m, d)
            /\ m[d].next # NULL =>
                 m[d].next \in DOMAIN m /\ m[m[d].next].prev = d
            /\ d = StartAddress <=> m[d].prev = NULL
            /\ m[d].prev # NULL =>
                 m[d].prev \in DOMAIN m /\ m[m[d].prev].next = d
    BY DEF Linked
  <2>1. CASE d = temp
    <3>1. m[d].next = after /\ m[d].prev = c
      BY <1>7, <2>1
    <3>2. after # NULL => after \in DOMAIN m /\ m[after].prev = temp
      BY <1>6, <1>7, <1>8
    <3>3. c \in DOMAIN m /\ m[c].next = temp
      BY <1>7
    <3>4. c # NULL /\ temp # StartAddress
      BY <1>1, <1>4
    <3>5. after = IF EndOf(m, temp) = HeapEnd THEN NULL ELSE EndOf(m, temp)
      BY <1>3, <1>10
    <3> QED BY <2>1, <3>1, <3>2, <3>3, <3>4, <3>5
  <2>2. CASE d = c
    <3>1. m[d].next = temp /\ m[d].prev = chunk[c].prev
      BY <1>7, <2>2
    <3>2. temp \in DOMAIN m /\ m[temp].prev = c
      BY <1>7
    <3>3. EndOf(m, c) # HeapEnd
      <4>1. EndOf(chunk, c) <= HeapEnd /\ HeapEnd \in Nat
        BY <1>2 DEF HeapEnd
      <4> QED BY <1>1, <1>4, <1>10, <4>1
    <3>4. chunk[c].prev # NULL => /\ chunk[c].prev \in DOMAIN m
                                  /\ m[chunk[c].prev].next = c
      <4> SUFFICES ASSUME chunk[c].prev # NULL
          PROVE chunk[c].prev \in DOMAIN m /\ m[chunk[c].prev].next = c
        OBVIOUS
      <4> DEFINE b == chunk[c].prev
      <4>1. b \in DOMAIN chunk /\ chunk[b].next = c
        BY <1>3
      <4>2. EndOf(chunk, b) = c
        BY <1>1, <1>3, <4>1
      <4>3. b < c
        BY <1>1, <4>1, <4>2
      <4>4. b # c /\ b # after
        <5>1. after # NULL => after = EndOf(chunk, c)
          BY <1>3
        <5> QED BY <1>1, <4>1, <4>3, <5>1
      <4> QED BY <1>7, <4>1, <4>4
    <3> QED BY <1>3, <1>4, <1>10, <2>2, <3>1, <3>2, <3>3, <3>4
  <2>3. CASE d # c /\ d = after
    <3>1. after # NULL /\ d \in DOMAIN chunk /\ d # temp
      BY <1>1, <1>4, <1>6, <1>7, <2>3
    <3>2. m[d].next = chunk[d].next /\ m[d].prev = temp
      BY <1>8, <2>3, <3>1
    <3>3. chunk[d].next # NULL => /\ chunk[d].next \in DOMAIN m
                                  /\ m[chunk[d].next].prev = d
      <4>1. chunk[d].next # NULL => /\ chunk[d].next \in DOMAIN chunk
                                    /\ chunk[chunk[d].next].prev = d
        BY <1>3, <3>1
      <4>2. chunk[d].next # NULL => chunk[d].next > d
        BY <1>1, <1>3, <3>1
      <4>3. d > c
        BY <1>1, <1>3, <2>3, <3>1
      <4>4. chunk[d].next # NULL => chunk[d].next # c /\ chunk[d].next # after
        BY <1>1, <2>3, <3>1, <4>1, <4>2, <4>3
      <4> QED BY <1>7, <4>1, <4>4
    <3>4. m[temp].next = d /\ temp \in DOMAIN m
      BY <1>7, <2>3
    <3>5. chunk[d].prev # NULL
      BY <1>1, <1>6, <2>3, <3>1
    <3> QED BY <1>3, <1>4, <1>10, <2>3, <3>1, <3>2, <3>3, <3>4, <3>5
  <2>4. CASE d # c /\ d # temp /\ d # after
    <3>1. d \in DOMAIN chunk /\ m[d] = chunk[d]
      BY <1>7, <2>4
    <3>2. chunk[d].next # NULL => /\ chunk[d].next \in DOMAIN m
                                  /\ m[chunk[d].next].prev = d
      <4>1. chunk[d].next # NULL => /\ chunk[d].next \in DOMAIN chunk
                                    /\ chunk[chunk[d].next].prev = d
        BY <1>3, <3>1
      <4>2. chunk[d].next # NULL => chunk[d].next # after
        BY <1>6, <2>4, <4>1
      <4> QED BY <1>7, <4>1, <4>2
    <3>3. chunk[d].prev # NULL => /\ chunk[d].prev \in DOMAIN m
                                  /\ m[chunk[d].prev].next = d
      <4>1. chunk[d].prev # NULL => /\ chunk[d].prev \in DOMAIN chunk
                                    /\ chunk[chunk[d].prev].next = d
        BY <1>3, <3>1
      <4>2. chunk[d].prev # NULL => chunk[d].prev # c
        BY <2>4, <4>1
      <4>3. chunk[d].prev # NULL =>
              m[chunk[d].prev].next = chunk[chunk[d].prev].next
        BY <1>1, <1>7, <1>8, <4>1, <4>2
      <4> QED BY <1>7, <4>1, <4>3
    <3> QED BY <1>3, <1>10, <2>4, <3>1, <3>2, <3>3
  <2> QED BY <2>1, <2>2, <2>3, <2>4
<1>13. m \in [DOMAIN m -> MemoryChunk] /\ DOMAIN m \subseteq Nat
  BY <1>7, <1>9
<1>14. Shape(m)
  BY <1>11, <1>12, <1>13 DEF Shape
<1> QED
  BY <1>5, <1>7, <1>14 DEF temp, m

----------------------------------------------------------------------------
\* The inductive invariant.  SearchedInVain is what makes a refusal right, and
\* FullyCoalesced is what makes SearchedInVain say enough.

\* Between calls the loop variable of malloc is gone.
AtRest == request = Idle => cursor = NULL

IInv ==
  /\ TypeOK
  /\ ListDescribesHeap
  /\ FullyCoalesced
  /\ BlocksIntact
  /\ SearchedInVain
  /\ AtRest

\* The invariant gives the list its shape and keeps it coalesced.
LEMMA IInvShape ==
  ASSUME IInv
  PROVE  Shape(chunk) /\ CoalescedBut(chunk, {})
BY DEF IInv, TypeOK, ListDescribesHeap, Shape, FullyCoalesced, CoalescedBut

\* The list's header is the first byte of the heap, if the heap has one.
LEMMA FirstIsChunk ==
  ASSUME Shape(chunk)
  PROVE  /\ first # NULL => first \in DOMAIN chunk
         /\ first = NULL => DOMAIN chunk = {}
         /\ first # NULL => \A c \in DOMAIN chunk : ~(c < first)
<1>1. \A c \in DOMAIN chunk : c \in Nat /\ chunk[c].size \in Nat
  BY DEF Shape, MemoryChunk
<1>2. \A c \in DOMAIN chunk : StartAddress <= c /\ EndOf(chunk, c) <= HeapEnd
  BY DEF Shape, Tiles
<1>3. CASE HeapSize < H
  <2>1. ASSUME NEW c \in DOMAIN chunk PROVE FALSE
    <3>1. StartAddress <= c /\ c + H + chunk[c].size <= StartAddress + HeapSize
      BY <1>2 DEF EndOf, HeapEnd
    <3>2. c \in Nat /\ chunk[c].size \in Nat
      BY <1>1
    <3> QED BY <1>3, <3>1, <3>2
  <2>2. first = NULL
    BY <1>3 DEF first
  <2> QED BY <2>1, <2>2
<1>4. CASE HeapSize >= H
  <2>1. first = StartAddress /\ first # NULL
    BY <1>4 DEF first, NULL
  <2>2. StartAddress \in StartAddress .. (HeapEnd - 1)
    BY <1>4 DEF HeapEnd
  <2>3. PICK c \in DOMAIN chunk : c <= StartAddress
    BY <1>4, <2>2 DEF Shape, Tiles
  <2> QED
    BY <1>1, <1>2, <2>1, <2>3
<1> QED
  BY <1>3, <1>4

\* The constructor establishes the invariant, in a heap too small for a header
\* too.
LEMMA InitEstablishes == Init => IInv
<1> SUFFICES ASSUME Init PROVE IInv
  OBVIOUS
<1>1. TypeOK
  <2>1. first \in Nat /\ (first # NULL => HeapSize - H \in Nat)
    BY DEF first, NULL
  <2> QED
    BY <2>1 DEF Init, TypeOK, MemoryChunk, NULL
<1>2. CASE first = NULL
  <2>1. DOMAIN chunk = {} /\ HeapSize < H
    BY <1>2 DEF Init, first, NULL
  <2>2. DOMAIN live = {}
    BY DEF Init
  <2> QED
    BY <1>1, <2>1, <2>2 DEF Init, IInv, ListDescribesHeap, Tiles, Linked,
       FullyCoalesced, BlocksIntact, SearchedInVain, AtRest
<1>3. CASE first # NULL
  <2>1. /\ DOMAIN chunk = {StartAddress}
        /\ chunk[StartAddress] = [next |-> NULL, prev |-> NULL,
                                  allocated |-> FALSE, size |-> HeapSize - H]
        /\ HeapSize >= H
    BY <1>3 DEF Init, first, NULL
  <2>2. EndOf(chunk, StartAddress) = HeapEnd
    BY <2>1 DEF EndOf, HeapEnd
  <2>3. Tiles(chunk) /\ Linked(chunk)
    BY <2>1, <2>2 DEF Tiles, Linked, HeapEnd
  <2>4. DOMAIN live = {}
    BY DEF Init
  <2> QED
    BY <1>1, <2>1, <2>3, <2>4 DEF Init, IInv, ListDescribesHeap,
       FullyCoalesced, BlocksIntact, SearchedInVain, AtRest
<1> QED
  BY <1>2, <1>3

\* A call of malloc starts at the head, with nothing searched yet.
LEMMA CallPreserves ==
  ASSUME IInv, NEW n \in Requests, MallocCall(n)
  PROVE  IInv'
<1>1. Shape(chunk)
  BY IInvShape
<1>2. n \in Nat /\ n # Idle
  BY DEF Idle
<1>3. TypeOK'
  BY <1>1, FirstIsChunk DEF IInv, TypeOK, MallocCall
<1>4. (ListDescribesHeap /\ FullyCoalesced /\ BlocksIntact)'
  BY DEF IInv, ListDescribesHeap, FullyCoalesced, BlocksIntact, MallocCall,
         Tiles, Linked, EndOf
<1>5. SearchedInVain'
  <2>1. first = NULL => DOMAIN chunk = {}
    BY <1>1, FirstIsChunk
  <2>2. first # NULL => \A c \in DOMAIN chunk : ~(c < first)
    BY <1>1, FirstIsChunk
  <2> QED BY <2>1, <2>2 DEF MallocCall, SearchedInVain
<1>6. AtRest'
  BY <1>2 DEF MallocCall, AtRest
<1> QED
  BY <1>3, <1>4, <1>5, <1>6 DEF IInv

\* A step of the search extends what was searched in vain by one chunk.
LEMMA SkipPreserves ==
  ASSUME IInv, MallocSkip
  PROVE  IInv'
<1>1. Shape(chunk)
  BY IInvShape
<1>2. cursor \in DOMAIN chunk
  BY DEF IInv, TypeOK, MallocSkip
<1>3. chunk[cursor].next # NULL =>
         chunk[cursor].next \in DOMAIN chunk
  BY <1>1, <1>2, NextIsBehind
<1>4. TypeOK'
  BY <1>2, <1>3 DEF IInv, TypeOK, MallocSkip
<1>5. (ListDescribesHeap /\ FullyCoalesced /\ BlocksIntact)'
  BY DEF IInv, ListDescribesHeap, FullyCoalesced, BlocksIntact, MallocSkip,
         Tiles, Linked, EndOf
<1>6. SearchedInVain'
  <2> SUFFICES ASSUME NEW c \in DOMAIN chunk,
                      chunk[cursor].next = NULL \/ c < chunk[cursor].next
      PROVE ~Fits(c, request)
    BY DEF MallocSkip, SearchedInVain, Fits
  <2>1. /\ \A d \in DOMAIN chunk : d \in Nat /\ chunk[d].size \in Nat
        /\ \A d \in DOMAIN chunk : EndOf(chunk, d) <= HeapEnd
        /\ \A d, f \in DOMAIN chunk : d < f => EndOf(chunk, d) <= f
        /\ chunk[cursor].next = IF EndOf(chunk, cursor) = HeapEnd
                                  THEN NULL ELSE EndOf(chunk, cursor)
    BY <1>1, <1>2 DEF Shape, Tiles, Linked, MemoryChunk
  <2>2. ~(cursor < c)
    <3> SUFFICES ASSUME cursor < c PROVE FALSE
      OBVIOUS
    <3>1. EndOf(chunk, cursor) <= c /\ EndOf(chunk, c) <= HeapEnd
      BY <1>2, <2>1
    <3>2. /\ EndOf(chunk, c) \in Nat /\ c < EndOf(chunk, c)
          /\ EndOf(chunk, cursor) \in Nat /\ HeapEnd \in Nat
          /\ EndOf(chunk, cursor) # NULL
      BY <1>2, <2>1 DEF EndOf, HeapEnd, NULL
    <3> QED BY <2>1, <3>1, <3>2
  <2>3. CASE c = cursor
    BY <2>3 DEF MallocSkip
  <2>4. CASE c < cursor
    BY <2>4 DEF IInv, SearchedInVain, MallocSkip
  <2> QED BY <1>2, <2>1, <2>2, <2>3, <2>4
<1>7. AtRest'
  BY DEF MallocSkip, AtRest
<1> QED
  BY <1>4, <1>5, <1>6, <1>7 DEF IInv

\* A malloc that returns 0 changes no chunk.
LEMMA FailPreserves ==
  ASSUME IInv, MallocFail
  PROVE  IInv'
<1>1. TypeOK'
  BY DEF IInv, TypeOK, MallocFail
<1>2. (ListDescribesHeap /\ FullyCoalesced /\ BlocksIntact)'
  BY DEF IInv, ListDescribesHeap, FullyCoalesced, BlocksIntact, MallocFail,
         Tiles, Linked, EndOf
<1>3. SearchedInVain' /\ AtRest'
  BY DEF MallocFail, SearchedInVain, AtRest
<1> QED
  BY <1>1, <1>2, <1>3 DEF IInv

\* Taking a free chunk: its payload is the caller's, the rest is linked back.
LEMMA TakePreserves ==
  ASSUME IInv, MallocTake
  PROVE  IInv'
<1> DEFINE c == cursor
           n == request
<1>1. Shape(chunk) /\ CoalescedBut(chunk, {})
  BY IInvShape
<1>2. /\ c \in DOMAIN chunk /\ n \in Nat
      /\ chunk[c].size >= n /\ ~chunk[c].allocated
  BY DEF IInv, TypeOK, MallocTake, Fits, Idle
<1>3. \A d \in DOMAIN chunk : /\ chunk[d] \in MemoryChunk /\ d \in Nat
                              /\ chunk[d].size \in Nat
  BY <1>1 DEF Shape, MemoryChunk
<1>4. /\ Shape(chunk')
      /\ c \in DOMAIN chunk' /\ DOMAIN chunk \subseteq DOMAIN chunk'
      /\ chunk'[c].allocated
      /\ n <= chunk'[c].size /\ chunk'[c].size <= n + H
      /\ \A d \in DOMAIN chunk : d # c =>
           /\ chunk'[d].allocated = chunk[d].allocated
           /\ chunk'[d].size = chunk[d].size
           /\ chunk'[d].next = chunk[d].next
      /\ \A d \in DOMAIN chunk' : d \notin DOMAIN chunk =>
           /\ ~chunk'[d].allocated
           /\ chunk'[d].next = chunk[c].next
           /\ d # NULL
  <2>1. CASE WorthSplitting(c, n)
    <3>1. chunk' = Split(c, n)
      BY <2>1 DEF MallocTake
    <3>2. chunk[c].size >= n + H + 1
      BY <1>1, <1>2, <2>1, NoWrap DEF WorthSplitting
    <3>3. /\ Shape(chunk')
          /\ c + H + n \notin DOMAIN chunk
          /\ DOMAIN chunk' = DOMAIN chunk \cup {c + H + n}
      BY <1>1, <1>2, <3>1, <3>2, SplitShape
    <3>4. /\ chunk'[c].allocated /\ chunk'[c].size = n
          /\ ~chunk'[c + H + n].allocated
          /\ chunk'[c + H + n].next = chunk[c].next
      BY <1>2, <3>1, <3>3 DEF Split
    <3>5. \A d \in DOMAIN chunk : d # c =>
            chunk'[d] = IF d = chunk[c].next
                          THEN [chunk[d] EXCEPT !.prev = c + H + n]
                          ELSE chunk[d]
      BY <1>2, <3>1, <3>3 DEF Split
    <3>6. \A d \in DOMAIN chunk : d # c =>
            /\ chunk'[d].allocated = chunk[d].allocated
            /\ chunk'[d].size = chunk[d].size
            /\ chunk'[d].next = chunk[d].next
      BY <1>3, <3>5 DEF MemoryChunk
    <3>7. c + H + n # NULL
      BY <1>2, <1>3 DEF NULL
    <3> QED BY <1>2, <3>3, <3>4, <3>6, <3>7
  <2>2. CASE ~WorthSplitting(c, n)
    <3>1. chunk' = [chunk EXCEPT ![c].allocated = TRUE]
      BY <2>2 DEF MallocTake
    <3>2. chunk[c].size <= n + H
      BY <1>1, <1>2, <1>3, <2>2, NoWrap DEF WorthSplitting
    <3>3. chunk = [d \in DOMAIN chunk |-> chunk[d]]
      BY <1>1 DEF Shape
    <3>4. /\ DOMAIN chunk' = DOMAIN chunk
          /\ chunk'[c] = [next |-> chunk[c].next, prev |-> chunk[c].prev,
                          allocated |-> TRUE, size |-> chunk[c].size]
          /\ \A d \in DOMAIN chunk : d # c => chunk'[d] = chunk[d]
      BY <1>2, <1>3, <3>1, <3>3 DEF MemoryChunk
    <3>5. Shape(chunk')
      BY <1>1, <1>2, <3>1, <3>4, SameShape
    <3> QED BY <1>2, <3>2, <3>4, <3>5
  <2> QED BY <2>1, <2>2
<1>5. /\ DOMAIN live' = DOMAIN live \cup {c + H}
      /\ live'[c + H] = n
      /\ \A p \in DOMAIN live : p # c + H => live'[p] = live[p]
      /\ live' = [p \in DOMAIN live' |-> live'[p]]
      /\ request' = Idle /\ cursor' = NULL
  BY DEF MallocTake
<1>6. TypeOK'
  <2>1. c + H \in Nat
    BY <1>2, <1>3
  <2>2. \A p \in DOMAIN live : live[p] \in Nat /\ p \in Nat
    BY DEF IInv, TypeOK
  <2>3. \A p \in DOMAIN live' : live'[p] \in Nat /\ p \in Nat
    BY <1>2, <1>5, <2>1, <2>2
  <2> QED BY <1>4, <1>5, <2>3 DEF TypeOK, Shape
<1>7. ListDescribesHeap'
  BY <1>4 DEF Shape, ListDescribesHeap, Tiles, Linked, EndOf
<1>8. FullyCoalesced'
  <2> SUFFICES ASSUME NEW d \in DOMAIN chunk', ~chunk'[d].allocated,
                      chunk'[d].next # NULL
      PROVE chunk'[chunk'[d].next].allocated
    BY DEF FullyCoalesced
  <2>1. \A e \in DOMAIN chunk :
          ~chunk[e].allocated /\ chunk[e].next # NULL
            => /\ chunk[chunk[e].next].allocated
               /\ chunk[e].next \in DOMAIN chunk
    BY <1>1 DEF CoalescedBut, Shape, Linked
  <2>2. d # c
    BY <1>4
  <2>3. CASE d \in DOMAIN chunk
    <3>1. chunk'[d].next = chunk[d].next /\ ~chunk[d].allocated
      BY <1>4, <2>2, <2>3
    <3> QED BY <1>4, <2>1, <2>3, <3>1
  <2>4. CASE d \notin DOMAIN chunk
    <3>1. chunk'[d].next = chunk[c].next
      BY <1>4, <2>4
    <3> QED BY <1>2, <1>4, <2>1, <3>1
  <2> QED BY <2>3, <2>4
<1>9. BlocksIntact'
  <2>1. /\ \A p \in DOMAIN live :
             /\ p - H \in DOMAIN chunk /\ chunk[p - H].allocated
             /\ live[p] <= chunk[p - H].size
             /\ chunk[p - H].size <= live[p] + H
             /\ p \in Nat
        /\ \A d \in DOMAIN chunk : chunk[d].allocated => d + H \in DOMAIN live
    BY DEF IInv, BlocksIntact, TypeOK
  <2>2. ASSUME NEW p \in DOMAIN live'
        PROVE  /\ p - H \in DOMAIN chunk' /\ chunk'[p - H].allocated
               /\ live'[p] <= chunk'[p - H].size
               /\ chunk'[p - H].size <= live'[p] + H
    <3>1. CASE p = c + H
      BY <1>2, <1>3, <1>4, <1>5, <3>1
    <3>2. CASE p # c + H
      <4>1. p \in DOMAIN live /\ live'[p] = live[p]
        BY <1>5, <3>2
      <4>2. p - H # c
        BY <1>2, <1>3, <2>1, <3>2, <4>1
      <4> QED BY <1>4, <2>1, <4>1, <4>2
    <3> QED BY <3>1, <3>2
  <2>3. \A d \in DOMAIN chunk' : chunk'[d].allocated => d + H \in DOMAIN live'
    BY <1>4, <1>5, <2>1
  <2> QED BY <2>2, <2>3 DEF BlocksIntact
<1>10. SearchedInVain' /\ AtRest'
  BY <1>5 DEF SearchedInVain, AtRest, Idle
<1> QED
  BY <1>6, <1>7, <1>8, <1>9, <1>10 DEF IInv

\* What a call of free leaves: the list without the chunk's block, the other
\* blocks where they were.
LEMMA FreeResult ==
  ASSUME IInv, NEW p \in DOMAIN live, Free(p)
  PROVE  /\ Shape(chunk') /\ CoalescedBut(chunk', {})
         /\ Taken(chunk') = Taken(chunk) \ {p - H}
         /\ \A d \in Taken(chunk) \ {p - H} : chunk'[d].size = chunk[d].size
<1> DEFINE c == p - H
           m == [chunk EXCEPT ![c].allocated = FALSE]
<1>1. Shape(chunk) /\ CoalescedBut(chunk, {})
  BY IInvShape
<1>2. c \in DOMAIN chunk
  BY DEF IInv, BlocksIntact
<1>3. Shape(m)
  BY <1>1, <1>2, SameShape
<1>4. /\ DOMAIN m = DOMAIN chunk
      /\ ~m[c].allocated
      /\ m[c].next = chunk[c].next
      /\ \A d \in DOMAIN chunk : d # c => m[d] = chunk[d]
  <2>1. chunk = [d \in DOMAIN chunk |-> chunk[d]] /\ chunk[c] \in MemoryChunk
    BY <1>1, <1>2 DEF Shape
  <2> QED BY <1>2, <2>1 DEF MemoryChunk
<1>5. chunk' = Coalesce(m, c)
  BY DEF Free
<1> HIDE DEF m, c
<1>6. \A d \in DOMAIN m : /\ d # c /\ ~m[d].allocated
                          /\ m[d].next # NULL /\ m[d].next # c
                          => m[m[d].next].allocated
  <2>1. \A d \in DOMAIN chunk : chunk[d].next # NULL => chunk[d].next \in DOMAIN chunk
    BY <1>1 DEF Shape, Linked
  <2> QED BY <1>1, <1>4, <2>1 DEF CoalescedBut
<1>7. /\ Shape(Coalesce(m, c)) /\ SameBlocks(m, Coalesce(m, c))
      /\ CoalescedBut(Coalesce(m, c), {})
  BY <1>2, <1>3, <1>4, <1>6, CoalesceCorrect
<1>8. /\ Taken(m) = Taken(chunk) \ {c}
      /\ \A d \in Taken(chunk) \ {c} : m[d].size = chunk[d].size
  BY <1>2, <1>4 DEF Taken
<1> QED
  BY <1>5, <1>7, <1>8 DEF SameBlocks, c

\* free preserves the invariant, whichever neighbours are free.
LEMMA FreePreserves ==
  ASSUME IInv, NEW p \in DOMAIN live, Free(p)
  PROVE  IInv'
<1>1. /\ Shape(chunk') /\ CoalescedBut(chunk', {})
      /\ Taken(chunk') = Taken(chunk) \ {p - H}
      /\ \A d \in Taken(chunk) \ {p - H} : chunk'[d].size = chunk[d].size
  BY FreeResult
<1>2. /\ request = Idle /\ request' = Idle /\ cursor' = cursor
      /\ live' = [q \in DOMAIN live \ {p} |-> live[q]]
  BY DEF Free
<1>3. cursor = NULL
  BY <1>2 DEF IInv, AtRest
<1>4. TypeOK'
  BY <1>1, <1>2, <1>3 DEF IInv, TypeOK, Shape
<1>5. ListDescribesHeap' /\ FullyCoalesced'
  BY <1>1 DEF Shape, ListDescribesHeap, FullyCoalesced, CoalescedBut,
              Tiles, Linked, EndOf
<1>6. BlocksIntact'
  <2>1. /\ \A q \in DOMAIN live :
             /\ q - H \in Taken(chunk)
             /\ live[q] <= chunk[q - H].size
             /\ chunk[q - H].size <= live[q] + H
             /\ q \in Nat
        /\ \A d \in Taken(chunk) : d + H \in DOMAIN live /\ d \in Nat
    BY DEF IInv, BlocksIntact, TypeOK, Taken
  <2>2. ASSUME NEW q \in DOMAIN live'
        PROVE  /\ q - H \in Taken(chunk')
               /\ live'[q] <= chunk'[q - H].size
               /\ chunk'[q - H].size <= live'[q] + H
    <3>1. q \in DOMAIN live /\ q # p /\ live'[q] = live[q]
      BY <1>2
    <3>2. q - H \in Taken(chunk) \ {p - H}
      BY <2>1, <3>1
    <3> QED BY <1>1, <2>1, <3>1, <3>2
  <2>3. ASSUME NEW d \in Taken(chunk')
        PROVE  d + H \in DOMAIN live'
    <3>1. d \in Taken(chunk) /\ d # p - H
      BY <1>1
    <3> QED BY <1>2, <2>1, <3>1
  <2> QED BY <2>2, <2>3 DEF BlocksIntact, Taken
<1>7. SearchedInVain' /\ AtRest'
  BY <1>2, <1>3 DEF SearchedInVain, AtRest
<1> QED
  BY <1>4, <1>5, <1>6, <1>7 DEF IInv

\* The invariant is inductive.
LEMMA StepPreserves == IInv /\ [Next]_vars => IInv'
<1> SUFFICES ASSUME IInv, [Next]_vars PROVE IInv'
  OBVIOUS
<1>1. CASE \E n \in Requests : MallocCall(n)
  BY <1>1, CallPreserves
<1>2. CASE MallocSkip
  BY <1>2, SkipPreserves
<1>3. CASE MallocTake
  BY <1>3, TakePreserves
<1>4. CASE MallocFail
  BY <1>4, FailPreserves
<1>5. CASE \E p \in DOMAIN live : Free(p)
  BY <1>5, FreePreserves
<1>6. CASE UNCHANGED vars
  BY <1>6 DEF vars, IInv, TypeOK, ListDescribesHeap, Tiles, Linked, EndOf,
     FullyCoalesced, BlocksIntact, SearchedInVain, Fits, AtRest
<1> QED
  BY <1>1, <1>2, <1>3, <1>4, <1>5, <1>6 DEF Next

\* The invariant holds in every state of every heap.
THEOREM HeapInvariant == Spec => []IInv
BY InitEstablishes, StepPreserves, PTL DEF Spec

\* Every variable of malloc and free keeps its type: no size ever wraps below
\* zero in a split, and the search never leaves the list.
THEOREM TypeCorrect == Spec => []TypeOK
<1>1. IInv => TypeOK
  BY DEF IInv
<1> QED
  BY <1>1, HeapInvariant, PTL

\* malloc and free keep the list a tiling of the heap, linked both ways.
THEOREM ListCorrect == Spec => []ListDescribesHeap
<1>1. IInv => ListDescribesHeap
  BY DEF IInv
<1> QED
  BY <1>1, HeapInvariant, PTL

\* free never leaves two free neighbours.
THEOREM CoalescingCorrect == Spec => []FullyCoalesced
<1>1. IInv => FullyCoalesced
  BY DEF IInv
<1> QED
  BY <1>1, HeapInvariant, PTL

\* No call of malloc or free touches the block of another caller.
THEOREM BlocksCorrect == Spec => []BlocksIntact
<1>1. IInv => BlocksIntact
  BY DEF IInv
<1> QED
  BY <1>1, HeapInvariant, PTL

----------------------------------------------------------------------------
\* What there is to prove about the end of malloc's loop without fairness.

\* The bytes the search has not reached.
Unsearched == IF cursor = NULL THEN 0 ELSE HeapEnd - cursor

\* While a malloc runs nothing else happens to the heap, and each iteration
\* either returns or leaves at least a header behind: the loop makes no more
\* than HeapSize \div H of them, whatever was split and merged before.
SearchAdvances ==
  [][request # Idle =>
       \/ request' = Idle
       \/ /\ request' = request /\ chunk' = chunk /\ live' = live
          /\ Unsearched' >= 0 /\ Unsearched' + H <= Unsearched]_vars

\* A chunk lies in the heap, and the next one behind it.
LEMMA SkipAdvances ==
  ASSUME IInv, MallocSkip
  PROVE  Unsearched' >= 0 /\ Unsearched' + H <= Unsearched
<1>1. Shape(chunk)
  BY IInvShape
<1>2. cursor \in DOMAIN chunk /\ cursor # NULL /\ cursor' = chunk[cursor].next
  BY DEF IInv, TypeOK, MallocSkip
<1>3. \A c \in DOMAIN chunk :
        /\ c \in Nat /\ EndOf(chunk, c) \in Nat
        /\ c + H <= EndOf(chunk, c) /\ EndOf(chunk, c) <= HeapEnd
  BY <1>1, HeapAssumption DEF Shape, Tiles, EndOf, MemoryChunk
<1>4. HeapEnd \in Nat /\ H \in Nat
  BY HeapAssumption DEF HeapEnd
<1>5. Unsearched = HeapEnd - cursor /\ Unsearched >= H
  BY <1>2, <1>3, <1>4 DEF Unsearched
<1>6. CASE cursor' = NULL
  <2>1. Unsearched' = 0
    BY <1>6 DEF Unsearched
  <2> QED BY <1>2, <1>3, <1>4, <1>5, <2>1
<1>7. CASE cursor' # NULL
  <2>1. cursor' \in DOMAIN chunk /\ cursor' = EndOf(chunk, cursor)
    BY <1>1, <1>2, <1>7 DEF Shape, Linked
  <2>2. Unsearched' = HeapEnd - cursor'
    BY <1>7 DEF Unsearched, HeapEnd
  <2> QED BY <1>2, <1>3, <1>4, <1>5, <2>1, <2>2
<1> QED
  BY <1>6, <1>7

\* The safety half of MallocReturns, for every heap.
THEOREM SearchEnds == Spec => SearchAdvances
<1> DEFINE Advance ==
      request # Idle =>
        \/ request' = Idle
        \/ /\ request' = request /\ chunk' = chunk /\ live' = live
           /\ Unsearched' >= 0 /\ Unsearched' + H <= Unsearched
<1>1. IInv /\ [Next]_vars => [Advance]_vars
  <2> SUFFICES ASSUME IInv, Next, request # Idle, request' # Idle
      PROVE  /\ request' = request /\ chunk' = chunk /\ live' = live
             /\ Unsearched' >= 0 /\ Unsearched' + H <= Unsearched
    BY Zenon
  <2>1. MallocSkip
    BY DEF Next, MallocCall, MallocTake, MallocFail, Free
  <2>2. request' = request /\ chunk' = chunk /\ live' = live
    BY <2>1 DEF MallocSkip
  <2> QED BY <2>1, <2>2, SkipAdvances
<1> QED
  BY <1>1, HeapInvariant, PTL DEF Spec, SearchAdvances

----------------------------------------------------------------------------
\* Refinement of Allocator.

\* The bytes the abstract allocator calls occupied are those of taken chunks.
LEMMA OccupiedIsTaken ==
  ASSUME IInv, NEW b \in Int
  PROVE  A!Occupied(b) <=> \E d \in Taken(chunk) : d <= b /\ b < EndOf(chunk, d)
<1>1. \A p \in DOMAIN live : p \in Nat /\ p - H \in Taken(chunk)
  BY DEF IInv, TypeOK, BlocksIntact, Taken
<1>2. \A d \in Taken(chunk) : /\ d + H \in DOMAIN live /\ d \in Nat
                              /\ chunk[d].size \in Nat
  BY DEF IInv, TypeOK, BlocksIntact, Taken, MemoryChunk
<1>3. A!Occupied(b) <=>
        \E p \in DOMAIN live : b \in (p - H) .. (p + chunk[p - H].size - 1)
  BY DEF A!Occupied, A!Extent
<1>4. ASSUME NEW p \in DOMAIN live, b \in (p - H) .. (p + chunk[p - H].size - 1)
      PROVE  \E d \in Taken(chunk) : d <= b /\ b < EndOf(chunk, d)
  <2>1. p - H \in Taken(chunk) /\ p \in Nat /\ chunk[p - H].size \in Nat
    BY <1>1, <1>2
  <2>2. p - H <= b /\ b < EndOf(chunk, p - H)
    BY <1>4, <2>1 DEF EndOf
  <2> QED BY <2>1, <2>2
<1>5. ASSUME NEW d \in Taken(chunk), d <= b, b < EndOf(chunk, d)
      PROVE  \E p \in DOMAIN live : b \in (p - H) .. (p + chunk[p - H].size - 1)
  <2>1. d + H \in DOMAIN live /\ d \in Nat /\ chunk[d].size \in Nat
    BY <1>2
  <2>2. (d + H) - H = d
    BY <2>1
  <2>3. b \in ((d + H) - H) .. ((d + H) + chunk[(d + H) - H].size - 1)
    BY <1>5, <2>1, <2>2 DEF EndOf
  <2> QED BY <2>1, <2>3
<1> QED
  BY <1>3, <1>4, <1>5

\* What malloc takes was free: the bytes of a free chunk are in the arena and
\* unoccupied.
LEMMA FreeChunkIsFreeRun ==
  ASSUME IInv, NEW c \in DOMAIN chunk, ~chunk[c].allocated,
         NEW len \in Nat, len <= chunk[c].size + H
  PROVE  A!FreeRun(c, len)
<1>1. Shape(chunk)
  BY IInvShape
<1>2. /\ \A d \in DOMAIN chunk : /\ d \in Nat /\ chunk[d].size \in Nat
                                 /\ StartAddress <= d
                                 /\ EndOf(chunk, d) <= HeapEnd
                                 /\ EndOf(chunk, d) \in Nat
      /\ \A d, f \in DOMAIN chunk : d < f => EndOf(chunk, d) <= f
  BY <1>1 DEF Shape, Tiles, MemoryChunk, EndOf
<1> SUFFICES ASSUME NEW b \in c .. (c + len - 1)
    PROVE  b \in StartAddress .. (HeapEnd - 1) /\ ~A!Occupied(b)
  BY DEF A!FreeRun
<1>3. b \in Int /\ c <= b /\ b < EndOf(chunk, c)
  BY <1>2 DEF EndOf
<1>4. b \in StartAddress .. (HeapEnd - 1)
  BY <1>2, <1>3 DEF HeapEnd
<1>5. ASSUME NEW d \in Taken(chunk), d <= b, b < EndOf(chunk, d)
      PROVE  FALSE
  <2>1. d \in DOMAIN chunk /\ d # c
    BY DEF Taken
  <2>2. CASE d < c
    BY <1>2, <1>3, <1>5, <2>1, <2>2
  <2>3. CASE c < d
    BY <1>2, <1>3, <1>5, <2>1, <2>3
  <2> QED BY <1>2, <2>1, <2>2, <2>3
<1> QED
  BY <1>3, <1>4, <1>5, OccupiedIsTaken

\* What malloc refuses did not exist: a free run long enough lies inside one
\* free chunk, because no two free chunks are neighbours, and the search has
\* looked at that chunk.
LEMMA RefusalIsRight ==
  ASSUME IInv, MallocFail
  PROVE  ~ \E a \in StartAddress .. (HeapEnd - 1) : A!FreeRun(a, request + H)
<1> SUFFICES ASSUME NEW a \in StartAddress .. (HeapEnd - 1),
                    A!FreeRun(a, request + H)
    PROVE  FALSE
  OBVIOUS
<1> DEFINE len == request + H
<1>1. request \in Nat /\ len \in Nat /\ len > 0 /\ a \in Nat /\ HeapEnd \in Nat
  BY DEF IInv, TypeOK, MallocFail, Idle, HeapEnd
<1>2. \A b \in a .. (a + len - 1) :
        b \in StartAddress .. (HeapEnd - 1) /\ ~A!Occupied(b)
  BY DEF A!FreeRun
<1>3. a + len - 1 <= HeapEnd - 1
  <2>1. a + len - 1 \in a .. (a + len - 1)
    BY <1>1
  <2> QED BY <1>1, <1>2, <2>1
<1>4. Shape(chunk) /\ CoalescedBut(chunk, {})
  BY IInvShape
<1>5. HeapSize >= H
  BY <1>1, <1>3 DEF HeapEnd
<1>6. PICK c \in DOMAIN chunk : c <= a /\ a < EndOf(chunk, c)
  BY <1>4, <1>5 DEF Shape, Tiles
<1>7. c \in Nat /\ chunk[c].size \in Nat /\ EndOf(chunk, c) \in Nat
  BY <1>4, <1>6 DEF Shape, MemoryChunk, EndOf
<1>8. ~chunk[c].allocated
  <2>1. ~A!Occupied(a)
    BY <1>1, <1>2
  <2> QED BY <1>1, <1>6, <2>1, OccupiedIsTaken DEF Taken
<1>9. EndOf(chunk, c) >= a + len
  <2> SUFFICES ASSUME EndOf(chunk, c) < a + len PROVE FALSE
    BY <1>1, <1>7
  <2> DEFINE e == EndOf(chunk, c)
  <2>1. e \in a .. (a + len - 1)
    BY <1>1, <1>6, <1>7
  <2>2. e < HeapEnd /\ ~A!Occupied(e)
    BY <1>1, <1>2, <2>1
  <2>3. e = chunk[c].next /\ e # NULL /\ e \in DOMAIN chunk
    <3>1. e # HeapEnd /\ e # 0
      BY <1>1, <1>6, <1>7, <2>2
    <3> QED BY <1>4, <1>6, <3>1 DEF Shape, Linked, NULL
  <2>4. e \in Taken(chunk)
    BY <1>4, <1>6, <1>8, <2>3 DEF CoalescedBut, Taken
  <2>5. e < EndOf(chunk, e)
    BY <1>4, <1>7, <2>3 DEF Shape, MemoryChunk, EndOf
  <2> HIDE DEF e
  <2>6. e \in Int /\ e <= e
    BY <1>7, <2>3 DEF e
  <2> QED BY <2>2, <2>4, <2>5, <2>6, OccupiedIsTaken
<1>10. chunk[c].size >= request
  BY <1>1, <1>6, <1>7, <1>9 DEF EndOf
<1>11. Fits(c, request)
  BY <1>8, <1>10 DEF Fits
<1> QED
  BY <1>6, <1>11 DEF IInv, SearchedInVain, MallocFail

\* The abstract state of a heap.
Blocks == [p \in DOMAIN live |-> chunk[p - H].size]

\* malloc handing out a chunk is a grant of the abstract allocator.
LEMMA TakeIsGrant ==
  ASSUME IInv, IInv', MallocTake, NEW a, a = cursor
  PROVE  A!Grant(a + H)
<1> DEFINE c == cursor
           s == chunk'[c].size
<1>1. /\ c \in DOMAIN chunk /\ request \in Nat /\ request # Idle
      /\ chunk[c].size >= request /\ ~chunk[c].allocated
      /\ c \in Nat /\ chunk[c].size \in Nat
  BY DEF IInv, TypeOK, MallocTake, Fits, Idle, MemoryChunk
<1>2. /\ DOMAIN live' = DOMAIN live \cup {c + H}
      /\ live'[c + H] = request /\ request' = Idle
  BY DEF MallocTake
<1>3. /\ \A d \in DOMAIN chunk : d # c => chunk'[d].size = chunk[d].size
      /\ s <= chunk[c].size
  <2>1. CASE WorthSplitting(c, request)
    <3>1. chunk' = Split(c, request)
      BY <2>1 DEF MallocTake
    <3>2. chunk[c].size >= request + H + 1
      BY <1>1, <2>1, NoWrap, IInvShape DEF WorthSplitting
    <3>3. c + H + request \notin DOMAIN chunk
      BY <1>1, <3>2, SplitShape, IInvShape
    <3>4. s = request
      BY <1>1, <3>1, <3>3 DEF Split
    <3>5. \A d \in DOMAIN chunk : d # c =>
            chunk'[d] = IF d = chunk[c].next
                          THEN [chunk[d] EXCEPT !.prev = c + H + request]
                          ELSE chunk[d]
      BY <1>1, <3>1, <3>3 DEF Split
    <3>6. \A d \in DOMAIN chunk : chunk[d] \in MemoryChunk
      BY DEF IInv, TypeOK
    <3>7. \A d \in DOMAIN chunk : d # c => chunk'[d].size = chunk[d].size
      BY <3>5, <3>6 DEF MemoryChunk
    <3> QED BY <1>1, <3>4, <3>7
  <2>2. CASE ~WorthSplitting(c, request)
    <3>1. chunk' = [chunk EXCEPT ![c].allocated = TRUE]
      BY <2>2 DEF MallocTake
    <3>2. chunk = [d \in DOMAIN chunk |-> chunk[d]] /\ chunk[c] \in MemoryChunk
      BY <1>1 DEF IInv, TypeOK
    <3>3. /\ \A d \in DOMAIN chunk : d # c => chunk'[d] = chunk[d]
          /\ s = chunk[c].size
      BY <1>1, <3>1, <3>2 DEF MemoryChunk
    <3> QED BY <1>1, <3>3
  <2> QED BY <2>1, <2>2
<1>4. /\ (c + H) - H = c
      /\ request <= s /\ s <= request + H
      /\ s \in Nat
  <2>1. (c + H) - H = c
    BY <1>1
  <2>2. c + H \in DOMAIN live'
    BY <1>2
  <2>3. /\ (c + H) - H \in DOMAIN chunk'
        /\ live'[c + H] <= chunk'[(c + H) - H].size
        /\ chunk'[(c + H) - H].size <= live'[c + H] + H
    BY <2>2 DEF IInv, BlocksIntact
  <2>4. s \in Nat
    BY <2>1, <2>3 DEF IInv, TypeOK, MemoryChunk
  <2> QED BY <1>2, <2>1, <2>3, <2>4
<1>5. A!FreeRun((c + H) - H, s + H)
  BY <1>1, <1>3, <1>4, FreeChunkIsFreeRun
<1>6. Blocks' = [p \in DOMAIN Blocks \cup {c + H} |->
                   IF p = c + H THEN s ELSE Blocks[p]]
  <2>1. \A p \in DOMAIN live : p # c + H => /\ p - H \in DOMAIN chunk
                                            /\ p - H # c
    BY <1>1 DEF IInv, BlocksIntact, TypeOK
  <2>2. \A p \in DOMAIN live' :
          chunk'[p - H].size = IF p = c + H THEN s ELSE chunk[p - H].size
    BY <1>2, <1>3, <1>4, <2>1
  <2> QED BY <1>2, <2>2 DEF Blocks
<1>7. s \in request .. (request + H)
  BY <1>1, <1>4
<1> HIDE DEF s
<1> QED
  BY <1>1, <1>2, <1>5, <1>6, <1>7 DEF A!Grant, A!Idle, Idle, Blocks

\* free is a release of the abstract allocator.
LEMMA FreeIsRelease ==
  ASSUME IInv, NEW p \in DOMAIN live, Free(p)
  PROVE  A!Release(p)
<1>1. /\ request = Idle /\ request' = request
      /\ live' = [q \in DOMAIN live \ {p} |-> live[q]]
  BY DEF Free
<1>2. \A d \in Taken(chunk) \ {p - H} : chunk'[d].size = chunk[d].size
  BY FreeResult
<1>3. \A q \in DOMAIN live : q \in Nat /\ q - H \in Taken(chunk)
  BY DEF IInv, TypeOK, BlocksIntact, Taken
<1>4. \A q \in DOMAIN live \ {p} : chunk'[q - H].size = chunk[q - H].size
  BY <1>2, <1>3
<1>5. Blocks' = [q \in DOMAIN Blocks \ {p} |-> Blocks[q]]
  BY <1>1, <1>4 DEF Blocks
<1> QED
  BY <1>1, <1>5 DEF A!Release, A!Idle, Idle, Blocks

\* Every step of the heap is a step of the abstract allocator or stutters.
LEMMA StepRefines ==
  ASSUME IInv, IInv', [Next]_vars
  PROVE  [A!Next]_(A!vars)
<1>1. ASSUME NEW n \in Requests, MallocCall(n) PROVE A!Ask(n)
  BY <1>1 DEF MallocCall, A!Ask, A!Idle, Idle
<1>2. CASE MallocSkip
  BY <1>2 DEF MallocSkip, A!vars
<1>3. CASE MallocTake
  <2>1. cursor \in StartAddress .. (HeapEnd - 1)
    <3>1. /\ cursor \in DOMAIN chunk /\ Shape(chunk)
      BY <1>3, IInvShape DEF IInv, TypeOK, MallocTake
    <3>2. /\ cursor \in Nat /\ chunk[cursor].size \in Nat
          /\ StartAddress <= cursor /\ EndOf(chunk, cursor) <= HeapEnd
      BY <3>1 DEF Shape, Tiles, MemoryChunk
    <3> QED BY <3>2 DEF EndOf, HeapEnd
  <2>2. PICK a \in StartAddress .. (HeapEnd - 1) : a = cursor
    BY <2>1
  <2>3. A!Grant(a + H)
    BY <1>3, <2>2, TakeIsGrant
  <2> QED BY <2>3 DEF A!Next
<1>4. CASE MallocFail
  <2>1. ~ \E a \in StartAddress .. (HeapEnd - 1) : A!FreeRun(a, request + H)
    BY <1>4, RefusalIsRight
  <2>2. request # Idle /\ request' = Idle /\ chunk' = chunk /\ live' = live
    BY <1>4 DEF MallocFail
  <2>3. A!Refuse
    BY <2>1, <2>2 DEF A!Refuse, A!Idle, Idle
  <2> QED BY <2>3 DEF A!Next
<1>5. ASSUME NEW p \in DOMAIN live, Free(p) PROVE A!Next
  <2>1. A!Release(p)
    BY <1>5, FreeIsRelease
  <2> QED BY <2>1 DEF A!Next
<1>6. CASE UNCHANGED vars
  BY <1>6 DEF vars, A!vars
<1> QED
  BY <1>1, <1>2, <1>3, <1>4, <1>5, <1>6 DEF Next, A!Next

\* The kernel heap implements the abstract allocator: what malloc returns was
\* free, what it refuses did not exist, what free is given is free again.
THEOREM HeapImplementsAllocator == Spec => ImplementsAllocator
<1>1. Init => A!Init
  BY DEF Init, A!Init, A!Idle, Idle
<1>2. IInv /\ IInv' /\ [Next]_vars => [A!Next]_(A!vars)
  BY StepRefines
<1> QED
  BY <1>1, <1>2, HeapInvariant, PTL DEF Spec, ImplementsAllocator, A!Spec

=============================================================================
