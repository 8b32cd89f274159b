---------------------------- MODULE MemoryManager ----------------------------
(****************************************************************************)
(* The kernel heap, os::memory::MemoryManager: a doubly linked list of      *)
(* chunks that tile the heap, searched first fit by malloc and coalesced by *)
(* free.  A chunk is known by the address of its header; its payload starts *)
(* sizeof(MemoryChunk) bytes further on.                                    *)
(*                                                                          *)
(* One call runs at a time: only kernel_main allocates (pci.cpp:57,         *)
(* ethernetframe.cpp:76 from ARP's Resolve) and no interrupt handler calls  *)
(* malloc or free.                                                          *)
(****************************************************************************)
EXTENDS Integers

CONSTANTS
  StartAddress,   \* constructor argument startAddress (kernelEnd)
  HeapSize,       \* constructor argument size
  H,              \* sizeof(MemoryChunk), 16 in the 32 bit build
  WordSize,       \* number of values of size_t, 2^32
  Requests        \* sizes passed to malloc

ASSUME HeapAssumption ==
  /\ StartAddress \in Nat /\ StartAddress > 0
  /\ HeapSize \in Nat
  /\ H \in Nat /\ H > 0
  /\ WordSize \in Nat /\ StartAddress + HeapSize < WordSize
  /\ Requests \subseteq 0 .. (WordSize - 1)

VARIABLES
  chunk,      \* the linked headers: address -> MemoryChunk
  request,    \* argument of the malloc in progress, or Idle
  cursor,     \* malloc's loop variable `chunk`
  live        \* what callers hold: pointer -> size they asked for

vars == <<chunk, request, cursor, live>>

NULL == 0
Idle == -1
HeapEnd == StartAddress + HeapSize

MemoryChunk == [next : Nat, prev : Nat, allocated : BOOLEAN, size : Nat]

\* size_t arithmetic.
Word(n) == n % WordSize

----------------------------------------------------------------------------
\* The constructor.

first == IF HeapSize < H THEN NULL ELSE StartAddress

Init ==
  /\ chunk = [c \in {first} \ {NULL} |->
                [next |-> NULL, prev |-> NULL, allocated |-> FALSE,
                 size |-> HeapSize - H]]
  /\ request = Idle
  /\ cursor = NULL
  /\ live = [p \in {} |-> 0]

----------------------------------------------------------------------------
\* malloc: a search from `first` on, one action per iteration, then the take.

MallocCall(n) ==
  /\ request = Idle
  /\ request' = n
  /\ cursor' = first
  /\ UNCHANGED <<chunk, live>>

Fits(c, n) == chunk[c].size >= n /\ ~chunk[c].allocated

\* Mutant: only chunks in use are stepped over, not free ones too small.
MallocSkipStays ==
  /\ request # Idle
  /\ cursor # NULL
  /\ ~Fits(cursor, request)
  /\ cursor' = IF chunk[cursor].allocated THEN chunk[cursor].next ELSE cursor
  /\ UNCHANGED <<chunk, request, live>>

MallocSkip ==
  /\ request # Idle
  /\ cursor # NULL
  /\ ~Fits(cursor, request)
  /\ cursor' = chunk[cursor].next
  /\ UNCHANGED <<chunk, request, live>>

\* Mutant: the header of the remainder is not counted.
WorthSplittingNoHeader(c, n) == chunk[c].size >= Word(n + 1)

\* The remainder must hold a header and at least one byte.
WorthSplitting(c, n) == chunk[c].size >= Word(n + H + 1)

\* `temp` is linked behind the chunk that is taken, which keeps n bytes.
Split(c, n) ==
  LET temp == c + H + n
      after == chunk[c].next
  IN [d \in DOMAIN chunk \cup {temp} |->
        IF d = temp
          THEN [next |-> after, prev |-> c, allocated |-> FALSE,
                size |-> chunk[c].size - n - H]
        ELSE IF d = c
          THEN [next |-> temp, prev |-> chunk[c].prev, allocated |-> TRUE,
                size |-> n]
        ELSE IF d = after
          THEN [chunk[d] EXCEPT !.prev = temp]
        ELSE chunk[d]]

MallocTake ==
  /\ request # Idle
  /\ cursor # NULL
  /\ Fits(cursor, request)
  /\ chunk' = IF WorthSplitting(cursor, request)
                THEN Split(cursor, request)
                ELSE [chunk EXCEPT ![cursor].allocated = TRUE]
  /\ live' = [p \in DOMAIN live \cup {cursor + H} |->
                IF p = cursor + H THEN request ELSE live[p]]
  /\ request' = Idle
  /\ cursor' = NULL

\* The end of the list was reached: malloc returns 0.
MallocFail ==
  /\ request # Idle
  /\ cursor = NULL
  /\ request' = Idle
  /\ UNCHANGED <<chunk, cursor, live>>

----------------------------------------------------------------------------
\* free

\* Mutant: the chunk behind keeps its link to the header that is gone.
AbsorbNoBackLink(m, c, e) ==
  [d \in DOMAIN m \ {e} |->
     IF d = c
       THEN [m[c] EXCEPT !.next = m[e].next, !.size = @ + m[e].size + H]
       ELSE m[d]]

\* c takes over e, the chunk behind it.
Absorb(m, c, e) ==
  LET after == m[e].next
  IN [d \in DOMAIN m \ {e} |->
        IF d = c
          THEN [m[c] EXCEPT !.next = after, !.size = @ + m[e].size + H]
        ELSE IF d = after
          THEN [m[d] EXCEPT !.prev = c]
        ELSE m[d]]

PrevIsFree(m, c) == m[c].prev # NULL /\ ~m[m[c].prev].allocated

\* Mutant: the chunk behind is not asked whether it is in use.
NextIsThere(m, c) == m[c].next # NULL

NextIsFree(m, c) == m[c].next # NULL /\ ~m[m[c].next].allocated

\* Mutant: free merges backwards only.
MergeNextNever(m, c) == m

MergeNext(m, c) == IF NextIsFree(m, c) THEN Absorb(m, c, m[c].next) ELSE m

\* Mutant: after merging backwards the chunk behind is not looked at.
CoalesceOneSide(m, c) ==
  IF PrevIsFree(m, c) THEN Absorb(m, m[c].prev, c) ELSE MergeNext(m, c)

\* Merge with the chunk in front, then merge the result with the one behind.
Coalesce(m, c) ==
  IF PrevIsFree(m, c)
    THEN MergeNext(Absorb(m, m[c].prev, c), m[c].prev)
    ELSE MergeNext(m, c)

\* Callers pass pointers malloc returned to them, once.
Free(p) ==
  /\ request = Idle
  /\ p \in DOMAIN live
  /\ chunk' = Coalesce([chunk EXCEPT ![p - H].allocated = FALSE], p - H)
  /\ live' = [q \in DOMAIN live \ {p} |-> live[q]]
  /\ UNCHANGED <<request, cursor>>

----------------------------------------------------------------------------
Malloc == MallocSkip \/ MallocTake \/ MallocFail

Next ==
  \/ \E n \in Requests : MallocCall(n)
  \/ MallocSkip
  \/ MallocTake
  \/ MallocFail
  \/ \E p \in DOMAIN live : Free(p)

\* A call that is running keeps running: the loop has no wait in it, and an
\* interrupt taken on the way returns to it.
Spec == Init /\ [][Next]_vars /\ WF_vars(Malloc)

----------------------------------------------------------------------------
\* Correctness.

TypeOK ==
  /\ chunk \in [DOMAIN chunk -> MemoryChunk]
  /\ DOMAIN chunk \subseteq Nat
  /\ request \in Requests \cup {Idle}
  /\ cursor \in DOMAIN chunk \cup {NULL}
  /\ live \in [DOMAIN live -> Nat]
  /\ DOMAIN live \subseteq Nat

EndOf(m, c) == c + H + m[c].size

\* Chunks lie inside the heap, do not overlap and leave no byte uncovered.
Tiles(m) ==
  /\ \A c \in DOMAIN m : StartAddress <= c /\ EndOf(m, c) <= HeapEnd
  /\ \A c, d \in DOMAIN m : c < d => EndOf(m, c) <= d
  /\ HeapSize >= H => \A a \in StartAddress .. (HeapEnd - 1) :
       \E c \in DOMAIN m : c <= a /\ a < EndOf(m, c)

\* next leads to the chunk that starts where this one ends, prev leads back,
\* and the two ends of the list are the two ends of the heap.
Linked(m) ==
  \A c \in DOMAIN m :
    /\ m[c].next = IF EndOf(m, c) = HeapEnd THEN NULL ELSE EndOf(m, c)
    /\ m[c].next # NULL => m[c].next \in DOMAIN m /\ m[m[c].next].prev = c
    /\ c = StartAddress <=> m[c].prev = NULL
    /\ m[c].prev # NULL => m[c].prev \in DOMAIN m /\ m[m[c].prev].next = c

\* The chunk list always describes the whole heap, in both directions.
ListDescribesHeap == Tiles(chunk) /\ Linked(chunk)

\* free leaves no two free chunks side by side, so a free run of bytes is
\* never cut in pieces that malloc would refuse one by one.
FullyCoalesced ==
  \A c \in DOMAIN chunk :
    ~chunk[c].allocated /\ chunk[c].next # NULL
      => chunk[chunk[c].next].allocated

\* Every pointer a caller holds still has its own allocated chunk of at least
\* the size it asked for, and nothing else is allocated.
BlocksIntact ==
  /\ \A p \in DOMAIN live :
       /\ p - H \in DOMAIN chunk
       /\ chunk[p - H].allocated
       /\ live[p] <= chunk[p - H].size /\ chunk[p - H].size <= live[p] + H
  /\ \A c \in DOMAIN chunk : chunk[c].allocated => c + H \in DOMAIN live

\* Every chunk malloc has passed is too small or taken.
SearchedInVain ==
  request # Idle =>
    \A c \in DOMAIN chunk :
      cursor = NULL \/ c < cursor => ~Fits(c, request)

\* The heap keeps the promises of an allocator: malloc hands out bytes nobody
\* holds and returns 0 only when no run of free bytes could have held the
\* block, free gives every byte back.  (Allocator states the promises.)
A == INSTANCE Allocator WITH
       Arena <- StartAddress .. (HeapEnd - 1),
       Overhead <- H,
       blocks <- [p \in DOMAIN live |-> chunk[p - H].size],
       pending <- request

ImplementsAllocator == A!Spec

\* Every malloc returns: whatever was split and merged before, the walk along
\* `next` never runs in a circle.
MallocReturns == (request # Idle) ~> (request = Idle)
==============================================================================
