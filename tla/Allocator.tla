------------------------------ MODULE Allocator ------------------------------
(****************************************************************************)
(* What the kernel heap promises to its callers (pci.cpp, ethernetframe.cpp *)
(* and operator new/delete), without chunks, links or a search order: the   *)
(* arena is a run of bytes, a block is a pointer with some bytes behind it, *)
(* and every block is preceded by Overhead bytes that belong to the         *)
(* allocator.                                                               *)
(****************************************************************************)
EXTENDS Integers

CONSTANTS
  Arena,        \* the addresses the allocator was given
  Overhead,     \* bytes in front of every block
  Requests      \* sizes a caller may ask for

VARIABLES
  blocks,       \* live blocks: pointer -> bytes the caller may use
  pending       \* size of the request being served, or Idle

vars == <<blocks, pending>>

Idle == -1

\* The bytes a block of s bytes at pointer p takes away from the arena.
Extent(p, s) == (p - Overhead) .. (p + s - 1)

Occupied(a) == \E p \in DOMAIN blocks : a \in Extent(p, blocks[p])

\* len consecutive bytes of the arena from a on that no block occupies.
FreeRun(a, len) == \A b \in a .. (a + len - 1) : b \in Arena /\ ~Occupied(b)

Init ==
  /\ blocks = [p \in {} |-> 0]
  /\ pending = Idle

Ask(n) ==
  /\ pending = Idle
  /\ pending' = n
  /\ UNCHANGED blocks

\* A request is granted unoccupied bytes only, at least as many as asked for
\* and at most Overhead more than that.
Grant(p) ==
  /\ pending # Idle
  /\ \E s \in pending .. (pending + Overhead) :
       /\ FreeRun(p - Overhead, s + Overhead)
       /\ blocks' = [q \in DOMAIN blocks \cup {p} |->
                       IF q = p THEN s ELSE blocks[q]]
  /\ pending' = Idle

\* A request is refused only when no free run could have held it: every byte
\* given back is usable again, with whatever free bytes lie next to it.
Refuse ==
  /\ pending # Idle
  /\ ~ \E a \in Arena : FreeRun(a, pending + Overhead)
  /\ pending' = Idle
  /\ UNCHANGED blocks

Release(p) ==
  /\ pending = Idle
  /\ p \in DOMAIN blocks
  /\ blocks' = [q \in DOMAIN blocks \ {p} |-> blocks[q]]
  /\ UNCHANGED pending

Next ==
  \/ \E n \in Requests : Ask(n)
  \/ \E a \in Arena : Grant(a + Overhead)
  \/ Refuse
  \/ \E p \in DOMAIN blocks : Release(p)

Spec == Init /\ [][Next]_vars
==============================================================================
