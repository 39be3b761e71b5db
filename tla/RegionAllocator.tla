--------------------------- MODULE RegionAllocator --------------------------
(***************************************************************************)
(* The allocator of the memory which thunks are written to                 *)
(* (ExternalRegionAllocator.h; its caller is DynamicRegistration.cpp).     *)
(* Memory comes from Windows in chunks.  Blocks are cut from the newest    *)
(* chunk, which has the lowest address; a block given back goes to a list  *)
(* of free blocks.  alloc and free work on copies of a chunk (lines 112    *)
(* and 134): what they change in it is lost, except by appendBlock.        *)
(*                                                                         *)
(* Sizes and offsets are in units of 16 bytes (MIN_BLOCKSIZE).             *)
(***************************************************************************)
EXTENDS Integers, Sequences, FiniteSets

CONSTANTS Units,      \* the size of a chunk (4096: 64kB)
          Signed,     \* the offsets whose number of bytes a short can hold (2048)
          Page,       \* a page (256)
          Sizes,      \* the sizes asked for
          MaxChunks, MaxAllocs   \* bounds

\* What the proofs need of the constants; the source's have it.
Constants ==
  /\ Units \in Nat /\ Signed \in Nat \ {0} /\ Units = 2 * Signed
  /\ Sizes \subseteq 1..Signed

VARIABLES chunks,   \* by age: [blocks: offsets of blocks, used, mapped]
          free,     \* the free list, by size: [size, chunk, offset]
          live,     \* allocations in use: [id, chunk, offset, size]
          allocs,   \* ghost: allocations made, to tell them apart
          taken,    \* ghost: units ever cut from a chunk
          up        \* FALSE once an iterator past the end was used
vars == <<chunks, free, live, allocs, taken, up>>

Ages == DOMAIN chunks
Newest == CHOOSE c \in Ages : \A d \in Ages : d <= c

\* Chunk::getBlockSize: up to the next block, or to the end of the chunk
IsSize(blocks, offset, size) ==
  /\ offset + size \in blocks \cup {Units}
  /\ size > 0
  /\ \A b \in blocks : ~(offset < b /\ b < offset + size)

SizesOf(blocks, offset) == {b - offset : b \in blocks \cup {Units}}

\* multimap::emplace puts an entry behind those of its size.
Insert(list, e) ==
  LET before == Len(SelectSeq(list, LAMBDA f : f.size <= e.size))
  IN SubSeq(list, 1, before) \o <<e>> \o SubSeq(list, before + 1, Len(list))

Init == /\ chunks = [c \in {} |-> 0]
        /\ free = <<>>
        /\ live = {}
        /\ allocs = 0 /\ taken = 0
        /\ up = TRUE

Given(c, offset, n) ==
  /\ live' = live \cup {[id |-> allocs + 1, chunk |-> c, offset |-> offset, size |-> n]}
  /\ allocs' = allocs + 1

Fits(n) == Ages # {} /\ Units - chunks[Newest].used >= n
Usable(n) == {i \in DOMAIN free : free[i].size >= n}

\* appendBlock
AppendBlock(c, chunk, n) ==
  /\ chunks' = [d \in Ages \cup {c} |->
                  IF d = c THEN [chunk EXCEPT !.blocks = @ \cup {chunk.used}, !.used = @ + n]
                  ELSE chunks[d]]
  /\ Given(c, chunk.used, n)
  /\ taken' = taken + n
  /\ UNCHANGED free

AllocFromChunk(n) == Fits(n) /\ AppendBlock(Newest, chunks[Newest], n)

\* The smallest free block that is large enough: if more than a unit would be
\* left over the rest is put on the list as well, and the block stays on it.
AllocFromList(n) ==
  /\ ~Fits(n) /\ Usable(n) # {}
  /\ LET i == CHOOSE k \in Usable(n) : \A l \in Usable(n) : k <= l
         e == free[i]
         rest == e.offset + n
         blocks == chunks[e.chunk].blocks
     IN /\ \/ /\ e.size - n > 1
              /\ \E size \in SizesOf(blocks, rest) :
                   /\ IsSize(blocks, rest, size)
                   /\ free' = Insert(free, [size |-> size, chunk |-> e.chunk, offset |-> rest])
           \/ /\ e.size - n <= 1
              /\ free' = SubSeq(free, 1, i - 1) \o SubSeq(free, i + 1, Len(free))
        /\ Given(e.chunk, e.offset, n)
  /\ UNCHANGED <<chunks, taken>>

\* A new chunk below all others: Windows maps whole pages for the block asked
\* for, not for the chunk.  The first is asked for at the very end of the range,
\* an address Windows rounds down by almost a chunk.
NewChunk(n) ==
  [blocks |-> {}, used |-> 0,
   mapped |-> (IF Ages = {} THEN Units ELSE 0) + ((n + Page - 1) \div Page) * Page]

AllocFromWindows(n) ==
  /\ ~Fits(n) /\ Usable(n) = {}
  /\ Cardinality(Ages) < MaxChunks
  /\ AppendBlock(IF Ages = {} THEN 1 ELSE Newest + 1, NewChunk(n), n)

Alloc(n) ==
  /\ up /\ allocs < MaxAllocs
  /\ \/ AllocFromChunk(n) \/ AllocFromList(n) \/ AllocFromWindows(n)
  /\ UNCHANGED up

\* findBlock, with the number of bytes cut to a short
Found(a) ==
  a.chunk \in Ages /\ a.offset < Signed /\ a.offset \in chunks[a.chunk].blocks

\* The block goes to the free list with everything up to the next block, unless
\* that is as much as the chunk has in use: then the whole chunk is released.
Free(a) ==
  /\ up /\ Found(a)
  /\ live' = live \ {a}
  /\ \E size \in SizesOf(chunks[a.chunk].blocks, a.offset) :
       /\ IsSize(chunks[a.chunk].blocks, a.offset, size)
       /\ \/ /\ chunks[a.chunk].used = size
             /\ chunks' = [c \in Ages \ {a.chunk} |-> chunks[c]]
             /\ free' = SelectSeq(free, LAMBDA e : e.chunk # a.chunk)
          \/ /\ chunks[a.chunk].used # size
             /\ free' = Insert(free, [size |-> size, chunk |-> a.chunk, offset |-> a.offset])
             /\ UNCHANGED chunks
  /\ UNCHANGED <<allocs, taken, up>>

\* What free() does to a block it cannot find is undefined: it ends the model.
FreeUnfound(a) ==
  /\ up /\ ~Found(a)
  /\ up' = FALSE
  /\ UNCHANGED <<chunks, free, live, allocs, taken>>

Next == \/ \E n \in Sizes : Alloc(n)
        \/ \E a \in live : Free(a) \/ FreeUnfound(a)

Spec == Init /\ [][Next]_vars

-----------------------------------------------------------------------------
Apart(a, b) ==
  a.chunk # b.chunk \/ a.offset + a.size <= b.offset \/ b.offset + b.size <= a.offset

\* What is written to an allocation stays there until it is freed (AllocatorTest2
\* in tests/TestSimpleAllocator.cpp): no other allocation overlaps it, and its
\* chunk is not given back to Windows.
KeepsContents ==
  /\ \A a, b \in live : a = b \/ Apart(a, b)
  /\ \A a \in live : a.chunk \in Ages

\* Less than half a chunk has ever been cut.
Early == taken <= Signed

\* That is the part which holds: nothing overlaps and nothing is released before
\* half a chunk has been cut, whatever is freed in between.
KeepsContentsEarly == Early => KeepsContents

\* Every allocation is memory that Windows has mapped.
Mapped == \A a \in live : a.chunk \in Ages => a.offset + a.size <= chunks[a.chunk].mapped

\* free() finds every block that alloc() returned.
FreeFinds == up
=============================================================================
