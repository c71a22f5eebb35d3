------------------------------- MODULE Arena -------------------------------
(* The allocator of a memtable (util/arena.{h,cc}).  A byte's address is its  *)
(* block and its offset in it; new char[] starts a block on an aligned        *)
(* address, so an offset is aligned exactly when the address is.              *)
EXTENDS Integers

CONSTANTS
    kArenaBlock,     \* kBlockSize (4096)
    Align,           \* the alignment AllocateAligned gives (8)
    ArenaSizes,      \* the sizes that are asked for
    MaxBlocks        \* blocks in a behaviour

ASSUME ArenaAssumption ==
    /\ kArenaBlock \in Nat \ {0}
    /\ Align \in Nat \ {0}
    /\ ArenaSizes \subseteq Nat \ {0}
    /\ MaxBlocks \in Nat

VARIABLES
    blocks_,         \* the length of every block
    block,           \* the block alloc_ptr_ is in; 0 when it is NULL
    alloc_ptr_,      \* its offset in that block
    alloc_bytes_remaining_,
    regions          \* what was handed out

arenaVars == <<blocks_, block, alloc_ptr_, alloc_bytes_remaining_, regions>>

Blocks == DOMAIN blocks_

NewBlock == 1 + CHOOSE b \in Blocks \cup {0} : \A c \in Blocks : c <= b

WithBlock(bytes) == [b \in Blocks \cup {NewBlock} |-> IF b = NewBlock THEN bytes ELSE blocks_[b]]

Region(b, from, bytes, aligned) ==
    [block |-> b, from |-> from, to |-> from + bytes, aligned |-> aligned]

ArenaInit ==
    /\ blocks_ = [b \in {} |-> 0]
    /\ block = 0
    /\ alloc_ptr_ = 0
    /\ alloc_bytes_remaining_ = 0
    /\ regions = {}

\* Counts all of the new block as free, the bytes it hands out included.
AllocateFallbackKeepsRemaining(bytes, aligned) ==
    /\ blocks_' = WithBlock(kArenaBlock)
    /\ block' = NewBlock
    /\ alloc_ptr_' = bytes
    /\ alloc_bytes_remaining_' = kArenaBlock
    /\ regions' = regions \cup {Region(NewBlock, 0, bytes, aligned)}

\* An object of more than a quarter of a block gets a block of its own and the
\* current block stays current; otherwise the rest of it is wasted.
AllocateFallback(bytes, aligned) ==
    IF bytes > kArenaBlock \div 4
    THEN /\ blocks_' = WithBlock(bytes)
         /\ regions' = regions \cup {Region(NewBlock, 0, bytes, aligned)}
         /\ UNCHANGED <<block, alloc_ptr_, alloc_bytes_remaining_>>
    ELSE /\ blocks_' = WithBlock(kArenaBlock)
         /\ block' = NewBlock
         /\ alloc_ptr_' = bytes
         /\ alloc_bytes_remaining_' = kArenaBlock - bytes
         /\ regions' = regions \cup {Region(NewBlock, 0, bytes, aligned)}

\* Hands out the bytes after a gap of slop bytes of the current block.
Carve(bytes, slop, aligned) ==
    /\ alloc_ptr_' = alloc_ptr_ + slop + bytes
    /\ alloc_bytes_remaining_' = alloc_bytes_remaining_ - (slop + bytes)
    /\ regions' = regions \cup {Region(block, alloc_ptr_ + slop, bytes, aligned)}
    /\ UNCHANGED <<blocks_, block>>

Allocate(bytes) ==
    IF bytes <= alloc_bytes_remaining_
    THEN Carve(bytes, 0, FALSE)
    ELSE AllocateFallback(bytes, FALSE)

Slop == IF alloc_ptr_ % Align = 0 THEN 0 ELSE Align - (alloc_ptr_ % Align)

AllocateAligned(bytes) ==
    IF bytes + Slop <= alloc_bytes_remaining_
    THEN Carve(bytes, Slop, TRUE)
    ELSE AllocateFallback(bytes, TRUE)

ArenaNext ==
    /\ NewBlock <= MaxBlocks
    /\ \E bytes \in ArenaSizes : Allocate(bytes) \/ AllocateAligned(bytes)

ArenaSpec == ArenaInit /\ [][ArenaNext]_arenaVars

------------------------------------------------------------------------------
(* Properties                                                                 *)

\* The byte ranges Allocate and AllocateAligned hand out lie inside a block and
\* never share a byte, and those of AllocateAligned start on an aligned address
\* (the assertion at its end), whatever mixture of small, large and aligned
\* requests came before.
RegionsApart ==
    /\ \A r \in regions : /\ r.block \in Blocks
                          /\ 0 <= r.from /\ r.from < r.to /\ r.to <= blocks_[r.block]
                          /\ r.aligned => r.from % Align = 0
    /\ \A r, s \in regions :
           r = s \/ r.block # s.block \/ r.to <= s.from \/ s.to <= r.from

==============================================================================
