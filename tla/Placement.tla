------------------------------ MODULE Placement ------------------------------
(***************************************************************************)
(* Byte arithmetic of src/src/block.rs and of the upload functions of      *)
(* src/src/arena.rs: values are placed one behind the other in the last    *)
(* block, each at the next offset that is a multiple of its alignment, and *)
(* a value that does not fit goes to a fresh block.                        *)
(*                                                                         *)
(* Offsets count from the start of the block; the block itself is a boxed  *)
(* byte slice, which the allocator may put at any address.  usize and      *)
(* isize have Width bits, and their arithmetic wraps as in a release       *)
(* build.  Only the last block is kept: nothing is placed in an earlier    *)
(* one again.                                                              *)
(***************************************************************************)
EXTENDS Integers, FiniteSets

CONSTANTS BlockSizes,  \* new_block_size of the pools considered
          Header,      \* size_of::<BlockMetadata>()
          Bases,       \* addresses the allocator may return
          Values,      \* [size, align] of the types uploaded by value
          Arrays,      \* [count, stride, align] of the runs of items reserved
          Width        \* bits of usize

ASSUME PlacementAssumption ==
  /\ Header \in Nat
  /\ BlockSizes \subseteq { n \in Nat : n >= Header }
  /\ Bases \subseteq Nat
  /\ Values \subseteq [size : Nat, align : Nat \ {0}]
  /\ Arrays \subseteq [count : Nat, stride : Nat, align : Nat \ {0}]
  /\ Width \in Nat \ {0}

VARIABLES blockSize,  \* data.len(), the same for all blocks of a pool
          base,       \* address of the last block
          offset,     \* next_item_offset of the last block
          placed,     \* what the last block holds: bytes from..to-1
          asked,      \* alignment of the last request
          outcome     \* of the last request

placementVars == <<blockSize, base, offset, placed, asked, outcome>>

\* Ranges, and where next_item_offset stands: behind the header of an empty
\* block, and at the end of one of the items of any other (block.rs:108, :126).
TypeOK ==
  /\ blockSize \in BlockSizes
  /\ base \in Bases
  /\ offset \in Nat
  /\ placed \subseteq [from : Nat, to : Nat, align : Nat, bytes : Nat]
  /\ asked \in Nat \ {0}
  /\ outcome \in {"none", "placed", "ItemDoesNotFit", "panic"}
  /\ placed = {} => offset = Header
  /\ placed # {} => \E i \in placed : i.to = offset

Init ==
  /\ blockSize \in BlockSizes
  /\ base \in Bases
  /\ offset = Header
  /\ placed = {}
  /\ asked = 1
  /\ outcome = "none"

-----------------------------------------------------------------------------

\* Mutant: what is missing to a multiple is not what is over it.
AlignedByRemainder(end, align) == end + (end % align)

\* next_item_aligned_start.
Aligned(end, align) == end + ((align - (end % align)) % align)

\* Mutant: the header is forgotten.
LargestItemWithHeader == blockSize

\* largest_item_size.
LargestItem == blockSize - Header

Wrapped(n) == n % 2^Width
Signed(n)  == IF n >= 2^(Width - 1) THEN n - 2^Width ELSE n

\* Mutant: the last byte of an item is given to the next one.
PlaceShort(fresh, from, size, align, bytes) ==
  LET to == Wrapped(from + size)
      item == [from |-> from, to |-> to, align |-> align, bytes |-> bytes]
  IN  /\ offset' = IF size > 0 THEN to - 1 ELSE to
      /\ placed' = IF fresh THEN {item} ELSE placed \cup {item}
      /\ outcome' = "placed"

\* Mutant: next_item_offset moves by the size, without the padding.
PlaceUnpadded(fresh, from, size, align, bytes) ==
  LET to == Wrapped(from + size)
      item == [from |-> from, to |-> to, align |-> align, bytes |-> bytes]
  IN  /\ offset' = Wrapped((IF fresh THEN Header ELSE offset) + size)
      /\ placed' = IF fresh THEN {item} ELSE placed \cup {item}
      /\ outcome' = "placed"

\* The item is recorded at its offset and next_item_offset moves behind it.
Place(fresh, from, size, align, bytes) ==
  LET to == Wrapped(from + size)
      item == [from |-> from, to |-> to, align |-> align, bytes |-> bytes]
  IN  /\ offset' = to
      /\ placed' = IF fresh THEN {item} ELSE placed \cup {item}
      /\ outcome' = "placed"

\* The request is refused before anything changes.
Refuse ==
  /\ outcome' = "ItemDoesNotFit"
  /\ UNCHANGED <<base, offset, placed>>

\* A fresh block was linked, and the request does not fit there either: the
\* call panics and leaves the empty block behind.
PanicInFresh ==
  /\ outcome' = "panic"
  /\ offset' = Header
  /\ placed' = {}

\* Mutant: the padding is not part of the comparison.
FitsUnpadded(from, end, size) == end + size <= blockSize

\* push_copy: the comparison of `end` with the block's length.
Fits(from, end, size) == from + size <= blockSize

\* upload_auto_drop and upload_no_drop, with Block::push_copy.
UploadValue(v) ==
  LET here  == Aligned(offset, v.align)
      there == Aligned(Header, v.align)
  IN
  /\ asked' = v.align
  /\ UNCHANGED blockSize
  /\ \/ /\ Fits(here, offset, v.size)
        /\ Place(FALSE, here, v.size, v.align, v.size)
        /\ UNCHANGED base
     \/ /\ ~Fits(here, offset, v.size) /\ v.size > LargestItem
        /\ Refuse
     \/ /\ ~Fits(here, offset, v.size) /\ v.size <= LargestItem
        /\ base' \in Bases
        /\ IF Fits(there, Header, v.size)
             THEN Place(TRUE, there, v.size, v.align, v.size)
             ELSE PanicInFresh

\* alloc_no_drop_items_aligned_uninit; upload_no_drop_bytes is the case of
\* stride and alignment 1.  The length is compared as an isize.
ReserveItems(r) ==
  LET bytes == r.count * r.stride
      total == Wrapped(bytes)
      here  == Aligned(offset, r.align)
      there == Aligned(Header, r.align)
  IN
  /\ asked' = r.align
  /\ UNCHANGED blockSize
  /\ \/ /\ blockSize - here >= Signed(total)
        /\ Place(FALSE, here, total, r.align, bytes)
        /\ UNCHANGED base
     \/ /\ blockSize - here < Signed(total) /\ total > LargestItem
        /\ Refuse
     \/ /\ blockSize - here < Signed(total) /\ total <= LargestItem
        /\ base' \in Bases
        /\ IF blockSize - there >= Signed(total)
             THEN Place(TRUE, there, total, r.align, bytes)
             ELSE PanicInFresh

Next == (\E v \in Values : UploadValue(v)) \/ (\E r \in Arrays : ReserveItems(r))

Spec == Init /\ [][Next]_placementVars

-----------------------------------------------------------------------------
(* Properties                                                              *)

\* Everything placed lies behind the block's header and inside the block, and
\* next_item_offset stays in it (block.rs:92, :125, :137) - as long as the
\* byte counts asked for are not negative as an isize.
InsideBlock ==
  /\ Header <= offset /\ offset <= blockSize
  /\ \A i \in placed : Header <= i.from /\ i.from <= i.to /\ i.to <= offset

\* No two items share a byte, and each has all the bytes it asked for.
NoOverlap ==
  /\ \A i, j \in placed : i # j => i.to <= j.from \/ j.to <= i.from
  /\ \A i \in placed : i.to - i.from = i.bytes

\* Placement adds no misalignment of its own: an item is off a multiple of its
\* alignment by what its block's address is off (dontdothis.rs:30-34), whatever
\* address the allocator chose for the boxed bytes.  No more can be had: blocks
\* are byte slices (memory.rs:26), so their addresses need not suit the type, as
\* the drop function asserts that they do (droplist.rs:126).
OnlyBaseMisaligns ==
  \A i \in placed : (base + i.from) % i.align = base % i.align

\* Only a request whose alignment needs padding behind the header panics: any
\* other that passes the size check fits a fresh block (the expects of
\* arena.rs:153, :178 and the unreachables of :205, :230).
PanicsOnlyForPadding == outcome = "panic" => Header % asked # 0

\* A request that is not bigger than the free space of an empty block succeeds,
\* in a fresh block if need be (arena.rs:20-21).
NeverPanics == outcome # "panic"
=============================================================================
