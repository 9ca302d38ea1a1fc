--------------------------- MODULE PlacementProofs ----------------------------
(***************************************************************************)
(* Theorems about the byte arithmetic of Placement, for every block size,  *)
(* header, size, alignment and address.                                    *)
(***************************************************************************)
EXTENDS Placement, TLAPS

-----------------------------------------------------------------------------
(* Remainders                                                              *)

\* A remainder is below the divisor.
LEMMA RemainderRange ==
  ASSUME NEW x \in Nat, NEW a \in Nat \ {0}
  PROVE  x % a \in 0..(a - 1)
OBVIOUS

\* A number below the divisor is its own remainder.
LEMMA SmallRemainder ==
  ASSUME NEW x \in Nat, NEW a \in Nat \ {0}, x < a
  PROVE  x % a = x
OBVIOUS

\* A multiple leaves no remainder.
LEMMA MultipleRemainder ==
  ASSUME NEW q \in Nat, NEW a \in Nat \ {0}
  PROVE  (a * q) % a = 0
OBVIOUS

\* A number is a multiple of the divisor and its remainder.
LEMMA Quotient ==
  ASSUME NEW x \in Nat, NEW a \in Nat, a > 0
  PROVE  /\ x \div a \in Nat
         /\ x % a = x - a * (x \div a)
<1>1. x \div a \in Nat
  OBVIOUS
<1>2. x % a = x - a * (x \div a)
  OBVIOUS
<1> QED BY <1>1, <1>2

\* A remainder below the divisor is what is left of a multiple and itself.
LEMMA RemainderOfSum ==
  ASSUME NEW q \in Nat, NEW a \in Nat, a > 0, NEW r \in 0..(a - 1)
  PROVE  (a * q + r) % a = r
<1> DEFINE x == a * q + r
           d == x \div a
<1>1. a * q \in Nat /\ x \in Nat
  OBVIOUS
<1>2. d \in Nat /\ x % a = x - a * d /\ x % a \in 0..(a - 1)
  BY <1>1, Quotient, RemainderRange
<1>3. x = a * q + r
  OBVIOUS
<1> HIDE DEF x, d
<1>4. a * (q - d) = (x % a) - r
  BY <1>2, <1>3
<1>5. q - d = 0
  <2>1. CASE q - d >= 1
    <3>1. a * (q - d) >= a
      BY <1>2, <2>1
    <3> QED BY <1>2, <1>4, <3>1
  <2>2. CASE q - d <= -1
    <3>1. a * (q - d) <= -a
      BY <1>2, <2>2
    <3> QED BY <1>2, <1>4, <3>1
  <2> QED BY <1>2, <2>1, <2>2
<1>6. x % a = r
  BY <1>2, <1>4, <1>5
<1> QED BY <1>6 DEF x

\* Adding a multiple does not change the remainder.
LEMMA AddMultiple ==
  ASSUME NEW x \in Nat, NEW y \in Nat, NEW a \in Nat \ {0}, y % a = 0
  PROVE  (x + y) % a = x % a
<1> DEFINE p == x \div a
           q == y \div a
           r == x % a
<1>1. p \in Nat /\ x = a * p + r /\ r \in 0..(a - 1)
  <2>1. p \in Nat /\ x % a = x - a * p
    BY Quotient
  <2>2. r \in 0..(a - 1)
    BY RemainderRange
  <2>3. r = x - a * p
    BY <2>1
  <2> HIDE DEF p, r
  <2>4. a * p \in Nat
    BY <2>1
  <2> QED BY <2>1, <2>2, <2>3, <2>4
<1>2. q \in Nat /\ y = a * q
  BY Quotient
<1> HIDE DEF p, q, r
<1>3. x + y = a * (p + q) + r
  BY <1>1, <1>2
<1>4. (x + y) % a = r
  BY <1>1, <1>2, <1>3, RemainderOfSum
<1> QED BY <1>4 DEF r

\* next_item_aligned_start gives the offset itself or a later one, which is a
\* multiple of the alignment (dontdothis.rs:30-34).
LEMMA AlignedNext ==
  ASSUME NEW end \in Nat, NEW align \in Nat \ {0}
  PROVE  /\ Aligned(end, align) \in Nat
         /\ Aligned(end, align) >= end
         /\ Aligned(end, align) % align = 0
         /\ end % align = 0 => Aligned(end, align) = end
<1>1. end % align \in 0..(align - 1)
  BY RemainderRange
<1>2. align - (end % align) \in Nat
  BY <1>1
<1>3. (align - (end % align)) % align \in 0..(align - 1)
  BY <1>2, RemainderRange
<1>4. Aligned(end, align) % align = 0
  BY DEF Aligned
<1>5. end % align = 0 => (align - (end % align)) % align = 0
  <2>1. (align * 1) % align = 0
    BY MultipleRemainder
  <2> QED BY <2>1
<1> QED BY <1>3, <1>4, <1>5 DEF Aligned

-----------------------------------------------------------------------------
(* The inductive invariant                                                 *)

\* Bound: blocks and the byte counts asked for are below 2^(Width - 1), as
\* isize::MAX is for every Rust slice; without this InsideBlock fails.  (That
\* a power of two is a number is beyond the provers.)
CountsFit ==
  /\ 2^Width \in Nat /\ 2^(Width - 1) \in 0..(2^Width)
  /\ \A n \in BlockSizes : n < 2^(Width - 1)
  /\ \A r \in Arrays : r.count * r.stride < 2^(Width - 1)

IInv == TypeOK /\ InsideBlock /\ NoOverlap

\* The invariant holds at the start.
LEMMA InitHolds == Init => IInv
BY PlacementAssumption DEF Init, IInv, TypeOK, InsideBlock, NoOverlap

\* A run of bytes placed behind the offset, up to the block's end at most,
\* keeps the invariant.
LEMMA PlaceKeeps ==
  ASSUME CountsFit, IInv, NEW fresh \in BOOLEAN, NEW from \in Nat, NEW size \in Nat,
         NEW align \in Nat \ {0},
         from >= IF fresh THEN Header ELSE offset, from + size <= blockSize,
         blockSize' = blockSize, base' \in Bases, asked' = align,
         Place(fresh, from, size, align, size)
  PROVE  IInv'
<1> DEFINE to   == from + size
           item == [from |-> from, to |-> to, align |-> align, bytes |-> size]
<1>1. blockSize \in Nat /\ blockSize < 2^Width /\ Header \in Nat /\ Header <= blockSize
  BY PlacementAssumption DEF CountsFit, IInv, TypeOK
<1>2. Wrapped(from + size) = to
  BY <1>1, SmallRemainder DEF CountsFit, Wrapped
<1>3. /\ offset' = to
      /\ placed' = IF fresh THEN {item} ELSE placed \cup {item}
      /\ outcome' = "placed"
  BY <1>2 DEF Place
<1>4. to \in Nat /\ Header <= from /\ from <= to /\ to <= blockSize
  BY <1>1 DEF IInv, TypeOK, InsideBlock
<1>5. ~fresh => offset <= from
  OBVIOUS
<1>6. item \in [from : Nat, to : Nat, align : Nat, bytes : Nat]
  BY <1>4
<1>7. TypeOK'
  <2>1. item \in placed' /\ item.to = offset'
    BY <1>3
  <2> QED BY <1>3, <1>4, <1>6, <2>1 DEF IInv, TypeOK
<1>8. ASSUME NEW i \in placed' PROVE i = item \/ (~fresh /\ i \in placed)
  <2>1. CASE fresh
    BY <1>3, <1>8, <2>1
  <2>2. CASE ~fresh
    BY <1>3, <1>8, <2>2
  <2> QED BY <2>1, <2>2
<1>9. ASSUME NEW i \in placed, ~fresh
      PROVE  /\ i.from \in Nat /\ i.to \in Nat
             /\ Header <= i.from /\ i.from <= i.to /\ i.to <= from
  BY <1>5, <1>9 DEF IInv, TypeOK, InsideBlock
<1>10. InsideBlock'
  <2>1. ASSUME NEW i \in placed'
        PROVE  Header <= i.from /\ i.from <= i.to /\ i.to <= to
    BY <1>4, <1>8, <1>9, <2>1
  <2> QED BY <1>1, <1>3, <1>4, <2>1 DEF InsideBlock
<1>11. NoOverlap'
  <2>1. ASSUME NEW i \in placed', NEW j \in placed', i # j
        PROVE  i.to <= j.from \/ j.to <= i.from
    BY <1>8, <1>9, <2>1 DEF IInv, NoOverlap
  <2>2. ASSUME NEW i \in placed' PROVE i.to - i.from = i.bytes
    BY <1>8, <2>2 DEF IInv, NoOverlap
  <2> QED BY <2>1, <2>2 DEF NoOverlap
<1> QED
  BY <1>7, <1>10, <1>11 DEF IInv

\* An upload that is refused leaves the block alone.
LEMMA RefuseKeeps ==
  ASSUME IInv, NEW align \in Nat \ {0}, asked' = align, blockSize' = blockSize, Refuse
  PROVE  IInv'
BY DEF IInv, TypeOK, InsideBlock, NoOverlap, Refuse

\* So does one that panics.
LEMMA PanicKeeps ==
  ASSUME IInv, NEW align \in Nat \ {0}, asked' = align, blockSize' = blockSize,
         base' \in Bases, PanicInFresh
  PROVE  IInv'
BY PlacementAssumption DEF IInv, TypeOK, InsideBlock, NoOverlap, PanicInFresh

\* A value is placed behind the others and inside the block.
LEMMA UploadKeeps ==
  ASSUME CountsFit, IInv, NEW v \in Values, UploadValue(v)
  PROVE  IInv'
<1> DEFINE here  == Aligned(offset, v.align)
           there == Aligned(Header, v.align)
<1>1. v.size \in Nat /\ v.align \in Nat \ {0} /\ Header \in Nat /\ offset \in Nat
  BY PlacementAssumption DEF IInv, TypeOK
<1>2. here \in Nat /\ here >= offset /\ there \in Nat /\ there >= Header
  BY <1>1, AlignedNext
<1>3. asked' = v.align /\ blockSize' = blockSize
  BY DEF UploadValue
<1> HIDE DEF here, there
<1>4. CASE Fits(here, offset, v.size) /\ Place(FALSE, here, v.size, v.align, v.size)
           /\ UNCHANGED base
  BY <1>1, <1>2, <1>3, <1>4, PlaceKeeps DEF Fits, IInv, TypeOK
<1>5. CASE Refuse
  BY <1>1, <1>3, <1>5, RefuseKeeps
<1>6. CASE base' \in Bases /\ Fits(there, Header, v.size)
           /\ Place(TRUE, there, v.size, v.align, v.size)
  BY <1>1, <1>2, <1>3, <1>6, PlaceKeeps DEF Fits
<1>7. CASE base' \in Bases /\ PanicInFresh
  BY <1>1, <1>3, <1>7, PanicKeeps
<1> QED
  BY <1>4, <1>5, <1>6, <1>7 DEF UploadValue, here, there

\* So is a run of reserved items.
LEMMA ReserveKeeps ==
  ASSUME CountsFit, IInv, NEW r \in Arrays, ReserveItems(r)
  PROVE  IInv'
<1> DEFINE bytes == r.count * r.stride
           here  == Aligned(offset, r.align)
           there == Aligned(Header, r.align)
<1>1. /\ bytes \in Nat /\ r.align \in Nat \ {0}
      /\ Header \in Nat /\ offset \in Nat /\ blockSize \in Nat
  BY PlacementAssumption DEF IInv, TypeOK
<1>2. here \in Nat /\ here >= offset /\ there \in Nat /\ there >= Header
  BY <1>1, AlignedNext
<1>3. asked' = r.align /\ blockSize' = blockSize
  BY DEF ReserveItems
<1>4. bytes < 2^(Width - 1)
  BY DEF CountsFit
<1> HIDE DEF bytes, here, there
<1>5. Wrapped(bytes) = bytes /\ Signed(bytes) = bytes
  BY <1>1, <1>4, SmallRemainder DEF CountsFit, Wrapped, Signed
<1>6. CASE blockSize - here >= bytes /\ Place(FALSE, here, bytes, r.align, bytes)
           /\ UNCHANGED base
  <2>1. here + bytes <= blockSize /\ base' \in Bases
    BY <1>1, <1>2, <1>6 DEF IInv, TypeOK
  <2> QED BY <1>1, <1>2, <1>3, <1>6, <2>1, PlaceKeeps
<1>7. CASE Refuse
  BY <1>1, <1>3, <1>7, RefuseKeeps
<1>8. CASE base' \in Bases /\ blockSize - there >= bytes
           /\ Place(TRUE, there, bytes, r.align, bytes)
  <2>1. there + bytes <= blockSize
    BY <1>1, <1>2, <1>8
  <2> QED BY <1>1, <1>2, <1>3, <1>8, <2>1, PlaceKeeps
<1>9. CASE base' \in Bases /\ PanicInFresh
  BY <1>1, <1>3, <1>9, PanicKeeps
<1> QED
  BY <1>5, <1>6, <1>7, <1>8, <1>9 DEF ReserveItems, bytes, here, there

\* Every step keeps the invariant.
LEMMA Inductive ==
  ASSUME CountsFit
  PROVE  IInv /\ [Next]_placementVars => IInv'
<1> SUFFICES ASSUME IInv, [Next]_placementVars PROVE IInv'
  OBVIOUS
<1>1. CASE UNCHANGED placementVars
  BY <1>1 DEF placementVars, IInv, TypeOK, InsideBlock, NoOverlap
<1> QED
  BY <1>1, UploadKeeps, ReserveKeeps DEF Next

\* The invariant holds always.
LEMMA Invariance ==
  ASSUME CountsFit
  PROVE  Spec => []IInv
<1>1. IInv /\ [Next]_placementVars => IInv'
  BY Inductive
<1> QED BY <1>1, InitHolds, PTL DEF Spec

-----------------------------------------------------------------------------
(* Theorems                                                                *)

\* What the block remembers keeps its type, for blocks and byte counts below
\* the sign bit.
THEOREM TypeCorrect ==
  ASSUME CountsFit
  PROVE  Spec => []TypeOK
<1>1. IInv => TypeOK
  BY DEF IInv
<1> QED BY <1>1, Invariance, PTL

\* With them nothing is ever placed in the header or past the block's end,
\* whatever the sizes, counts and alignments (block.rs:92, :125, :137).
THEOREM Inside ==
  ASSUME CountsFit
  PROVE  Spec => []InsideBlock
<1>1. IInv => InsideBlock
  BY DEF IInv
<1> QED BY <1>1, Invariance, PTL

\* And no two items share a byte, and none is shorter than it should be.
THEOREM Disjoint ==
  ASSUME CountsFit
  PROVE  Spec => []NoOverlap
<1>1. IInv => NoOverlap
  BY DEF IInv
<1> QED BY <1>1, Invariance, PTL

-----------------------------------------------------------------------------
(* Alignment and panics                                                    *)

\* Items are at offsets that are multiples of their alignments.
Multiples ==
  \A i \in placed : i.align \in Nat \ {0} /\ i.from % i.align = 0

\* A placed item is at a multiple of its alignment.
LEMMA PlaceMultiples ==
  ASSUME Multiples, NEW fresh \in BOOLEAN, NEW from, NEW size, NEW bytes,
         NEW align \in Nat \ {0}, from % align = 0,
         Place(fresh, from, size, align, bytes)
  PROVE  Multiples'
<1> DEFINE item == [from |-> from, to |-> Wrapped(from + size), align |-> align,
                    bytes |-> bytes]
<1>1. placed' = IF fresh THEN {item} ELSE placed \cup {item}
  BY DEF Place
<1>2. item.align = align /\ item.from = from
  OBVIOUS
<1> HIDE DEF item
<1>3. ASSUME NEW i \in placed' PROVE i.align \in Nat \ {0} /\ i.from % i.align = 0
  <2>1. CASE i = item
    BY <1>2, <2>1
  <2>2. CASE i \in placed
    BY <2>2 DEF Multiples
  <2> QED BY <1>1, <1>3, <2>1, <2>2
<1> QED BY <1>3 DEF Multiples

\* Values are placed at multiples of their alignments.
LEMMA UploadMultiples ==
  ASSUME TypeOK, Multiples, NEW v \in Values, UploadValue(v)
  PROVE  Multiples'
<1> DEFINE here  == Aligned(offset, v.align)
           there == Aligned(Header, v.align)
<1>1. v.align \in Nat \ {0} /\ here % v.align = 0 /\ there % v.align = 0
  BY PlacementAssumption, AlignedNext DEF TypeOK
<1> HIDE DEF here, there
<1>2. CASE Place(FALSE, here, v.size, v.align, v.size)
  BY <1>1, <1>2, PlaceMultiples
<1>3. CASE Place(TRUE, there, v.size, v.align, v.size)
  BY <1>1, <1>3, PlaceMultiples
<1>4. CASE Refuse \/ PanicInFresh
  BY <1>4 DEF Refuse, PanicInFresh, Multiples
<1> QED
  BY <1>2, <1>3, <1>4 DEF UploadValue, here, there

\* Reserved runs are placed at multiples of their alignments.
LEMMA ReserveMultiples ==
  ASSUME TypeOK, Multiples, NEW r \in Arrays, ReserveItems(r)
  PROVE  Multiples'
<1> DEFINE bytes == r.count * r.stride
           here  == Aligned(offset, r.align)
           there == Aligned(Header, r.align)
           total == Wrapped(bytes)
<1>1. r.align \in Nat \ {0} /\ here % r.align = 0 /\ there % r.align = 0
  BY PlacementAssumption, AlignedNext DEF TypeOK
<1> HIDE DEF bytes, here, there, total
<1>2. CASE Place(FALSE, here, total, r.align, bytes)
  BY <1>1, <1>2, PlaceMultiples
<1>3. CASE Place(TRUE, there, total, r.align, bytes)
  BY <1>1, <1>3, PlaceMultiples
<1>4. CASE Refuse \/ PanicInFresh
  BY <1>4 DEF Refuse, PanicInFresh, Multiples
<1> QED
  BY <1>2, <1>3, <1>4 DEF ReserveItems, bytes, here, there, total

\* An item's address is off its alignment by what the block's is, for every
\* address the allocator may choose (dontdothis.rs:30-34): only a block at an
\* address that does not suit the type makes the assertion of droplist.rs:126
\* fail.
THEOREM NoOtherMisalignment ==
  ASSUME CountsFit
  PROVE  Spec => []OnlyBaseMisaligns
<1>1. Init => Multiples
  BY DEF Init, Multiples
<1>2. IInv /\ Multiples /\ [Next]_placementVars => Multiples'
  <2> SUFFICES ASSUME IInv, Multiples, [Next]_placementVars PROVE Multiples'
    OBVIOUS
  <2>1. CASE UNCHANGED placementVars
    BY <2>1 DEF placementVars, Multiples
  <2> QED
    BY <2>1, UploadMultiples, ReserveMultiples DEF Next, IInv
<1>3. IInv /\ Multiples => OnlyBaseMisaligns
  <2> SUFFICES ASSUME IInv, Multiples, NEW i \in placed
               PROVE  (base + i.from) % i.align = base % i.align
    BY DEF OnlyBaseMisaligns
  <2>1. base \in Nat /\ i.from \in Nat /\ i.align \in Nat \ {0} /\ i.from % i.align = 0
    BY PlacementAssumption DEF IInv, TypeOK, Multiples
  <2> QED BY <2>1, AddMultiple
<1>4. Spec => []IInv
  BY Invariance
<1> QED BY <1>1, <1>2, <1>3, <1>4, PTL DEF Spec

\* A fresh block refuses what passed the size test only if padding behind its
\* header takes the room (arena.rs:153, :178, :205, :230): with the header a
\* multiple of the alignment there is none, and the test is exact.
THEOREM PanicOnlyByPadding ==
  ASSUME CountsFit
  PROVE  Spec => []PanicsOnlyForPadding
<1>1. Init => PanicsOnlyForPadding
  BY DEF Init, PanicsOnlyForPadding
<1>2. IInv /\ PanicsOnlyForPadding /\ [Next]_placementVars => PanicsOnlyForPadding'
  <2> SUFFICES ASSUME IInv, PanicsOnlyForPadding, [Next]_placementVars,
                      outcome' = "panic"
               PROVE  Header % asked' # 0
    BY DEF PanicsOnlyForPadding
  <2>0. Header \in Nat /\ blockSize \in Nat
    BY PlacementAssumption DEF IInv, TypeOK
  <2>1. ASSUME NEW v \in Values, UploadValue(v) PROVE Header % asked' # 0
    <3>1. /\ v.size <= LargestItem /\ ~Fits(Aligned(Header, v.align), Header, v.size)
          /\ asked' = v.align
      BY <2>1 DEF UploadValue, Place, Refuse
    <3>2. v.size \in Nat /\ v.align \in Nat \ {0}
      BY PlacementAssumption
    <3>3. Header % v.align = 0 => Aligned(Header, v.align) = Header
      BY <2>0, <3>2, AlignedNext
    <3> QED BY <2>0, <3>1, <3>2, <3>3 DEF Fits, LargestItem
  <2>2. ASSUME NEW r \in Arrays, ReserveItems(r) PROVE Header % asked' # 0
    <3> DEFINE bytes == r.count * r.stride
               there == Aligned(Header, r.align)
    <3>1. bytes \in Nat /\ bytes < 2^(Width - 1) /\ r.align \in Nat \ {0}
      BY PlacementAssumption DEF CountsFit
    <3>2. Header % r.align = 0 => there = Header
      BY <2>0, <3>1, AlignedNext
    <3>3. /\ Wrapped(bytes) <= LargestItem /\ ~(blockSize - there >= Signed(Wrapped(bytes)))
          /\ asked' = r.align
      BY <2>2 DEF ReserveItems, Place, Refuse
    <3> HIDE DEF bytes, there
    <3>4. Wrapped(bytes) = bytes /\ Signed(bytes) = bytes
      BY <3>1, SmallRemainder DEF CountsFit, Wrapped, Signed
    <3> QED BY <2>0, <3>1, <3>2, <3>3, <3>4 DEF LargestItem
  <2>3. CASE UNCHANGED placementVars
    BY <2>3 DEF placementVars, PanicsOnlyForPadding
  <2> QED BY <2>1, <2>2, <2>3 DEF Next
<1>3. Spec => []IInv
  BY Invariance
<1> QED BY <1>1, <1>2, <1>3, PTL DEF Spec
=============================================================================
