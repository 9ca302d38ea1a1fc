-------------------------- MODULE CollectionsSteps --------------------------
(***************************************************************************)
(* What the steps of Collections do: the types they keep, who runs after   *)
(* them, what they do to the items of each collection, where they put the  *)
(* values, and which nodes and list items they leave alone.                *)
(* CollectionsProofs uses it.                                              *)
(***************************************************************************)
EXTENDS CollectionsInvariant, SequenceFacts

-----------------------------------------------------------------------------
(* The kinds of steps                                                      *)

\* The steps of the nodes, of each collection, of the strings, and of the arena's
\* end.
NStep ==
  OnlyN /\ \E v \in Value : NNew(v) \/ NRefused(v) \/ \E p \in Value : NOutlives(p, v)

ListStep ==
  /\ OnlyList
  /\ \/ \E fits \in BOOLEAN : ListNew(fits)
     \/ \E v \in Value : ListPush(v) \/ ListPushTooBig(v) \/ ListPushDead(v)

ArrayStep ==
  /\ OnlyArray
  /\ \/ ArrayPop \/ StartTable
     \/ \E cap \in AskedCaps, fits \in BOOLEAN : ArrayNew(cap, fits)
     \/ \E v \in Value : ArrayPush(v) \/ ArrayPushFails(v) \/ ArrayPushDead(v)

FixedStep ==
  /\ OnlyFixed
  /\ \/ FixedDone \/ WriteNull \/ StartFixed \/ EndFixed
     \/ \E cap \in Regions : FixedReserve(cap)
     \/ \E v \in Value : InitPush(v) \/ InitPushIgnored(v)
     \/ \E vs \in Batches :
          \/ FillByC(vs)
          \/ \E src \in Sources : FixedNew(src, vs) \/ FixedNewTooBig(src, vs)

TextStep == OnlyText /\ \E s \in Strs \cup CStrs : UStrNew(s)

ArenaStep ==
  /\ OnlyArena
  /\ \/ DropArena \/ StartValue \/ OpenNext \/ DropOwn \/ DropHead \/ DropReturn
     \/ DropPanic \/ EndEntry("value") \/ EndEntry("table") \/ EndUnwind \/ FinishChain

\* Every step is one of these.
LEMMA StepKinds ==
  ASSUME [Next]_vars
  PROVE  NStep \/ ListStep \/ ArrayStep \/ FixedStep \/ TextStep \/ ArenaStep \/ UNCHANGED vars
<1>1. CASE Asking
  BY <1>1, Zenon DEF Asking, NStep, ListStep, ArrayStep, FixedStep, TextStep, ArenaStep
<1>2. CASE Dropping
  BY <1>2, Zenon DEF Dropping, NStep, ListStep, ArrayStep, FixedStep, TextStep, ArenaStep
<1> QED BY <1>1, <1>2 DEF Next

-----------------------------------------------------------------------------
(* Types                                                                   *)

\* What a failed call does to the values.
LEMMA DropsAllEffect ==
  ASSUME drops \in [Value -> Nat], NEW vs, DropsAll(vs)
  PROVE  /\ vs \subseteq outside /\ outside' = outside \ vs
         /\ drops' \in [Value -> Nat]
         /\ \A v \in Value : drops'[v] = IF v \in vs THEN drops[v] + 1 ELSE drops[v]
<1>1. /\ vs \subseteq outside /\ outside' = outside \ vs
      /\ drops' = [v \in Value |-> drops[v] + (IF v \in vs THEN 1 ELSE 0)]
  BY DEF DropsAll
<1> QED BY ONLY drops \in [Value -> Nat], <1>1

\* A call that neither registers nor starts a drop function keeps the arena's
\* types.
LEMMA ArenaKept ==
  ASSUME TenantsTypeOK, UNCHANGED arenaVars, outside' \subseteq Value, drops' \in [Value -> Nat]
  PROVE  TenantsTypeOK'
BY DEF TenantsTypeOK, arenaVars

\* So does a call that drops what it was given.
LEMMA RefusalTyped ==
  ASSUME TenantsTypeOK, NEW vs, Refuses(vs)
  PROVE  TenantsTypeOK'
<1>1. drops \in [Value -> Nat] /\ outside \subseteq Value
  BY DEF TenantsTypeOK
<1>2. DropsAll(vs) /\ UNCHANGED arenaVars
  BY DEF Refuses
<1>3. outside' \subseteq Value /\ drops' \in [Value -> Nat]
  BY <1>1, <1>2, DropsAllEffect
<1> QED BY <1>2, <1>3, ArenaKept

\* So does one that registers a drop function.
LEMMA RegisterTyped ==
  ASSUME TenantsTypeOK, NEW fn \in DropFn, NEW v \in Value \cup {None}, Register(fn, v),
         UNCHANGED <<phase, running, todo, walks, busy, unwinding, largest>>,
         fault' \in {fault, "overrun"},
         outside' \subseteq Value, drops' \in [Value -> Nat]
  PROVE  TenantsTypeOK'
<1> DEFINE Entries == [fn : DropFn, of : Value \cup {None}]
<1>1. Entry(fn, v) \in Entries
  BY DEF Entry
<1>2. registered \in Seq(Entries) /\ registered' = Append(registered, Entry(fn, v))
  BY Zenon DEF TenantsTypeOK, Register
<1>3. registered' \in Seq(Entries)
  BY ONLY <1>1, <1>2
<1> QED BY <1>3 DEF TenantsTypeOK

\* N::new and outlives keep the types.
LEMMA NTyped ==
  ASSUME TypeOK, NStep
  PROVE  TypeOK'
<1>1. TenantsTypeOK /\ nodes \in Seq(Value) /\ owned \in [Value -> Seq(Value)] /\ outside \subseteq Value
      /\ drops \in [Value -> Nat]
  BY DEF TypeOK, TenantsTypeOK, OutlivesTypeOK
<1>2. ListTypeOK' /\ ArrayTypeOK' /\ FixedTypeOK' /\ UStrTypeOK'
  BY DEF NStep, OnlyN, TypeOK, ListTypeOK, ArrayTypeOK, ArrCap, FixedTypeOK, Room, UStrTypeOK,
         listVars, arrVars, fixVars
<1>3. ASSUME NEW v \in Value, NNew(v) PROVE TenantsTypeOK' /\ OutlivesTypeOK'
  <2>1. /\ Register("value", v) /\ UNCHANGED <<phase, running, todo, walks, busy, unwinding, largest, fault>>
        /\ outside' = outside \ {v} /\ drops' = drops /\ nodes' = Append(nodes, v) /\ owned' = owned
    BY <1>3 DEF NNew, Takes
  <2>2. TenantsTypeOK'
    BY <1>1, <2>1, RegisterTyped DEF DropFn
  <2> QED BY <1>1, <2>1, <2>2 DEF OutlivesTypeOK
<1>4. ASSUME NEW v \in Value, NRefused(v) PROVE TenantsTypeOK' /\ OutlivesTypeOK'
  BY <1>1, <1>4, RefusalTyped DEF NRefused, nVars, TypeOK, OutlivesTypeOK
<1>5. ASSUME NEW v \in Value, NEW p \in Value, NOutlives(p, v) PROVE TenantsTypeOK' /\ OutlivesTypeOK'
  <2>1. /\ UNCHANGED arenaVars /\ outside' = outside \ {v} /\ drops' = drops
        /\ nodes' = Append(nodes, v) /\ owned' = [owned EXCEPT ![p] = <<v>> \o @]
    BY <1>5 DEF NOutlives, Takes
  <2>2. TenantsTypeOK'
    BY <1>1, <2>1, ArenaKept
  <2>3. <<v>> \o owned[p] \in Seq(Value)
    BY <1>1
  <2> QED BY <1>1, <2>1, <2>2, <2>3 DEF OutlivesTypeOK
<1> QED BY <1>2, <1>3, <1>4, <1>5 DEF NStep, TypeOK

\* So do List::new and push: the segment that push writes to is there.
LEMMA ListTyped ==
  ASSUME TypeOK, SegmentsInv, ListStep
  PROVE  TypeOK'
<1>1. OutlivesTypeOK' /\ ArrayTypeOK' /\ FixedTypeOK' /\ UStrTypeOK'
  BY DEF ListStep, OnlyList, TypeOK, OutlivesTypeOK, ArrayTypeOK, ArrCap, FixedTypeOK, Room,
     UStrTypeOK,
         nVars, arrVars, fixVars
<1> DEFINE Segment == [0..(SegMax - 1) -> Value \cup {None}]
<1>2. /\ EmptySegment \in Segment /\ SegMax \in Nat \ {0}
      /\ TenantsTypeOK /\ listOpen \in BOOLEAN /\ listFits \in BOOLEAN /\ segments \in Seq(Segment)
      /\ usedSlots \in 0..SegMax /\ listLen \in Nat /\ outside \subseteq Value /\ drops \in [Value -> Nat]
  BY SegMaxAssumption DEF EmptySegment, TypeOK, TenantsTypeOK, ListTypeOK
<1>3. ListTypeOK' <=> /\ listOpen' \in BOOLEAN /\ listFits' \in BOOLEAN /\ segments' \in Seq(Segment)
                      /\ usedSlots' \in 0..SegMax /\ listLen' \in Nat
  BY DEF ListTypeOK
<1> HIDE DEF Segment
<1>4. ASSUME NEW fits \in BOOLEAN, ListNew(fits) PROVE TenantsTypeOK' /\ ListTypeOK'
  <2>1. /\ UNCHANGED tenantVars /\ listOpen' = TRUE /\ listFits' = fits /\ segments' = <<EmptySegment>>
        /\ UNCHANGED <<usedSlots, listLen>>
    BY <1>4 DEF ListNew
  <2>2. TenantsTypeOK'
    BY <1>2, <2>1, ArenaKept DEF tenantVars
  <2> QED BY <1>2, <1>3, <2>1, <2>2
<1>5. ASSUME NEW v \in Value, ListPush(v) PROVE TenantsTypeOK' /\ ListTypeOK'
  <2>1. /\ Register("value", v) /\ UNCHANGED <<phase, running, todo, walks, busy, unwinding, largest, fault>>
        /\ outside' = outside \ {v} /\ drops' = drops /\ UNCHANGED <<listOpen, listFits>> /\ listLen' = listLen + 1
        /\ \/ /\ usedSlots < SegMax /\ usedSlots' = usedSlots + 1
              /\ segments' = [segments EXCEPT ![Len(segments)][usedSlots] = v]
           \/ usedSlots' = 1 /\ segments' = Append(segments, [EmptySegment EXCEPT ![0] = v])
    BY <1>5 DEF ListPush, Takes, HasSlot
  <2>2. TenantsTypeOK'
    BY <1>2, <2>1, RegisterTyped DEF DropFn
  <2>3. [segments EXCEPT ![Len(segments)][usedSlots] = v] \in Seq(Segment)
    <3>1. Len(segments) >= 1
      BY <1>5 DEF ListPush, SegmentsInv
    <3>2. Len(segments) \in 1..Len(segments) /\ segments[Len(segments)] \in Segment
      BY ONLY <1>2, <3>1
    <3>3. [segments[Len(segments)] EXCEPT ![usedSlots] = v] \in Segment
      BY ONLY <3>2 DEF Segment
    <3> QED BY ONLY <1>2, <3>2, <3>3
  <2>4. [EmptySegment EXCEPT ![0] = v] \in Segment
    BY ONLY <1>2 DEF Segment
  <2>5. segments' \in Seq(Segment)
    <3>1. Append(segments, [EmptySegment EXCEPT ![0] = v]) \in Seq(Segment)
      BY ONLY <1>2, <2>4, AppendProperties, Zenon
    <3> QED BY <2>1, <2>3, <3>1
  <2>6. usedSlots' \in 0..SegMax /\ listLen' \in Nat
    BY ONLY <1>2, <2>1
  <2> QED BY <1>2, <1>3, <2>1, <2>2, <2>5, <2>6
<1>6. ASSUME NEW v \in Value, ListPushTooBig(v) PROVE TenantsTypeOK' /\ ListTypeOK'
  <2>1. TenantsTypeOK'
    BY <1>6, RefusalTyped DEF ListPushTooBig, TypeOK
  <2> QED BY <1>2, <1>3, <1>6, <2>1 DEF ListPushTooBig, HasSlot
<1>7. ASSUME NEW v \in Value, ListPushDead(v) PROVE TenantsTypeOK' /\ ListTypeOK'
  BY <1>2, <1>3, <1>7, RefusalTyped DEF ListPushDead, listVars
<1> QED BY <1>1, <1>4, <1>5, <1>6, <1>7 DEF ListStep, TypeOK

\* A new table of pointers has no item in it.
LEMMA TableRow ==
  ASSUME NEW n \in Nat
  PROVE  /\ Table(n) \in Seq(Value \cup {Garbage}) /\ Len(Table(n)) = n
         /\ \A i \in 1..n : Table(n)[i] = Garbage
BY DEF Table

\* The table has room for one more item when it is placed, behind those there.
LEMMA RoomyTable ==
  ASSUME ArrayTypeOK
  PROVE  /\ Roomy \in Seq(Value \cup {Garbage}) /\ Len(Roomy) >= arrLen + 1
         /\ \A i \in 1..arrLen : Roomy[i] = ptrs[i]
<1>1. ptrs \in Seq(Value \cup {Garbage}) /\ arrLen \in 0..Len(ptrs)
  BY DEF ArrayTypeOK, ArrCap
<1>2. CASE arrLen = Len(ptrs)
  <2>1. NewCap \in Nat /\ NewCap >= arrLen + 1
    BY <1>1, <1>2, GrowableAssumption DEF NewCap, ArrCap
  <2>2. SubSeq(ptrs, 1, arrLen) = ptrs
    BY ONLY <1>1, <1>2, SubSeqFull, Zenon
  <2>3. Roomy = ptrs \o Table(NewCap - arrLen)
    BY <1>2, <2>2 DEF Roomy, NeedsGrowth, ArrCap, Grown
  <2>4. NewCap - arrLen \in Nat /\ NewCap - arrLen >= 1
    BY <1>1, <2>1
  <2> DEFINE t == Table(NewCap - arrLen)
  <2>5. t \in Seq(Value \cup {Garbage}) /\ Len(t) >= 1
    BY <2>4, TableRow
  <2> HIDE DEF t
  <2>6. /\ ptrs \o t \in Seq(Value \cup {Garbage}) /\ Len(ptrs \o t) = Len(ptrs) + Len(t)
        /\ \A i \in 1..Len(ptrs) : (ptrs \o t)[i] = ptrs[i]
    BY ONLY <1>1, <2>5
  <2> QED BY ONLY <1>1, <1>2, <2>3, <2>5, <2>6 DEF t
<1>3. CASE arrLen # Len(ptrs)
  BY <1>1, <1>3 DEF Roomy, NeedsGrowth, ArrCap
<1> QED BY <1>2, <1>3

\* TypeOK, component by component.
LEMMA TypeParts ==
  ASSUME TypeOK
  PROVE  /\ TenantsTypeOK /\ drops \in [Value -> Nat] /\ outside \subseteq Value
         /\ OutlivesTypeOK /\ nodes \in Seq(Value) /\ owned \in [Value -> Seq(Value)]
         /\ ListTypeOK
         /\ ArrayTypeOK /\ ptrs \in Seq(Value \cup {Garbage}) /\ arrLen \in 0..Len(ptrs)
         /\ FixedTypeOK /\ cells \in Seq(Value \cup {Garbage}) /\ fixLen \in Nat /\ initLen \in 0..Len(cells)
         /\ spilled \subseteq Value
         /\ UStrTypeOK
<1>1. TenantsTypeOK /\ OutlivesTypeOK /\ ListTypeOK /\ ArrayTypeOK /\ FixedTypeOK /\ UStrTypeOK
  BY DEF TypeOK
<1>2. drops \in [Value -> Nat] /\ outside \subseteq Value
  BY <1>1 DEF TenantsTypeOK
<1>3. /\ nodes \in Seq(Value) /\ owned \in [Value -> Seq(Value)]
      /\ ptrs \in Seq(Value \cup {Garbage}) /\ arrLen \in 0..Len(ptrs)
  BY ONLY <1>1 DEF OutlivesTypeOK, ArrayTypeOK, ArrCap
<1>4. /\ cells \in Seq(Value \cup {Garbage}) /\ fixLen \in Nat /\ initLen \in 0..Len(cells)
      /\ spilled \subseteq Value
  BY ONLY <1>1 DEF FixedTypeOK, Room
<1> QED BY <1>1, <1>2, <1>3, <1>4

\* And the parts that the components share.
LEMMA TenantParts ==
  ASSUME TenantsTypeOK
  PROVE  /\ phase \in {"alive", "dying", "dead"} /\ running \in DropFn \cup {None}
         /\ registered \in Seq([fn : DropFn, of : Value \cup {None}])
         /\ todo \in Seq(Value \cup {Garbage})
         /\ walks \in Seq([of : Value, next : Nat \ {0}])
         /\ busy \in Value \cup {None} /\ unwinding \in BOOLEAN
         /\ drops \in [Value -> Nat] /\ outside \in SUBSET Value
         /\ largest \in Largest
         /\ fault \in {"none", "garbage dropped", "overrun", "null write"}
BY DEF TenantsTypeOK

\* The capacities that Array::new is asked for are numbers.
LEMMA AskedCapsNat == AskedCaps \subseteq Nat
BY GrowableAssumption DEF AskedCaps, CollectCap

\* An array's drop function is entered.
LEMMA EnterTyped ==
  ASSUME TenantsTypeOK, NEW e, NEW items \in Seq(Value \cup {Garbage}), NEW walk,
         walk \in Seq([of : Value, next : Nat \ {0}]), Enter(e, items, walk)
  PROVE  TenantsTypeOK'
<1>1. /\ registered # <<>> /\ registered' = Tail(registered) /\ running' = Head(registered).fn
      /\ todo' = items /\ walks' = walk
      /\ UNCHANGED <<phase, busy, unwinding, largest, fault, drops, outside>>
  BY DEF Enter
<1> DEFINE Entries == [fn : DropFn, of : Value \cup {None}]
<1>2. registered \in Seq(Entries)
  BY DEF TenantsTypeOK
<1> HIDE DEF Entries
<1>3. registered' \in Seq(Entries) /\ Head(registered) \in Entries
  BY ONLY <1>1, <1>2
<1>4. running' \in DropFn
  BY <1>1, <1>3 DEF Entries
<1> QED BY <1>1, <1>3, <1>4 DEF TenantsTypeOK, Entries

\* A drop function panics.
LEMMA PanicTyped ==
  ASSUME TenantsTypeOK, Panics, outside' \subseteq Value, drops' \in [Value -> Nat]
  PROVE  TenantsTypeOK'
BY DEF TenantsTypeOK, Panics

\* The steps of Array keep the types: push places behind the items, in the
\* table or a larger one.
LEMMA ArrayTyped ==
  ASSUME TypeOK, TableInv, ArrayStep
  PROVE  TypeOK'
<1>1. /\ TenantsTypeOK /\ drops \in [Value -> Nat] /\ outside \subseteq Value
      /\ ArrayTypeOK /\ ptrs \in Seq(Value \cup {Garbage}) /\ arrLen \in 0..Len(ptrs)
  BY TypeParts
<1>2. OutlivesTypeOK' /\ ListTypeOK' /\ FixedTypeOK' /\ UStrTypeOK'
  BY DEF ArrayStep, OnlyArray, TypeOK, OutlivesTypeOK, ListTypeOK, FixedTypeOK, Room, UStrTypeOK,
         nVars, listVars, fixVars
<1>3. arrVars' = arrVars => ArrayTypeOK'
  BY <1>1 DEF ArrayTypeOK, arrVars, ArrCap
<1>4. ASSUME ArrayPop PROVE TenantsTypeOK' /\ ArrayTypeOK'
  <2>1. /\ outside' = outside \cup {ptrs[arrLen]} /\ arrLen' = arrLen - 1 /\ arrLen > 0
        /\ UNCHANGED <<arenaVars, drops, arrStage, arrFits, ptrs>>
    BY <1>4 DEF ArrayPop
  <2>2. outside' \subseteq Value
    BY <1>1, <2>1 DEF TableInv
  <2>3. TenantsTypeOK'
    BY <1>1, <2>1, <2>2, ArenaKept
  <2>4. ptrs' = ptrs /\ arrLen' \in 0..Len(ptrs')
    BY ONLY <1>1, <2>1
  <2> QED BY <1>1, <2>1, <2>3, <2>4 DEF ArrayTypeOK, ArrCap
<1>5. ASSUME StartTable PROVE TenantsTypeOK' /\ ArrayTypeOK'
  <2>1. Enter(Entry("table", None), SubSeq(ptrs, 1, arrLen), <<>>) /\ arrVars' = arrVars
    BY <1>5 DEF StartTable
  <2>2. SubSeq(ptrs, 1, arrLen) \in Seq(Value \cup {Garbage}) /\ <<>> \in Seq([of : Value, next : Nat \ {0}])
    BY <1>1
  <2>3. TenantsTypeOK'
    BY <1>1, <2>1, <2>2, EnterTyped, Zenon
  <2> QED BY <1>3, <2>1, <2>3
<1>6. ASSUME NEW cap \in AskedCaps, NEW fits \in BOOLEAN, ArrayNew(cap, fits)
      PROVE  TenantsTypeOK' /\ ArrayTypeOK'
  <2>1. /\ Register("table", None) /\ arrFits' = fits /\ arrLen' = arrLen /\ arrStage = "none"
        /\ (arrStage' = "open" /\ ptrs' = Table(cap)) \/ (arrStage' = "failed" /\ ptrs' = ptrs)
        /\ UNCHANGED <<phase, running, todo, walks, busy, unwinding, largest, fault, drops, outside>>
    BY <1>6 DEF ArrayNew
  <2>2. TenantsTypeOK'
    BY <1>1, <2>1, RegisterTyped DEF DropFn
  <2>3. arrLen = 0
    BY <2>1 DEF TableInv
  <2>4. Table(cap) \in Seq(Value \cup {Garbage}) /\ Len(Table(cap)) \in Nat
    BY <1>6, AskedCapsNat, TableRow
  <2>5. ptrs' \in Seq(Value \cup {Garbage}) /\ arrLen' \in 0..Len(ptrs')
    BY ONLY <1>1, <2>1, <2>3, <2>4
  <2> QED BY <1>1, <2>1, <2>2, <2>5 DEF ArrayTypeOK, ArrCap
<1>7. ASSUME NEW v \in Value, ArrayPush(v) PROVE TenantsTypeOK' /\ ArrayTypeOK'
  <2>1. /\ UNCHANGED <<arenaVars, arrStage, arrFits, drops>> /\ outside' = outside \ {v}
        /\ ptrs' = [Roomy EXCEPT ![arrLen + 1] = v] /\ arrLen' = arrLen + 1
    BY <1>7 DEF ArrayPush, Takes
  <2>2. Roomy \in Seq(Value \cup {Garbage}) /\ Len(Roomy) >= arrLen + 1
    BY <1>1, RoomyTable
  <2>3. ptrs' \in Seq(Value \cup {Garbage}) /\ arrLen' \in 0..Len(ptrs')
    BY ONLY <1>1, <2>1, <2>2
  <2>4. TenantsTypeOK'
    BY <1>1, <2>1, ArenaKept
  <2> QED BY <1>1, <2>1, <2>3, <2>4 DEF ArrayTypeOK, ArrCap
<1>8. ASSUME NEW v \in Value, ArrayPushFails(v) PROVE TenantsTypeOK' /\ ArrayTypeOK'
  <2>1. /\ Refuses({v}) /\ UNCHANGED <<arrStage, arrFits, arrLen>>
        /\ ptrs' = ptrs \/ ptrs' = Roomy
    BY <1>8 DEF ArrayPushFails
  <2>2. Roomy \in Seq(Value \cup {Garbage}) /\ Len(Roomy) >= arrLen + 1
    BY <1>1, RoomyTable
  <2>3. ptrs' \in Seq(Value \cup {Garbage}) /\ arrLen' \in 0..Len(ptrs')
    BY ONLY <1>1, <2>1, <2>2
  <2> QED BY <1>1, <2>1, <2>3, RefusalTyped DEF ArrayTypeOK, ArrCap
<1>9. ASSUME NEW v \in Value, ArrayPushDead(v) PROVE TenantsTypeOK' /\ ArrayTypeOK'
  <2>1. arrVars' = arrVars /\ (Refuses({v}) \/ (DropsAll({v}) /\ Panics))
    BY <1>9 DEF ArrayPushDead
  <2>2. ASSUME DropsAll({v}), Panics PROVE TenantsTypeOK'
    <3>1. outside' \subseteq Value /\ drops' \in [Value -> Nat]
      BY <1>1, <2>2, DropsAllEffect
    <3> QED BY <1>1, <2>2, <3>1, PanicTyped
  <2> QED BY <1>1, <1>3, <2>1, <2>2, RefusalTyped
<1> QED BY <1>2, <1>4, <1>5, <1>6, <1>7, <1>8, <1>9 DEF ArrayStep, TypeOK

\* The items of an iterator or of foreign code are different values, at least
\* one.
LEMMA BatchTyped ==
  ASSUME NEW vs \in Batches
  PROVE  vs \in Seq(Value) /\ vs # <<>> /\ IsInjective(vs) /\ Len(vs) \in Nat \ {0}
<1>1. vs \in SeqOf(Value, Cardinality(Value)) /\ vs # <<>> /\ IsInjective(vs)
  BY DEF Batches
<1>2. vs \in Seq(Value)
  BY <1>1 DEF SeqOf
<1> QED BY <1>1, <1>2

\* What each kind of iterator announces and yields.
LEMMA IteratorKinds ==
  ASSUME NEW src \in Sources, NEW vs \in Seq(Value), vs # <<>>, IsInjective(vs)
  PROVE  /\ Announced(src, vs) \in Nat
         /\ Yielded(src, vs) \in Seq(Value) /\ IsInjective(Yielded(src, vs))
         /\ src = "exact" => Announced(src, vs) = Len(Yielded(src, vs))
         /\ src = "fixed" => Announced(src, vs) = 0
         /\ src # "fixed" => Len(Yielded(src, vs)) <= Announced(src, vs)
<1> DEFINE n == Announced(src, vs)
           ys == Yielded(src, vs)
<1>1. src \in {"exact", "fixed", "dying", "list", "panics"} /\ Len(vs) \in Nat \ {0}
  BY FixedAssumption
<1>2. /\ src = "exact" => n = Len(vs) /\ ys = vs
      /\ src = "fixed" => n = 0 /\ ys = vs
      /\ src = "dying" => n = Len(vs) /\ ys = <<>>
      /\ src = "list" => n = Len(vs) /\ ys = Tail(vs)
      /\ src = "panics" => n = Len(vs) /\ ys = Front(vs)
  BY DEF Announced, Yielded, EmptyIfDeadLen, EmptyIfDeadItems
<1>3. <<>> \in Seq(Value) /\ Len(<<>>) = 0 /\ IsInjective(<<>>)
  BY DEF IsInjective
<1>4. Tail(vs) \in Seq(Value) /\ Len(Tail(vs)) = Len(vs) - 1 /\ IsInjective(Tail(vs))
  BY TailOfInjective
<1>5. Front(vs) \in Seq(Value) /\ Len(Front(vs)) = Len(vs) - 1 /\ IsInjective(Front(vs))
  BY FrontOfInjective
<1> HIDE DEF n, ys
<1>6. ys \in Seq(Value) /\ IsInjective(ys)
  BY <1>1, <1>2, <1>3, <1>4, <1>5
<1>7. n \in Nat
  BY ONLY <1>1, <1>2
<1>8. src = "exact" => n = Len(ys)
  BY ONLY <1>2
<1>9. src # "fixed" => Len(ys) <= n
  BY ONLY <1>1, <1>2, <1>3, <1>4, <1>5
<1> QED BY <1>2, <1>6, <1>7, <1>8, <1>9 DEF n, ys

\* A region of n cells after ys was written to it.
LEMMA WrittenRow ==
  ASSUME NEW n \in Nat, NEW ys \in Seq(Value)
  PROVE  /\ Written(n, ys) \in Seq(Value \cup {Garbage}) /\ Len(Written(n, ys)) = n
         /\ \A k \in 1..n : Written(n, ys)[k] = IF k <= Len(ys) THEN ys[k] ELSE Garbage
BY DEF Written

\* The steps of the fixed array keep the types, whatever its iterator
\* announces.
LEMMA FixedTyped ==
  ASSUME TypeOK, CellsInv, FixedStep
  PROVE  TypeOK'
<1>1. /\ TenantsTypeOK /\ drops \in [Value -> Nat] /\ outside \subseteq Value
      /\ FixedTypeOK /\ cells \in Seq(Value \cup {Garbage}) /\ fixLen \in Nat /\ initLen \in 0..Len(cells)
      /\ spilled \subseteq Value
  BY TypeParts
<1>2. OutlivesTypeOK' /\ ListTypeOK' /\ ArrayTypeOK' /\ UStrTypeOK'
  BY DEF FixedStep, OnlyFixed, TypeOK, OutlivesTypeOK, ListTypeOK, ArrayTypeOK, ArrCap, UStrTypeOK,
         nVars, listVars, arrVars
<1>3. fixStage = "none" => fixLen = 0 /\ initLen = 0 /\ cells = <<>> /\ ~fixData
  BY DEF CellsInv
<1>4. fixVars' = fixVars => FixedTypeOK'
  BY <1>1 DEF FixedTypeOK, fixVars, Room
<1>5. ASSUME FixedDone PROVE TenantsTypeOK' /\ FixedTypeOK'
  <2>1. /\ fixLen' = initLen /\ fixStage' = (IF fixData THEN "array" ELSE "late")
        /\ UNCHANGED <<tenantVars, fixBy, cells, fixData, initLen, spilled>>
    BY <1>5 DEF FixedDone
  <2>2. TenantsTypeOK'
    BY <1>1, <2>1, ArenaKept DEF tenantVars
  <2>3. fixLen' \in Nat /\ fixLen' <= Len(cells)
    BY ONLY <1>1, <2>1
  <2> QED BY <1>1, <2>1, <2>2, <2>3 DEF FixedTypeOK, Room
<1>6. ASSUME WriteNull PROVE TenantsTypeOK' /\ FixedTypeOK'
  <2>1. /\ fault' = "null write" /\ fixVars' = fixVars
        /\ UNCHANGED <<phase, registered, running, todo, walks, busy, unwinding, largest, drops, outside>>
    BY <1>6 DEF WriteNull
  <2> QED BY <1>1, <1>4, <2>1 DEF TenantsTypeOK
<1>7. ASSUME StartFixed PROVE TenantsTypeOK' /\ FixedTypeOK'
  <2> DEFINE items == IF fixData THEN SubSeq(cells, 1, fixLen) ELSE <<>>
  <2>1. /\ Enter(Entry("fixed", None), items, <<>>) /\ fixLen' = (IF fixData THEN 0 ELSE fixLen)
        /\ UNCHANGED <<fixStage, fixBy, cells, fixData, initLen, spilled>>
    BY <1>7 DEF StartFixed
  <2>2. items \in Seq(Value \cup {Garbage}) /\ <<>> \in Seq([of : Value, next : Nat \ {0}])
    BY <1>1 DEF FixedTypeOK, Room
  <2> HIDE DEF items
  <2>3. TenantsTypeOK'
    BY <1>1, <2>1, <2>2, EnterTyped, Zenon
  <2> QED BY <1>1, <2>1, <2>3 DEF FixedTypeOK, Room
<1>8. ASSUME EndFixed PROVE TenantsTypeOK' /\ FixedTypeOK'
  <2>1. /\ running' = None /\ fixData' = FALSE
        /\ UNCHANGED <<phase, registered, todo, walks, busy, unwinding, largest, fault, drops, outside>>
        /\ UNCHANGED <<fixStage, fixBy, cells, fixLen, initLen, spilled>>
    BY <1>8 DEF EndFixed, EndEntry
  <2> QED BY <1>1, <2>1 DEF FixedTypeOK, Room, TenantsTypeOK
<1>9. ASSUME NEW cap \in Regions, FixedReserve(cap) PROVE TenantsTypeOK' /\ FixedTypeOK'
  <2>1. /\ Register("fixed", None) /\ fixStage = "none" /\ UNCHANGED <<fixBy, fixLen, initLen, spilled>>
        /\ \/ fixStage' = "uninit" /\ cells' = Uninit(cap) /\ fixData' = TRUE
           \/ fixStage' = "failed" /\ cells' = cells /\ fixData' = fixData
        /\ UNCHANGED <<phase, running, todo, walks, busy, unwinding, largest, fault, drops, outside>>
    BY <1>9 DEF FixedReserve
  <2>2. TenantsTypeOK'
    BY <1>1, <2>1, RegisterTyped DEF DropFn
  <2>3. cap \in Nat /\ Uninit(cap) \in Seq(Value \cup {Garbage}) /\ Len(Uninit(cap)) = cap
    BY <1>9, FixedAssumption DEF Uninit
  <2>4. cells' \in Seq(Value \cup {Garbage}) /\ fixLen' = 0 /\ initLen' = 0 /\ Len(cells') \in Nat
    <3>1. fixLen' = 0 /\ initLen' = 0 /\ cells = <<>> /\ ~fixData
      BY ONLY <1>3, <2>1
    <3> QED BY ONLY <1>1, <2>1, <2>3, <3>1
  <2>5. fixStage' \in {"uninit", "failed"} /\ fixBy' = fixBy /\ spilled' = spilled
        /\ (fixData' => fixLen' <= Len(cells')) /\ initLen' \in 0..Len(cells')
    BY ONLY <1>3, <2>1, <2>4
  <2>6. fixData' \in BOOLEAN
    BY <1>1, <2>1 DEF FixedTypeOK
  <2> QED BY <1>1, <2>2, <2>4, <2>5, <2>6 DEF FixedTypeOK, Room
<1>10. ASSUME NEW v \in Value, InitPush(v) PROVE TenantsTypeOK' /\ FixedTypeOK'
  <2>1. /\ Refuses({v}) /\ initLen < Len(cells) /\ cells' = [cells EXCEPT ![initLen + 1] = v]
        /\ initLen' = initLen + 1 /\ fixBy' = "init"
        /\ UNCHANGED <<fixStage, fixLen, fixData, spilled>>
    BY <1>10 DEF InitPush, Room
  <2>2. cells' \in Seq(Value \cup {Garbage}) /\ Len(cells') = Len(cells) /\ initLen' \in 0..Len(cells)
    BY ONLY <1>1, <2>1
  <2> QED BY <1>1, <2>1, <2>2, RefusalTyped DEF FixedTypeOK, Room
<1>11. ASSUME NEW v \in Value, InitPushIgnored(v) PROVE TenantsTypeOK' /\ FixedTypeOK'
  BY <1>1, <1>4, <1>11, RefusalTyped DEF InitPushIgnored
<1>12. ASSUME NEW vs \in Batches, FillByC(vs) PROVE TenantsTypeOK' /\ FixedTypeOK'
  <2>1. /\ outside' = outside \ Range(vs) /\ drops' = drops /\ Len(vs) <= Len(cells)
        /\ cells' = Written(Len(cells), vs) /\ initLen' = Len(vs) /\ fixBy' = "c"
        /\ UNCHANGED arenaVars /\ UNCHANGED <<fixStage, fixLen, fixData, spilled>>
    BY <1>12 DEF FillByC, Takes, Room
  <2>2. vs \in Seq(Value) /\ Len(vs) \in Nat
    BY BatchTyped
  <2>3. cells' \in Seq(Value \cup {Garbage}) /\ Len(cells') = Len(cells) /\ initLen' \in 0..Len(cells)
    BY <1>1, <2>1, <2>2, WrittenRow
  <2>4. TenantsTypeOK'
    BY <1>1, <2>1, ArenaKept
  <2> QED BY <1>1, <2>1, <2>3, <2>4 DEF FixedTypeOK, Room
<1>13. ASSUME NEW vs \in Batches, NEW src \in Sources, FixedNew(src, vs)
       PROVE  TenantsTypeOK' /\ FixedTypeOK'
  <2> DEFINE n == Announced(src, vs)
             ys == Yielded(src, vs)
  <2>1. /\ Register("fixed", None) /\ fixStage = "none" /\ outside' = outside \ Range(ys) /\ drops' = drops
        /\ fixStage' = (IF src = "panics" THEN "failed" ELSE "array") /\ fixBy' = src
        /\ fixLen' = n /\ fixData' = TRUE /\ cells' = Written(n, ys) /\ initLen' = initLen
        /\ spilled' \subseteq Range(ys) /\ fault' \in {fault, "overrun"}
        /\ UNCHANGED <<phase, running, todo, walks, busy, unwinding, largest>>
    BY <1>13 DEF FixedNew, Takes, WritesOn
  <2>2. n \in Nat /\ ys \in Seq(Value)
    BY BatchTyped, IteratorKinds
  <2> HIDE DEF n, ys
  <2>3. cells' \in Seq(Value \cup {Garbage}) /\ Len(cells') = n /\ Range(ys) \subseteq Value
    BY <2>1, <2>2, WrittenRow, RangeOfSeq
  <2>4. TenantsTypeOK'
    BY <1>1, <2>1, RegisterTyped DEF DropFn
  <2>5. src \in {"exact", "fixed", "dying", "list", "panics"}
    BY FixedAssumption
  <2> QED BY <1>1, <1>3, <2>1, <2>2, <2>3, <2>4, <2>5 DEF FixedTypeOK, Room
<1>14. ASSUME NEW vs \in Batches, NEW src \in Sources, FixedNewTooBig(src, vs)
       PROVE  TenantsTypeOK' /\ FixedTypeOK'
  <2>1. /\ Register("fixed", None) /\ fixStage = "none" /\ fixStage' = "failed"
        /\ fixLen' = Announced(src, vs)
        /\ DropsAll(Range(vs)) \/ UNCHANGED <<drops, outside>>
        /\ UNCHANGED <<phase, running, todo, walks, busy, unwinding, largest, fault>>
        /\ UNCHANGED <<fixBy, cells, fixData, initLen, spilled>>
    BY <1>14 DEF FixedNewTooBig
  <2>2. Announced(src, vs) \in Nat
    BY BatchTyped, IteratorKinds
  <2>3. outside' \subseteq Value /\ drops' \in [Value -> Nat]
    BY <1>1, <2>1, DropsAllEffect
  <2>4. TenantsTypeOK'
    BY <1>1, <2>1, <2>3, RegisterTyped DEF DropFn
  <2>5. ~fixData
    BY <2>1 DEF CellsInv
  <2> QED BY <1>1, <2>1, <2>2, <2>4, <2>5 DEF FixedTypeOK, Room
<1> QED BY <1>2, <1>5, <1>6, <1>7, <1>8, <1>9, <1>10, <1>11, <1>12, <1>13, <1>14, Zenon
           DEF FixedStep, TypeOK

\* So does the making of a string.
LEMMA TextTyped ==
  ASSUME TypeOK, TextStep
  PROVE  TypeOK'
<1>1. OutlivesTypeOK' /\ ListTypeOK' /\ ArrayTypeOK' /\ FixedTypeOK'
  BY DEF TextStep, OnlyText, TypeOK, OutlivesTypeOK, ListTypeOK, ArrayTypeOK, ArrCap, FixedTypeOK,
     Room,
         nVars, listVars, arrVars, fixVars
<1>2. ASSUME NEW s \in Strs \cup CStrs, UStrNew(s) PROVE TenantsTypeOK' /\ UStrTypeOK'
  <2>1. UNCHANGED tenantVars /\ text' = UStrOf(s)
    BY <1>2 DEF UStrNew
  <2>2. TenantsTypeOK'
    <3>1. TenantsTypeOK /\ drops \in [Value -> Nat] /\ outside \subseteq Value
      BY TypeParts
    <3> QED BY <2>1, <3>1, ArenaKept DEF tenantVars
  <2>3. s \in Seq(Byte)
    BY UStrAssumption DEF Strs, CStrs, SeqOf, Byte
  <2>4. Append(s, "nul") \in Seq(Byte) /\ Len(s) \in Nat
    BY <2>3 DEF Byte
  <2>5. Len(s) % CountMax \in 0..(CountMax - 1)
    BY <2>4, UStrAssumption
  <2> QED BY <2>1, <2>2, <2>3, <2>4, <2>5 DEF UStrOf, UStrTypeOK
<1> QED BY <1>1, <1>2 DEF TextStep, TypeOK

\* A walk goes on to the next item of its list.
LEMMA Advanced ==
  ASSUME NEW w \in [of : Value, next : Nat \ {0}]
  PROVE  [w EXCEPT !.next = @ + 1] = [of |-> w.of, next |-> w.next + 1]
<1>1. w = [of |-> w.of, next |-> w.next]
  OBVIOUS
<1> QED BY <1>1

\* The first element of a sequence, and the rest of it.
LEMMA HeadAndTail ==
  ASSUME NEW S, NEW s \in Seq(S), s # <<>>
  PROVE  /\ Head(s) = s[1] /\ s[1] \in S /\ Len(s) \in Nat \ {0}
         /\ Tail(s) \in Seq(S) /\ Len(Tail(s)) = Len(s) - 1
         /\ \A i \in 1..(Len(s) - 1) : Tail(s)[i] = s[i + 1]
<1>1. s \in Seq(S) /\ Len(s) \in Nat \ {0}
  OBVIOUS
<1>2. Head(s) = s[1] /\ s[1] \in S
  BY <1>1
<1>3. /\ Tail(s) \in Seq(S) /\ Len(Tail(s)) = Len(s) - 1
      /\ \A i \in 1..(Len(s) - 1) : Tail(s)[i] = s[i + 1]
  BY <1>1
<1> QED BY <1>1, <1>2, <1>3

\* A step of the walk below: the sequence of walks loses or gains its last.
LEMMA OpenNextEffect ==
  ASSUME walks \in Seq([of : Value, next : Nat \ {0}]), owned \in [Value -> Seq(Value)], OpenNext
  PROVE  LET n == Len(walks)
             w == walks[n]
             h == owned[w.of][w.next] IN
         /\ n \in Nat \ {0} /\ w \in [of : Value, next : Nat \ {0}]
         /\ w.next \in 1..Len(owned[w.of]) /\ h \in Value
         /\ walks' \in Seq([of : Value, next : Nat \ {0}])
         /\ Len(walks') = n + 1
         /\ \A k \in 1..(n - 1) : walks'[k] = walks[k]
         /\ walks'[n] = [of |-> w.of, next |-> w.next + 1]
         /\ walks'[n + 1] = [of |-> h, next |-> 1]
         /\ fault = "none" /\ phase = "dying" /\ busy = None /\ running # None /\ ~unwinding
         /\ UNCHANGED <<phase, registered, running, todo, busy, unwinding, largest, fault, drops, outside>>
<1> DEFINE Frame == [of : Value, next : Nat \ {0}]
           n == Len(walks)
           w == walks[n]
           h == owned[w.of][w.next]
           w2 == [of |-> w.of, next |-> w.next + 1]
           h2 == [of |-> h, next |-> 1]
<1>1. /\ walks # <<>> /\ Last(walks).next <= Len(owned[Last(walks).of])
      /\ walks' = Append(Append(Front(walks), [Last(walks) EXCEPT !.next = @ + 1]),
                         Walk(owned[Last(walks).of][Last(walks).next]))
      /\ fault = "none" /\ phase = "dying" /\ busy = None /\ running # None /\ ~unwinding
      /\ UNCHANGED <<phase, registered, running, todo, busy, unwinding, largest, fault, drops, outside>>
  BY DEF OpenNext, Inside
<1>2. walks \in Seq(Frame)
  OBVIOUS
<1> HIDE DEF Frame
<1>3. /\ n \in Nat \ {0} /\ Last(walks) = w /\ w \in Frame
      /\ Front(walks) \in Seq(Frame) /\ Len(Front(walks)) = n - 1
      /\ \A k \in 1..(n - 1) : Front(walks)[k] = walks[k]
  BY ONLY <1>1, <1>2, Popped
<1>4. w \in [of : Value, next : Nat \ {0}]
  BY <1>3 DEF Frame
<1>5. w.next \in 1..Len(owned[w.of]) /\ w.of \in Value
  BY <1>1, <1>3, <1>4
<1>6. h \in Value
  BY <1>5
<1>7. [w EXCEPT !.next = @ + 1] = w2 /\ w2 \in Frame
  BY <1>4, Advanced DEF Frame
<1>8. Walk(h) = h2 /\ h2 \in Frame
  BY <1>6 DEF Frame, Walk
<1>9. walks' = Append(Append(Front(walks), w2), h2)
  BY <1>1, <1>3, <1>7, <1>8
<1> HIDE DEF w2, h2, w, n
<1>10. /\ Append(Front(walks), w2) \in Seq(Frame) /\ Len(Append(Front(walks), w2)) = n
       /\ \A k \in 1..(n - 1) : Append(Front(walks), w2)[k] = walks[k]
       /\ Append(Front(walks), w2)[n] = w2
  BY ONLY <1>3, <1>7
<1>11. /\ walks' \in Seq(Frame) /\ Len(walks') = n + 1
       /\ \A k \in 1..n : walks'[k] = Append(Front(walks), w2)[k]
       /\ walks'[n + 1] = h2
  BY ONLY <1>3, <1>8, <1>9, <1>10
<1>12. /\ \A k \in 1..(n - 1) : walks'[k] = walks[k]
       /\ walks'[n] = w2
  BY ONLY <1>3, <1>10, <1>11
<1> QED BY <1>1, <1>3, <1>4, <1>5, <1>6, <1>11, <1>12 DEF w2, h2, w, n, Frame

\* The last walk ends and the value it was for is dropped.
LEMMA DropOwnEffect ==
  ASSUME walks \in Seq([of : Value, next : Nat \ {0}]), drops \in [Value -> Nat], DropOwn
  PROVE  LET n == Len(walks)
             w == walks[n] IN
         /\ n \in Nat \ {0} /\ w \in [of : Value, next : Nat \ {0}]
         /\ unwinding \/ w.next > Len(owned[w.of])
         /\ walks' \in Seq([of : Value, next : Nat \ {0}])
         /\ Len(walks') = n - 1
         /\ \A k \in 1..(n - 1) : walks'[k] = walks[k]
         /\ busy' = w.of
         /\ drops' \in [Value -> Nat]
         /\ \A v \in Value : drops'[v] = IF v = w.of THEN drops[v] + 1 ELSE drops[v]
         /\ fault = "none" /\ phase = "dying" /\ busy = None /\ running # None
         /\ UNCHANGED <<phase, registered, running, todo, unwinding, largest, fault, outside>>
<1> DEFINE Frame == [of : Value, next : Nat \ {0}]
           n == Len(walks)
           w == walks[n]
<1>1. /\ walks # <<>> /\ (unwinding \/ Last(walks).next > Len(owned[Last(walks).of]))
      /\ walks' = Front(walks) /\ busy' = Last(walks).of
      /\ drops' = [drops EXCEPT ![Last(walks).of] = @ + 1]
      /\ fault = "none" /\ phase = "dying" /\ busy = None /\ running # None
      /\ UNCHANGED <<phase, registered, running, todo, unwinding, largest, fault, outside>>
  BY DEF DropOwn, Inside
<1>2. walks \in Seq(Frame)
  OBVIOUS
<1> HIDE DEF Frame
<1>3. /\ n \in Nat \ {0} /\ Last(walks) = w /\ w \in Frame
      /\ Front(walks) \in Seq(Frame) /\ Len(Front(walks)) = n - 1
      /\ \A k \in 1..(n - 1) : Front(walks)[k] = walks[k]
  BY ONLY <1>1, <1>2, Popped
<1>4. w \in [of : Value, next : Nat \ {0}]
  BY <1>3 DEF Frame
<1>5. drops' = [drops EXCEPT ![w.of] = @ + 1] /\ w.of \in Value
  BY <1>1, <1>3, <1>4
<1>6. /\ drops' \in [Value -> Nat]
      /\ \A v \in Value : drops'[v] = IF v = w.of THEN drops[v] + 1 ELSE drops[v]
  BY ONLY drops \in [Value -> Nat], <1>5
<1>7. /\ busy' = w.of /\ (unwinding \/ w.next > Len(owned[w.of]))
      /\ walks' \in Seq(Frame) /\ Len(walks') = n - 1
      /\ \A k \in 1..(n - 1) : walks'[k] = walks[k]
  BY ONLY <1>1, <1>3
<1> QED BY <1>1, <1>3, <1>4, <1>6, <1>7 DEF Frame

\* An array's drop function drops its next item, or meets bytes that are none.
LEMMA DropHeadEffect ==
  ASSUME todo \in Seq(Value \cup {Garbage}), drops \in [Value -> Nat], DropHead
  PROVE  /\ todo # <<>> /\ todo' \in Seq(Value \cup {Garbage}) /\ Len(todo') = Len(todo) - 1
         /\ \A i \in 1..(Len(todo) - 1) : todo'[i] = todo[i + 1]
         /\ todo[1] \in Value \cup {Garbage}
         /\ drops' \in [Value -> Nat]
         /\ fault = "none" /\ phase = "dying" /\ busy = None /\ running # None
         /\ \/ /\ todo[1] = Garbage /\ fault' = "garbage dropped" /\ UNCHANGED <<busy, drops>>
            \/ /\ todo[1] \in Value /\ busy' = todo[1] /\ fault' = fault
               /\ \A v \in Value : drops'[v] = IF v = todo[1] THEN drops[v] + 1 ELSE drops[v]
         /\ UNCHANGED <<phase, registered, running, walks, unwinding, largest, outside>>
<1>1. /\ todo # <<>> /\ todo' = Tail(todo)
      /\ IF Head(todo) = Garbage
           THEN fault' = "garbage dropped" /\ busy' = busy /\ drops' = drops
           ELSE busy' = Head(todo) /\ drops' = [drops EXCEPT ![Head(todo)] = @ + 1] /\ fault' = fault
      /\ fault = "none" /\ phase = "dying" /\ busy = None /\ running # None
      /\ UNCHANGED <<phase, registered, running, walks, unwinding, largest, outside>>
  BY DEF DropHead, Inside
<1>2. /\ Head(todo) = todo[1] /\ todo[1] \in Value \cup {Garbage}
      /\ todo' \in Seq(Value \cup {Garbage}) /\ Len(todo') = Len(todo) - 1
      /\ \A i \in 1..(Len(todo) - 1) : todo'[i] = todo[i + 1]
  BY <1>1, HeadAndTail
<1>3. CASE todo[1] = Garbage
  BY <1>1, <1>2, <1>3
<1>4. CASE todo[1] # Garbage
  <2>1. todo[1] \in Value /\ busy' = todo[1] /\ drops' = [drops EXCEPT ![todo[1]] = @ + 1] /\ fault' = fault
    BY ONLY <1>1, <1>2, <1>4
  <2>2. /\ drops' \in [Value -> Nat]
        /\ \A v \in Value : drops'[v] = IF v = todo[1] THEN drops[v] + 1 ELSE drops[v]
    BY ONLY drops \in [Value -> Nat], <2>1
  <2> QED BY <1>1, <1>2, <2>1, <2>2
<1> QED BY <1>3, <1>4

\* The steps of the arena's end keep the types.
LEMMA ArenaTyped ==
  ASSUME TypeOK, ArenaStep
  PROVE  TypeOK'
<1>1. /\ TenantsTypeOK /\ drops \in [Value -> Nat] /\ outside \subseteq Value
      /\ owned \in [Value -> Seq(Value)] /\ todo \in Seq(Value \cup {Garbage})
      /\ walks \in Seq([of : Value, next : Nat \ {0}])
  BY TypeParts, TenantParts
<1>2. OutlivesTypeOK' /\ ListTypeOK' /\ ArrayTypeOK' /\ FixedTypeOK' /\ UStrTypeOK'
  BY DEF ArenaStep, OnlyArena, TypeOK, OutlivesTypeOK, ListTypeOK, ArrayTypeOK, ArrCap, FixedTypeOK,
         Room, UStrTypeOK, nVars, listVars, arrVars, fixVars
<1>3. DropArena => TenantsTypeOK'
  BY <1>1 DEF DropArena, TenantsTypeOK
<1>4. ASSUME StartValue PROVE TenantsTypeOK'
  <2>1. PICK v \in Value : Enter(Entry("value", v), <<>>, <<Walk(v)>>)
    BY <1>4 DEF StartValue
  <2>2. <<>> \in Seq(Value \cup {Garbage}) /\ <<Walk(v)>> \in Seq([of : Value, next : Nat \ {0}])
    BY DEF Walk
  <2> QED BY <1>1, <2>1, <2>2, EnterTyped, Zenon
<1>5. OpenNext => TenantsTypeOK'
  BY <1>1, OpenNextEffect DEF TenantsTypeOK
<1>6. DropOwn => TenantsTypeOK'
  BY <1>1, DropOwnEffect DEF TenantsTypeOK
<1>7. DropHead => TenantsTypeOK'
  BY <1>1, DropHeadEffect DEF TenantsTypeOK
<1>8. DropReturn => TenantsTypeOK'
  BY <1>1 DEF DropReturn, TenantsTypeOK
<1>9. DropPanic => TenantsTypeOK'
  BY <1>1, PanicTyped DEF DropPanic
<1>10. EndEntry("value") \/ EndEntry("table") => TenantsTypeOK'
  BY <1>1 DEF EndEntry, TenantsTypeOK
<1>11. EndUnwind \/ FinishChain => TenantsTypeOK'
  BY <1>1 DEF EndUnwind, FinishChain, TenantsTypeOK
<1> QED BY <1>2, <1>3, <1>4, <1>5, <1>6, <1>7, <1>8, <1>9, <1>10, <1>11 DEF ArenaStep, TypeOK

\* Every step keeps the types.
LEMMA TypeKept ==
  ASSUME TypeOK, SegmentsInv, TableInv, CellsInv, [Next]_vars
  PROVE  TypeOK'
<1>1. CASE UNCHANGED vars
  <2>1. TenantsTypeOK'
    BY <1>1, TypeParts, ArenaKept DEF vars, tenantVars
  <2>2. OutlivesTypeOK' /\ ListTypeOK' /\ UStrTypeOK'
    BY <1>1 DEF TypeOK, vars, nVars, listVars, OutlivesTypeOK, ListTypeOK, UStrTypeOK
  <2>3. ArrayTypeOK' /\ FixedTypeOK'
    BY <1>1 DEF TypeOK, vars, arrVars, fixVars, ArrayTypeOK, ArrCap, FixedTypeOK, Room
  <2> QED BY <2>1, <2>2, <2>3 DEF TypeOK
<1> QED BY <1>1, StepKinds, NTyped, ListTyped, ArrayTyped, FixedTyped, TextTyped, ArenaTyped

-----------------------------------------------------------------------------
(* Control: calls, and the steps of the arena's end                        *)

\* A call to a collection, as far as the arena's end is concerned: nothing but
\* what is outside may be dropped, and something may be registered while the
\* arena lives.
Call ==
  /\ UNCHANGED <<phase, running, todo, walks, busy, unwinding>>
  /\ \/ fault' = fault
     \/ fault = "none" /\ fault' = "null write" /\ FixedStep /\ WriteNull
     \/ fault = "none" /\ fault' = "overrun" /\ FixedStep
          /\ \E src \in Sources, vs \in Batches : FixedNew(src, vs)
  /\ \/ registered' = registered
     \/ IsAlive /\ \E fn \in DropFn, v \in Value \cup {None} : Register(fn, v)
  /\ \A v \in Value : v \notin outside => drops'[v] = drops[v]

\* The push to an array that panics in a value's drop.
CallPanics ==
  /\ Panics /\ UNCHANGED registered
  /\ \A v \in Value : v \notin outside => drops'[v] = drops[v]

\* A refusal is such a call.
LEMMA RefusalIsCall ==
  ASSUME drops \in [Value -> Nat], NEW vs, Refuses(vs)
  PROVE  Call
<1>1. DropsAll(vs) /\ UNCHANGED arenaVars
  BY DEF Refuses
<1>2. \A v \in Value : v \notin outside => drops'[v] = drops[v]
  BY <1>1, DropsAllEffect
<1> QED BY <1>1, <1>2 DEF Call, arenaVars

\* So is one that only stores what it was given.
LEMMA TakingIsCall ==
  ASSUME UNCHANGED arenaVars, UNCHANGED drops
  PROVE  Call
BY DEF Call, arenaVars

\* So is one that registers a drop function.
LEMMA RegisteringIsCall ==
  ASSUME IsAlive, NEW fn \in DropFn, NEW v \in Value \cup {None}, Register(fn, v),
         UNCHANGED <<phase, running, todo, walks, busy, unwinding, largest, fault>>,
         \A u \in Value : u \notin outside => drops'[u] = drops[u]
  PROVE  Call
BY DEF Call

\* Steps of the arena's end, and calls.
LEMMA CallKinds ==
  ASSUME TypeOK, [Next]_vars
  PROVE  \/ Call
         \/ ArrayStep /\ CallPanics
         \/ ArrayStep /\ StartTable
         \/ FixedStep /\ (StartFixed \/ EndFixed)
         \/ ArenaStep
<1>1. drops \in [Value -> Nat] /\ TenantsTypeOK
  BY TypeParts
<1>2. CASE NStep
  <2>1. ASSUME NEW v \in Value, NNew(v) PROVE Call
    <3>1. /\ IsAlive /\ Register("value", v) /\ drops' = drops
          /\ UNCHANGED <<phase, running, todo, walks, busy, unwinding, largest, fault>>
      BY <2>1 DEF NNew, Takes
    <3> QED BY <3>1, RegisteringIsCall DEF DropFn
  <2>2. ASSUME NEW v \in Value, NRefused(v) PROVE Call
    BY <1>1, <2>2, RefusalIsCall DEF NRefused
  <2>3. ASSUME NEW v \in Value, NEW p \in Value, NOutlives(p, v) PROVE Call
    BY <2>3, TakingIsCall DEF NOutlives, Takes
  <2> QED BY <1>2, <2>1, <2>2, <2>3 DEF NStep
<1>3. CASE ListStep
  <2>1. ASSUME NEW fits \in BOOLEAN, ListNew(fits) PROVE Call
    BY <2>1, TakingIsCall DEF ListNew, tenantVars
  <2>2. ASSUME NEW v \in Value, ListPush(v) PROVE Call
    <3>1. /\ IsAlive /\ Register("value", v) /\ drops' = drops
          /\ UNCHANGED <<phase, running, todo, walks, busy, unwinding, largest, fault>>
      BY <2>2 DEF ListPush, Takes
    <3> QED BY <3>1, RegisteringIsCall DEF DropFn
  <2>3. ASSUME NEW v \in Value, ListPushTooBig(v) \/ ListPushDead(v) PROVE Call
    BY <1>1, <2>3, RefusalIsCall DEF ListPushTooBig, ListPushDead
  <2> QED BY <1>3, <2>1, <2>2, <2>3 DEF ListStep
<1>4. CASE ArrayStep
  <2>1. ArrayPop => Call
    BY TakingIsCall DEF ArrayPop
  <2>2. ASSUME NEW cap \in AskedCaps, NEW fits \in BOOLEAN, ArrayNew(cap, fits) PROVE Call
    <3>1. /\ IsAlive /\ Register("table", None) /\ drops' = drops
          /\ UNCHANGED <<phase, running, todo, walks, busy, unwinding, largest, fault>>
      BY <2>2 DEF ArrayNew
    <3> QED BY <3>1, RegisteringIsCall DEF DropFn
  <2>3. ASSUME NEW v \in Value, ArrayPush(v) PROVE Call
    BY <2>3, TakingIsCall DEF ArrayPush, Takes
  <2>4. ASSUME NEW v \in Value, ArrayPushFails(v) PROVE Call
    BY <1>1, <2>4, RefusalIsCall DEF ArrayPushFails
  <2>5. ASSUME NEW v \in Value, ArrayPushDead(v) PROVE Call \/ CallPanics
    <3>1. CASE busy = None
      BY <1>1, <2>5, <3>1, RefusalIsCall DEF ArrayPushDead
    <3>2. CASE busy # None
      <4>1. DropsAll({v}) /\ Panics
        BY <2>5, <3>2 DEF ArrayPushDead
      <4>2. \A u \in Value : u \notin outside => drops'[u] = drops[u]
        BY <1>1, <4>1, DropsAllEffect
      <4> QED BY <4>1, <4>2 DEF CallPanics, Panics
    <3> QED BY <3>1, <3>2
  <2> QED BY <1>4, <2>1, <2>2, <2>3, <2>4, <2>5 DEF ArrayStep
<1>5. CASE FixedStep
  <2>1. FixedDone => Call
    BY TakingIsCall DEF FixedDone, tenantVars
  <2>2. WriteNull => Call
    BY <1>5 DEF WriteNull, Calling, Call
  <2>3. ASSUME NEW cap \in Regions, FixedReserve(cap) PROVE Call
    <3>1. /\ IsAlive /\ Register("fixed", None) /\ drops' = drops
          /\ UNCHANGED <<phase, running, todo, walks, busy, unwinding, largest, fault>>
      BY <2>3 DEF FixedReserve
    <3> QED BY <3>1, RegisteringIsCall DEF DropFn
  <2>4. ASSUME NEW v \in Value, InitPush(v) \/ InitPushIgnored(v) PROVE Call
    BY <1>1, <2>4, RefusalIsCall DEF InitPush, InitPushIgnored
  <2>5. ASSUME NEW vs \in Batches, FillByC(vs) PROVE Call
    BY <2>5, TakingIsCall DEF FillByC, Takes
  <2>6. ASSUME NEW vs \in Batches, NEW src \in Sources, FixedNew(src, vs) PROVE Call
    <3>1. /\ IsAlive /\ Register("fixed", None) /\ drops' = drops
          /\ UNCHANGED <<phase, running, todo, walks, busy, unwinding>>
      BY <2>6 DEF FixedNew, Takes
    <3>2. fault = "none" /\ fault' \in {fault, "overrun"}
      BY <2>6 DEF FixedNew, Calling, WritesOn
    <3> QED BY <1>5, <2>6, <3>1, <3>2 DEF Call, DropFn
  <2>7. ASSUME NEW vs \in Batches, NEW src \in Sources, FixedNewTooBig(src, vs) PROVE Call
    <3>1. /\ IsAlive /\ Register("fixed", None) /\ (DropsAll(Range(vs)) \/ drops' = drops)
          /\ UNCHANGED <<phase, running, todo, walks, busy, unwinding, largest, fault>>
      BY <2>7 DEF FixedNewTooBig
    <3>2. \A u \in Value : u \notin outside => drops'[u] = drops[u]
      BY <1>1, <3>1, DropsAllEffect
    <3> QED BY <3>1, <3>2, RegisteringIsCall DEF DropFn
  <2> QED BY <1>5, <2>1, <2>2, <2>3, <2>4, <2>5, <2>6, <2>7, Zenon DEF FixedStep
<1>6. CASE TextStep
  BY <1>6, TakingIsCall DEF TextStep, UStrNew, tenantVars
<1>7. CASE UNCHANGED vars
  BY <1>7, TakingIsCall DEF vars, tenantVars
<1> QED BY <1>2, <1>3, <1>4, <1>5, <1>6, <1>7, StepKinds

\* Every step keeps the order of control: who runs, and what it has left to do.
LEMMA ControlKept ==
  ASSUME TypeOK, ControlInv, [Next]_vars
  PROVE  ControlInv'
<1>1. /\ phase \in {"alive", "dying", "dead"} /\ running \in DropFn \cup {None}
      /\ TenantsTypeOK /\ drops \in [Value -> Nat] /\ None \notin Value
      /\ owned \in [Value -> Seq(Value)] /\ todo \in Seq(Value \cup {Garbage})
      /\ walks \in Seq([of : Value, next : Nat \ {0}])
      /\ None \notin DropFn
  BY TypeParts, TenantParts, TenantsAssumption
<1>2. CASE Call
  BY <1>2 DEF Call, ControlInv, IsAlive
<1>3. CASE CallPanics
  BY <1>3 DEF CallPanics, Panics, ControlInv
<1>4. ASSUME NEW v, NEW fn \in DropFn, NEW items, NEW walk, Enter(Entry(fn, v), items, walk),
             fn = "value" => items = <<>>, fn # "value" => walk = <<>>
      PROVE  ControlInv'
  <2>1. /\ running' = fn /\ todo' = items /\ walks' = walk /\ phase = "dying" /\ ~unwinding
        /\ UNCHANGED <<phase, busy, unwinding>>
    BY <1>4 DEF Enter, Between, Entry
  <2> QED BY <1>1, <1>4, <2>1 DEF ControlInv
<1>5. CASE StartTable \/ StartFixed \/ StartValue
  BY <1>4, <1>5 DEF StartTable, StartFixed, StartValue, DropFn
<1>6. CASE DropArena
  BY <1>6 DEF DropArena, IsAlive, ControlInv
<1>7. CASE OpenNext
  <2>1. /\ walks # <<>> /\ phase = "dying" /\ ~unwinding /\ running # None
        /\ UNCHANGED <<phase, registered, running, todo, busy, unwinding>>
    BY <1>7 DEF OpenNext, Inside
  <2> QED BY <2>1 DEF ControlInv
<1>8. CASE DropOwn
  BY <1>1, <1>8, DropOwnEffect DEF ControlInv
<1>9. CASE DropHead
  <2>1. /\ todo # <<>> /\ phase = "dying" /\ running # None
        /\ UNCHANGED <<phase, registered, running, walks, unwinding>>
    BY <1>9 DEF DropHead, Inside
  <2> QED BY <2>1 DEF ControlInv
<1>10. CASE DropReturn
  BY <1>10 DEF DropReturn, ControlInv
<1>11. CASE DropPanic
  BY <1>11 DEF DropPanic, Panics, ControlInv
<1>12. CASE EndEntry("value") \/ EndEntry("table") \/ EndFixed
  BY <1>12 DEF EndFixed, EndEntry, Inside, ControlInv
<1>13. CASE EndUnwind \/ FinishChain
  BY <1>13 DEF EndUnwind, FinishChain, Inside, Between, ControlInv
<1> QED BY <1>2, <1>3, <1>5, <1>6, <1>7, <1>8, <1>9, <1>10, <1>11, <1>12, <1>13, CallKinds
           DEF ArenaStep

-----------------------------------------------------------------------------
(* The segments of a list                                                  *)

\* The b-th slot of the a-th segment is found again from its number.
LEMMA SlotOf ==
  ASSUME NEW m \in Nat \ {0}, NEW a \in Nat, NEW b \in 0..(m - 1)
  PROVE  a * m + b \in Nat /\ (a * m + b) \div m = a /\ (a * m + b) % m = b
<1> DEFINE q == (a * m + b) \div m
           r == (a * m + b) % m
<1>1. a * m + b \in Nat
  OBVIOUS
<1>2. q \in Int /\ r \in 0..(m - 1) /\ a * m + b = q * m + r
  OBVIOUS
<1> HIDE DEF q, r
<1>3. (a - q) * m = r - b
  BY <1>2
<1>4. a = q
  <2>1. CASE a - q >= 1
    <3>1. (a - q) * m >= m
      BY <1>2, <2>1
    <3> QED BY <1>2, <1>3, <3>1
  <2>2. CASE a - q <= -1
    <3>1. (a - q) * m <= -m
      BY <1>2, <2>2
    <3> QED BY <1>2, <1>3, <3>1
  <2> QED BY <1>2, <2>1, <2>2
<1> QED BY <1>1, <1>2, <1>3, <1>4 DEF q, r

\* Every slot's number is that of a place in a segment.
LEMMA PlaceOf ==
  ASSUME NEW m \in Nat \ {0}, NEW n \in Nat, NEW g \in 0..(n * m - 1)
  PROVE  \E a \in 0..(n - 1), b \in 0..(m - 1) : g = a * m + b /\ g \div m = a /\ g % m = b
<1> DEFINE a == g \div m
           b == g % m
<1>1. g \in Nat /\ n * m \in Nat /\ g < n * m
  OBVIOUS
<1>2. a \in Nat /\ b \in 0..(m - 1) /\ g = m * (g \div m) + (g % m)
  BY ONLY <1>1, m \in Nat \ {0}
<1>3. g = a * m + b
  BY <1>2
<1> HIDE DEF a, b
<1>4. a < n
  <2>1. CASE a >= n
    <3>1. (a - n) * m >= 0
      BY ONLY <1>2, <2>1, m \in Nat \ {0}, n \in Nat
    <3>2. a * m >= n * m
      BY ONLY <1>2, <3>1, m \in Nat \ {0}, n \in Nat
    <3> QED BY ONLY <1>1, <1>2, <1>3, <3>2
  <2> QED BY ONLY <1>2, <2>1, n \in Nat
<1> QED BY <1>2, <1>3, <1>4 DEF a, b

\* A member that no other is below is the minimum.
LEMMA MinIs ==
  ASSUME NEW T, NEW m \in T, T \subseteq Int, \A x \in T : m <= x
  PROVE  Min(T) = m
<1>1. \E x \in T : \A y \in T : x <= y
  OBVIOUS
<1>2. Min(T) \in T /\ \A y \in T : Min(T) <= y
  BY <1>1, Zenon DEF Min
<1>3. Min(T) \in Int /\ m \in Int /\ m <= Min(T) /\ Min(T) <= m
  BY <1>2
<1> QED BY ONLY <1>3

\* Where iteration over segments s ends, and the item with number g there.
At(s, g) == s[g \div SegMax + 1][g % SegMax]

\* Where that iteration ends: at the first empty slot, or behind the last.
EndOf(s) == Min({ g \in 0..(Len(s) * SegMax - 1) : At(s, g) = None } \cup {Len(s) * SegMax})

\* The slots of one segment.
Row == [0..(SegMax - 1) -> Value \cup {None}]

\* Full segments but for the last, which is filled up to u.
Filled(s, u) ==
  /\ s \in Seq(Row) /\ Len(s) >= 1 /\ u \in 0..SegMax
  /\ \A q \in 1..Len(s), r \in 0..(SegMax - 1) :
       IF q < Len(s) \/ r < u THEN s[q][r] \in Value ELSE s[q][r] = None

\* Iteration over such segments ends behind the last item, and every item
\* before is a value.
LEMMA FilledItems ==
  ASSUME NEW s, NEW u, Filled(s, u)
  PROVE  LET n == (Len(s) - 1) * SegMax + u IN
         /\ n \in Nat /\ EndOf(s) = n
         /\ \A g \in 0..(n - 1) : \E q \in 1..Len(s), r \in 0..(SegMax - 1) :
              /\ At(s, g) = s[q][r] /\ At(s, g) \in Value
              /\ g = (q - 1) * SegMax + r
              /\ q < Len(s) \/ r < u
<1> DEFINE n == (Len(s) - 1) * SegMax + u
           m == SegMax
           l == Len(s) - 1
<1>1. /\ m \in Nat \ {0} /\ l \in Nat /\ u \in 0..m /\ n \in Nat /\ n = l * m + u
      /\ Len(s) = l + 1 /\ s \in Seq(Row) /\ Len(s) * m = l * m + m /\ l * m \in Nat
  BY SegMaxAssumption DEF Filled
<1>2. \A a, b : a \in 0..(Len(s) - 1) /\ b \in 0..(m - 1) =>
         IF a + 1 < Len(s) \/ b < u THEN s[a + 1][b] \in Value ELSE s[a + 1][b] = None
  BY <1>1 DEF Filled
<1>3. \A g : At(s, g) = s[g \div m + 1][g % m]
  BY DEF At
<1> HIDE DEF m, l, n
<1>4. ASSUME NEW g \in 0..(Len(s) * m - 1)
      PROVE  \E a \in 0..l, b \in 0..(m - 1) :
               /\ g = a * m + b /\ At(s, g) = s[a + 1][b]
               /\ IF a < l \/ b < u THEN At(s, g) \in Value ELSE At(s, g) = None
  <2>1. PICK a \in 0..(Len(s) - 1), b \in 0..(m - 1) : g = a * m + b /\ g \div m = a /\ g % m = b
    BY ONLY <1>1, PlaceOf, Len(s) \in Nat, g \in 0..(Len(s) * m - 1)
  <2>2. At(s, g) = s[a + 1][b]
    BY ONLY <1>3, <2>1
  <2>3. IF a + 1 < Len(s) \/ b < u THEN s[a + 1][b] \in Value ELSE s[a + 1][b] = None
    BY ONLY <1>2, a \in 0..(Len(s) - 1), b \in 0..(m - 1)
  <2>4. /\ a \in 0..l /\ b \in 0..(m - 1)
        /\ (a < l \/ b < u) <=> (a + 1 < Len(s) \/ b < u)
    BY ONLY <1>1, a \in 0..(Len(s) - 1), b \in 0..(m - 1)
  <2>5. IF a < l \/ b < u THEN At(s, g) \in Value ELSE At(s, g) = None
    BY ONLY <2>2, <2>3, <2>4
  <2>6. g = a * m + b
    BY ONLY <2>1
  <2> QED BY ONLY <2>2, <2>4, <2>5, <2>6, Zenon
<1>5. ASSUME NEW g \in 0..(Len(s) * m - 1), NEW a \in 0..l, NEW b \in 0..(m - 1), g = a * m + b
      PROVE  g < n <=> a < l \/ b < u
  <2>1. CASE a < l
    <3>1. (l - a - 1) * m >= 0
      BY ONLY <1>1, <2>1, a \in 0..l
    <3>2. l * m >= a * m + m
      BY ONLY <1>1, <3>1, a \in 0..l
    <3> QED BY ONLY <1>1, <1>5, <2>1, <3>2
  <2>2. CASE a = l
    BY ONLY <1>1, <1>5, <2>2
  <2> QED BY <1>1, <2>1, <2>2
<1> DEFINE T == { g \in 0..(Len(s) * m - 1) : At(s, g) = None } \cup {Len(s) * m}
<1>6. None \notin Value
  BY TenantsAssumption
<1>7. \A g \in 0..(Len(s) * m - 1) : (At(s, g) = None) <=> n <= g
  <2> SUFFICES ASSUME NEW g \in 0..(Len(s) * m - 1) PROVE (At(s, g) = None) <=> n <= g
    OBVIOUS
  <2>1. PICK a \in 0..l, b \in 0..(m - 1) :
               /\ g = a * m + b /\ At(s, g) = s[a + 1][b]
               /\ IF a < l \/ b < u THEN At(s, g) \in Value ELSE At(s, g) = None
    BY <1>4
  <2>2. g < n <=> a < l \/ b < u
    BY <1>5, <2>1
  <2> QED BY ONLY <1>1, <1>6, <2>1, <2>2, g \in 0..(Len(s) * m - 1)
<1>8. n <= Len(s) * m
  BY ONLY <1>1
<1>9. n \in T /\ T \subseteq Int /\ \A x \in T : n <= x
  BY ONLY <1>1, <1>7, <1>8
<1>10. Min(T) = n
  BY ONLY <1>9, MinIs
<1>11. EndOf(s) = n
  BY <1>10 DEF EndOf, m
<1>12. ASSUME NEW g \in 0..(n - 1)
      PROVE  \E q \in 1..Len(s), r \in 0..(m - 1) :
              /\ At(s, g) = s[q][r] /\ At(s, g) \in Value
              /\ g = (q - 1) * m + r
              /\ q < Len(s) \/ r < u
  <2>1. g \in 0..(Len(s) * m - 1)
    BY ONLY <1>1, <1>8, g \in 0..(n - 1)
  <2>2. PICK a \in 0..l, b \in 0..(m - 1) :
               /\ g = a * m + b /\ At(s, g) = s[a + 1][b]
               /\ IF a < l \/ b < u THEN At(s, g) \in Value ELSE At(s, g) = None
    BY <1>4, <2>1
  <2>3. a < l \/ b < u
    BY ONLY <1>5, <2>1, <2>2, g \in 0..(n - 1), <1>1
  <2>4. a + 1 \in 1..Len(s) /\ (a + 1) - 1 = a /\ (a + 1 < Len(s) \/ b < u)
    BY ONLY <1>1, <2>3, a \in 0..l
  <2>5. /\ At(s, g) = s[a + 1][b] /\ At(s, g) \in Value /\ g = ((a + 1) - 1) * m + b
    BY ONLY <2>2, <2>3, <2>4
  <2> QED BY <2>4, <2>5
<1> QED BY <1>1, <1>11, <1>12 DEF n, m

\* Number and place of a slot agree.
LEMMA AtPlace ==
  ASSUME NEW s, NEW q \in Nat \ {0}, NEW r \in 0..(SegMax - 1)
  PROVE  (q - 1) * SegMax + r \in Nat /\ At(s, (q - 1) * SegMax + r) = s[q][r]
<1>1. q - 1 \in Nat /\ q - 1 + 1 = q
  OBVIOUS
<1>2. /\ (q - 1) * SegMax + r \in Nat
      /\ ((q - 1) * SegMax + r) \div SegMax = q - 1 /\ ((q - 1) * SegMax + r) % SegMax = r
  BY ONLY <1>1, SlotOf, SegMaxAssumption, r \in 0..(SegMax - 1)
<1> QED BY <1>1, <1>2 DEF At

\* What iteration over segments s yields.
ItemsOf(s) == [k \in 1..EndOf(s) |-> At(s, k - 1)]

\* Iteration over such segments yields the values in their slots, in order.
LEMMA ItemsAre ==
  ASSUME NEW s, NEW u, Filled(s, u)
  PROVE  LET n == (Len(s) - 1) * SegMax + u IN
         /\ n \in Nat /\ ItemsOf(s) \in Seq(Value) /\ Len(ItemsOf(s)) = n
         /\ \A k \in 1..n : ItemsOf(s)[k] = At(s, k - 1)
<1> DEFINE n == (Len(s) - 1) * SegMax + u
<1>1. n \in Nat /\ EndOf(s) = n /\ \A g \in 0..(n - 1) : At(s, g) \in Value
  BY FilledItems
<1> HIDE DEF n
<1>2. ItemsOf(s) = [k \in 1..n |-> At(s, k - 1)]
  BY <1>1 DEF ItemsOf
<1>3. \A k \in 1..n : At(s, k - 1) \in Value
  BY <1>1
<1>4. ItemsOf(s) \in Seq(Value) /\ Len(ItemsOf(s)) = n /\ \A k \in 1..n : ItemsOf(s)[k] = At(s, k - 1)
  BY ONLY <1>1, <1>2, <1>3
<1> QED BY <1>1, <1>4 DEF n

\* A list whose first segment was never placed yields nothing.
LEMMA NoItems ==
  ASSUME NEW s \in Seq(Row), \A q \in 1..Len(s), r \in 0..(SegMax - 1) : s[q][r] = None
  PROVE  ItemsOf(s) = <<>>
<1> DEFINE T == { g \in 0..(Len(s) * SegMax - 1) : At(s, g) = None } \cup {Len(s) * SegMax}
<1>1. Len(s) \in Nat /\ SegMax \in Nat \ {0} /\ Len(s) * SegMax \in Nat
  BY SegMaxAssumption
<1>2. 0 \in T
  <2>1. CASE Len(s) = 0
    BY <1>1, <2>1
  <2>2. CASE Len(s) > 0
    <3>1. Len(s) * SegMax >= 1
      BY ONLY <1>1, <2>2
    <3>2. (1 - 1) * SegMax + 0 = 0
      BY <1>1
    <3>3. At(s, 0) = s[1][0]
      <4>1. 1 \in Nat \ {0} /\ 0 \in 0..(SegMax - 1)
        BY <1>1
      <4>2. At(s, (1 - 1) * SegMax + 0) = s[1][0]
        BY ONLY <4>1, AtPlace
      <4> QED BY ONLY <3>2, <4>2
    <3>4. s[1][0] = None
      BY <1>1, <2>2
    <3> QED BY ONLY <1>1, <3>1, <3>3, <3>4
  <2> QED BY <1>1, <2>1, <2>2
<1>3. T \subseteq Int /\ \A x \in T : 0 <= x
  BY ONLY <1>1
<1>4. EndOf(s) = 0
  BY ONLY <1>2, <1>3, MinIs DEF EndOf
<1> QED BY <1>4 DEF ItemsOf

\* Segments s, filled up to u, are pushed v to, and become t, filled up to w.
FilledOne(s, u, v, t, w) ==
  \/ u < SegMax /\ w = u + 1 /\ t = [s EXCEPT ![Len(s)][u] = v]
  \/ ~(u < SegMax) /\ w = 1 /\ t = Append(s, [EmptySegment EXCEPT ![0] = v])

\* After a push iteration yields v behind all it yielded before.
LEMMA FilledOn ==
  ASSUME NEW s, NEW u, Filled(s, u), NEW v \in Value, NEW t, NEW w, FilledOne(s, u, v, t, w)
  PROVE  Filled(t, w) /\ ItemsOf(t) = Append(ItemsOf(s), v)
<1>1. /\ SegMax \in Nat \ {0} /\ u \in 0..SegMax /\ s \in Seq(Row) /\ Len(s) \in Nat \ {0}
      /\ \A q \in 1..Len(s), r \in 0..(SegMax - 1) :
           IF q < Len(s) \/ r < u THEN s[q][r] \in Value ELSE s[q][r] = None
  BY SegMaxAssumption DEF Filled
<1> DEFINE n == (Len(s) - 1) * SegMax + u
<1>2. /\ t \in Seq(Row) /\ Len(t) \in Nat \ {0} /\ w \in 1..SegMax /\ (Len(t) - 1) * SegMax + w = n + 1
      /\ Len(s) <= Len(t)
      /\ \A q \in 1..Len(s), r \in 0..(SegMax - 1) : q < Len(s) \/ r # u => t[q][r] = s[q][r]
      /\ \A q \in 1..Len(t), r \in 0..(SegMax - 1) :
           IF q < Len(t) \/ r < w THEN t[q][r] \in Value ELSE t[q][r] = None
      /\ At(t, n) = v
  <2>1. CASE u < SegMax
    <3>1. w = u + 1 /\ t = [s EXCEPT ![Len(s)][u] = v] /\ u \in 0..(SegMax - 1)
      BY <1>1, <2>1 DEF FilledOne
    <3>2. s[Len(s)] \in Row
      BY <1>1
    <3>3. [s[Len(s)] EXCEPT ![u] = v] \in Row
      BY <3>1, <3>2 DEF Row
    <3>4. /\ t \in Seq(Row) /\ Len(t) = Len(s)
          /\ \A q \in 1..Len(s) : t[q] = IF q = Len(s) THEN [s[Len(s)] EXCEPT ![u] = v] ELSE s[q]
      BY ONLY <1>1, <3>1, <3>3
    <3>5. \A r \in 0..(SegMax - 1) : [s[Len(s)] EXCEPT ![u] = v][r] = IF r = u THEN v ELSE s[Len(s)][r]
      BY <3>1, <3>2 DEF Row
    <3>6. \A q \in 1..Len(s), r \in 0..(SegMax - 1) : t[q][r] = IF q = Len(s) /\ r = u THEN v ELSE s[q][r]
      BY ONLY <1>1, <3>4, <3>5
    <3>7. \A q \in 1..Len(t), r \in 0..(SegMax - 1) :
            IF q < Len(t) \/ r < w THEN t[q][r] \in Value ELSE t[q][r] = None
      BY ONLY <1>1, <3>1, <3>4, <3>6, v \in Value
    <3>8. At(t, n) = t[Len(s)][u]
      <4>1. Len(s) \in Nat \ {0} /\ u \in 0..(SegMax - 1)
        BY <1>1, <3>1
      <4> QED BY ONLY <4>1, AtPlace DEF n
    <3>9. t[Len(s)][u] = v
      <4>1. Len(s) \in 1..Len(s) /\ u \in 0..(SegMax - 1)
        BY <1>1, <3>1
      <4> QED BY ONLY <3>6, <4>1
    <3>10. (Len(t) - 1) * SegMax + w = n + 1
      <4>1. (Len(s) - 1) * SegMax \in Nat
        BY <1>1
      <4>2. Len(t) = Len(s) /\ w = u + 1 /\ u \in Nat
        BY ONLY <1>1, <3>1, <3>4
      <4>3. \A x \in Nat : x + (u + 1) = (x + u) + 1
        BY ONLY <4>2
      <4>4. (Len(s) - 1) * SegMax + (u + 1) = ((Len(s) - 1) * SegMax + u) + 1
        BY ONLY <4>1, <4>3
      <4> QED BY ONLY <4>2, <4>4 DEF n
    <3>11. w \in 1..SegMax
      BY ONLY <1>1, <3>1
    <3>12. \A q \in 1..Len(s), r \in 0..(SegMax - 1) : q < Len(s) \/ r # u => t[q][r] = s[q][r]
      BY ONLY <1>1, <3>6
    <3>13. Len(t) \in Nat \ {0} /\ Len(s) <= Len(t)
      BY ONLY <1>1, <3>4
    <3>14. At(t, n) = v
      BY ONLY <3>8, <3>9
    <3> QED BY ONLY <3>4, <3>7, <3>10, <3>11, <3>12, <3>13, <3>14
  <2>2. CASE ~(u < SegMax)
    <3> DEFINE new == [EmptySegment EXCEPT ![0] = v]
    <3>1. w = 1 /\ t = Append(s, new) /\ u = SegMax
      BY <1>1, <2>2 DEF FilledOne
    <3>2. /\ new \in Row /\ new[0] = v /\ \A r \in 1..(SegMax - 1) : new[r] = None
      BY <1>1 DEF EmptySegment, Row
    <3> HIDE DEF new
    <3>3. /\ t \in Seq(Row) /\ Len(t) = Len(s) + 1 /\ t[Len(s) + 1] = new
          /\ \A q \in 1..Len(s) : t[q] = s[q]
      BY ONLY <1>1, <3>1, <3>2
    <3>4. \A q \in 1..Len(s), r \in 0..(SegMax - 1) : t[q][r] = s[q][r] /\ t[q][r] \in Value
      BY ONLY <1>1, <3>1, <3>3
    <3>5. \A r \in 0..(SegMax - 1) : IF r < w THEN t[Len(t)][r] \in Value ELSE t[Len(t)][r] = None
      BY ONLY <1>1, <3>1, <3>2, <3>3, v \in Value
    <3>6. \A q \in 1..Len(t), r \in 0..(SegMax - 1) :
            IF q < Len(t) \/ r < w THEN t[q][r] \in Value ELSE t[q][r] = None
      <4>1. \A q \in 1..Len(t) : q = Len(t) \/ (q \in 1..Len(s) /\ q < Len(t))
        BY ONLY <1>1, <3>3
      <4>2. ~(Len(t) < Len(t))
        BY ONLY <1>1, <3>3
      <4> QED BY ONLY <3>4, <3>5, <4>1, <4>2
    <3>7. n = (Len(s) + 1 - 1) * SegMax + 0 /\ (Len(t) - 1) * SegMax + w = n + 1
      <4>1. (Len(s) - 1) * SegMax + SegMax = Len(s) * SegMax
        BY <1>1
      <4>2. Len(s) + 1 - 1 = Len(s) /\ Len(t) - 1 = Len(s) /\ Len(s) * SegMax \in Nat
        BY <1>1, <3>3
      <4> QED BY ONLY <1>1, <3>1, <4>1, <4>2
    <3>8. Len(s) + 1 \in Nat \ {0} /\ 0 \in 0..(SegMax - 1)
      BY <1>1
    <3>9. At(t, (Len(s) + 1 - 1) * SegMax + 0) = t[Len(s) + 1][0]
      BY ONLY <3>8, AtPlace
    <3>10. At(t, n) = v
      BY ONLY <3>2, <3>3, <3>7, <3>9
    <3>11. w \in 1..SegMax /\ Len(t) \in Nat \ {0} /\ Len(s) <= Len(t)
      BY ONLY <1>1, <3>1, <3>3
    <3> QED BY ONLY <3>3, <3>4, <3>6, <3>7, <3>10, <3>11
  <2> QED BY <2>1, <2>2
<1>3. Filled(t, w)
  BY ONLY <1>1, <1>2 DEF Filled
<1>4. /\ n \in Nat /\ ItemsOf(s) \in Seq(Value) /\ Len(ItemsOf(s)) = n
      /\ \A k \in 1..n : ItemsOf(s)[k] = At(s, k - 1)
  BY ItemsAre
<1>5. \A g \in 0..(n - 1) : \E q \in 1..Len(s), r \in 0..(SegMax - 1) :
              /\ At(s, g) = s[q][r] /\ g = (q - 1) * SegMax + r /\ (q < Len(s) \/ r < u)
  BY FilledItems
<1>6. /\ ItemsOf(t) \in Seq(Value) /\ Len(ItemsOf(t)) = n + 1
      /\ \A k \in 1..(n + 1) : ItemsOf(t)[k] = At(t, k - 1)
  <2>1. LET m == (Len(t) - 1) * SegMax + w IN
        /\ m \in Nat /\ ItemsOf(t) \in Seq(Value) /\ Len(ItemsOf(t)) = m
        /\ \A k \in 1..m : ItemsOf(t)[k] = At(t, k - 1)
    BY <1>3, ItemsAre
  <2>2. (Len(t) - 1) * SegMax + w = n + 1
    BY <1>2
  <2> HIDE DEF n
  <2> QED BY ONLY <2>1, <2>2
<1> HIDE DEF n
<1>7. ASSUME NEW g \in 0..(n - 1) PROVE At(t, g) = At(s, g)
  <2>1. PICK q \in 1..Len(s), r \in 0..(SegMax - 1) :
          At(s, g) = s[q][r] /\ g = (q - 1) * SegMax + r /\ (q < Len(s) \/ r < u)
    BY <1>5
  <2>2. t[q][r] = s[q][r]
    BY ONLY <1>1, <1>2, <2>1, q \in 1..Len(s), r \in 0..(SegMax - 1)
  <2>3. q \in Nat \ {0}
    BY <1>1
  <2>4. At(t, (q - 1) * SegMax + r) = t[q][r]
    BY ONLY <2>3, r \in 0..(SegMax - 1), AtPlace
  <2> QED BY ONLY <2>1, <2>2, <2>4
<1>8. \A k \in 1..n : ItemsOf(t)[k] = ItemsOf(s)[k]
  BY ONLY <1>4, <1>6, <1>7
<1>9. ItemsOf(t)[n + 1] = v
  <2>1. ItemsOf(t)[n + 1] = At(t, n + 1 - 1) /\ n + 1 - 1 = n
    BY ONLY <1>4, <1>6
  <2> QED BY ONLY <1>2, <2>1
<1>10. ItemsOf(t) = Append(ItemsOf(s), v)
  BY ONLY <1>4, <1>6, <1>8, <1>9, v \in Value
<1> QED BY <1>3, <1>10

-----------------------------------------------------------------------------
(* What each call does to the items of its collection                      *)

\* The items of the list, as they are named here.
LEMMA ListAs ==
  /\ ListItems = IF listOpen THEN ItemsOf(segments) ELSE <<>>
  /\ ListItems' = IF listOpen' THEN ItemsOf(segments') ELSE <<>>
BY DEF ListItems, ListEnd, Slots, Slot, ItemsOf, EndOf, At

\* What SegmentsInv says of the list's items.
LEMMA ListSide ==
  ASSUME TypeOK, SegmentsInv
  PROVE  /\ listOpen \in BOOLEAN /\ listFits \in BOOLEAN /\ listLen \in Nat
         /\ ListItems \in Seq(Value) /\ Len(ListItems) = listLen
         /\ listOpen /\ listFits => Filled(segments, usedSlots)
         /\ listOpen /\ ~listFits =>
              /\ ItemsOf(segments) = <<>> /\ segments \in Seq(Row)
              /\ \A q \in 1..Len(segments), r \in 0..(SegMax - 1) : segments[q][r] = None
<1>1. /\ listOpen \in BOOLEAN /\ listFits \in BOOLEAN /\ listLen \in Nat
      /\ segments \in Seq(Row) /\ usedSlots \in 0..SegMax
  BY Zenon DEF TypeOK, ListTypeOK, Row
<1>2. ASSUME listOpen, listFits PROVE Filled(segments, usedSlots) /\ ItemsOf(segments) \in Seq(Value) /\ Len(ItemsOf(segments)) = listLen
  <2>1. Filled(segments, usedSlots)
    BY <1>1, <1>2 DEF SegmentsInv, Filled
  <2>2. listLen = (Len(segments) - 1) * SegMax + usedSlots
    BY <1>2 DEF SegmentsInv
  <2> QED BY ONLY <2>1, <2>2, ItemsAre
<1>3. ASSUME ~listFits
      PROVE  /\ ItemsOf(segments) = <<>> /\ listLen = 0
             /\ \A q \in 1..Len(segments), r \in 0..(SegMax - 1) : segments[q][r] = None
  <2>1. \A q \in 1..Len(segments), r \in 0..(SegMax - 1) : segments[q][r] = None
    BY <1>3 DEF SegmentsInv
  <2>2. ItemsOf(segments) = <<>>
    BY ONLY <1>1, <2>1, NoItems
  <2> QED BY <1>3, <2>1, <2>2 DEF SegmentsInv
<1>4. ~listOpen => listLen = 0
  BY DEF SegmentsInv
<1>5. <<>> \in Seq(Value) /\ Len(<<>>) = 0
  OBVIOUS
<1> QED BY ONLY <1>1, <1>2, <1>3, <1>4, <1>5, ListAs

\* Nothing of the list changes.
LEMMA ListUntouched ==
  ASSUME UNCHANGED listVars
  PROVE  ListItems' = ListItems /\ (SegmentsInv => SegmentsInv')
<1>1. UNCHANGED <<listOpen, listFits, segments, usedSlots, listLen>>
  BY DEF listVars
<1>2. ListItems' = ListItems
  BY ONLY <1>1, ListAs
<1>3. SegmentsInv => SegmentsInv'
  BY ONLY <1>1 DEF SegmentsInv
<1> QED BY <1>2, <1>3

\* List::new holds no item.
LEMMA ListNewEffect ==
  ASSUME TypeOK, SegmentsInv, NEW fits \in BOOLEAN, ListNew(fits)
  PROVE  SegmentsInv' /\ ListItems' = ListItems /\ ListItems = <<>>
<1>1. /\ ~listOpen /\ listOpen' = TRUE /\ listFits' = fits /\ segments' = <<EmptySegment>>
      /\ usedSlots' = usedSlots /\ listLen' = listLen
  BY DEF ListNew
<1>2. usedSlots = 0 /\ listLen = 0 /\ SegMax \in Nat \ {0}
  BY <1>1, SegMaxAssumption DEF SegmentsInv
<1>3. \A r \in 0..(SegMax - 1) : EmptySegment[r] = None
  BY DEF EmptySegment
<1>4. EmptySegment \in Row
  BY DEF EmptySegment, Row
<1>5. /\ segments' \in Seq(Row) /\ Len(segments') = 1
      /\ \A q \in 1..Len(segments'), r \in 0..(SegMax - 1) : segments'[q][r] = None
  BY ONLY <1>1, <1>3, <1>4
<1>6. ItemsOf(segments') = <<>>
  BY ONLY <1>5, NoItems
<1>7. ListItems = <<>> /\ ListItems' = <<>>
  BY ONLY <1>1, <1>6, ListAs
<1>8. SegmentsInv'
  <2>1. (Len(segments') - 1) * SegMax + usedSlots' = 0
    BY ONLY <1>1, <1>2, <1>5
  <2>2. \A q \in 1..Len(segments'), r \in 0..(SegMax - 1) : ~(q < Len(segments') \/ r < usedSlots')
    BY ONLY <1>1, <1>2, <1>5
  <2> QED BY ONLY <1>1, <1>2, <1>5, <2>1, <2>2 DEF SegmentsInv
<1> QED BY <1>7, <1>8

\* List::push adds its item behind the others, in the last segment or in a new
\* one.
LEMMA ListPushEffect ==
  ASSUME TypeOK, SegmentsInv, NEW v \in Value, ListPush(v)
  PROVE  SegmentsInv' /\ ListItems' = Append(ListItems, v)
<1>1. /\ listOpen /\ listFits /\ listOpen' = listOpen /\ listFits' = listFits /\ listLen' = listLen + 1
      /\ \/ /\ usedSlots < SegMax /\ usedSlots' = usedSlots + 1
            /\ segments' = [segments EXCEPT ![Len(segments)][usedSlots] = v]
         \/ /\ ~(usedSlots < SegMax) /\ usedSlots' = 1
            /\ segments' = Append(segments, [EmptySegment EXCEPT ![0] = v])
  BY DEF ListPush, HasSlot
<1>2. Filled(segments, usedSlots) /\ Len(ListItems) = listLen /\ ListItems \in Seq(Value)
  BY <1>1, ListSide
<1>3. Filled(segments', usedSlots') /\ ItemsOf(segments') = Append(ItemsOf(segments), v)
  <2>1. FilledOne(segments, usedSlots, v, segments', usedSlots')
    BY ONLY <1>1 DEF FilledOne
  <2> QED BY ONLY <1>2, <2>1, FilledOn, v \in Value, Zenon
<1>4. ListItems' = Append(ListItems, v)
  BY ONLY <1>1, <1>3, ListAs
<1>5. listLen' = (Len(segments') - 1) * SegMax + usedSlots'
  <2>1. Len(ItemsOf(segments')) = (Len(segments') - 1) * SegMax + usedSlots'
    BY ONLY <1>3, ItemsAre
  <2>2. Len(Append(ListItems, v)) = Len(ListItems) + 1
    BY ONLY <1>2, v \in Value
  <2> QED BY ONLY <1>1, <1>2, <1>3, <2>1, <2>2, ListAs
<1>6. SegmentsInv'
  BY ONLY <1>1, <1>3, <1>5 DEF SegmentsInv, Filled
<1> QED BY <1>4, <1>6

\* A push whose segment does not fit adds none.
LEMMA ListPushTooBigEffect ==
  ASSUME TypeOK, SegmentsInv, NEW v \in Value, ListPushTooBig(v)
  PROVE  SegmentsInv' /\ ListItems' = ListItems
<1>1. /\ listOpen /\ ~listFits /\ listOpen' = listOpen /\ listFits' = listFits /\ listLen' = listLen
      /\ segments' = segments \/ segments' = Append(segments, EmptySegment)
  BY DEF ListPushTooBig, HasSlot
<1>2. /\ segments \in Seq(Row) /\ ItemsOf(segments) = <<>>
      /\ \A q \in 1..Len(segments), r \in 0..(SegMax - 1) : segments[q][r] = None
  BY <1>1, ListSide
<1>3. EmptySegment \in Row /\ \A r \in 0..(SegMax - 1) : EmptySegment[r] = None
  BY DEF EmptySegment, Row
<1>4. /\ segments' \in Seq(Row) /\ Len(segments') >= Len(segments)
      /\ \A q \in 1..Len(segments'), r \in 0..(SegMax - 1) : segments'[q][r] = None
  <2>1. CASE segments' = segments
    BY ONLY <1>2, <2>1
  <2>2. CASE segments' = Append(segments, EmptySegment)
    <3>1. /\ segments' \in Seq(Row) /\ Len(segments') = Len(segments) + 1 /\ Len(segments) \in Nat
          /\ \A q \in 1..Len(segments) : segments'[q] = segments[q]
          /\ segments'[Len(segments) + 1] = EmptySegment
      BY ONLY <1>2, <1>3, <2>2
    <3> QED BY ONLY <1>2, <1>3, <3>1
  <2> QED BY <1>1, <2>1, <2>2
<1>5. ItemsOf(segments') = <<>>
  BY ONLY <1>4, NoItems
<1>6. ListItems' = ListItems
  BY ONLY <1>1, <1>2, <1>5, ListAs
<1>7. Len(segments) >= 1 /\ listLen = 0 /\ Len(segments) \in Nat /\ Len(segments') \in Nat
  BY <1>1, <1>2, <1>4 DEF SegmentsInv
<1>8. Len(segments') >= 1
  BY ONLY <1>4, <1>7
<1> QED BY <1>1, <1>4, <1>6, <1>7, <1>8 DEF SegmentsInv

\* A step of the list adds one item at its end or none.
LEMMA ListStepEffect ==
  ASSUME TypeOK, SegmentsInv, [Next]_vars
  PROVE  /\ SegmentsInv'
         /\ \/ ListItems' = ListItems
            \/ \E v \in Value : ListStep /\ ListPush(v) /\ ListItems' = Append(ListItems, v)
<1>1. CASE UNCHANGED listVars
  BY <1>1, ListUntouched
<1>2. CASE ListStep
  <2>1. \A v \in Value : ListPushDead(v) => UNCHANGED listVars
    BY DEF ListPushDead
  <2> QED BY <1>1, <1>2, <2>1, ListNewEffect, ListPushEffect, ListPushTooBigEffect DEF ListStep
<1>3. NStep \/ ArrayStep \/ FixedStep \/ TextStep \/ ArenaStep \/ UNCHANGED vars => UNCHANGED listVars
  BY DEF NStep, OnlyN, ArrayStep, OnlyArray, FixedStep, OnlyFixed, TextStep, OnlyText, ArenaStep,
     OnlyArena, vars
<1> QED BY <1>1, <1>2, <1>3, StepKinds

\* The first n elements of a sequence.
LEMMA FirstOf ==
  ASSUME NEW S, NEW s \in Seq(S), NEW n \in 0..Len(s)
  PROVE  /\ SubSeq(s, 1, n) \in Seq(S) /\ Len(SubSeq(s, 1, n)) = n
         /\ \A i \in 1..n : SubSeq(s, 1, n)[i] = s[i]
<1>1. n \in Nat /\ \A i \in 1..n : s[i] \in S
  OBVIOUS
<1>2. /\ SubSeq(s, 1, n) \in Seq(S)
      /\ Len(SubSeq(s, 1, n)) = IF 1 <= n THEN n - 1 + 1 ELSE 0
      /\ \A i \in 1..(n - 1 + 1) : SubSeq(s, 1, n)[i] = s[1 + i - 1]
  BY ONLY <1>1, SubSeqProperties, SMT
<1> QED BY ONLY <1>1, <1>2

\* A sequence whose elements are all of T.
LEMMA Refined ==
  ASSUME NEW S, NEW T, NEW s \in Seq(S), \A i \in 1..Len(s) : s[i] \in T
  PROVE  s \in Seq(T)
<1> s = [i \in 1..Len(s) |-> s[i]] /\ Len(s) \in Nat
  OBVIOUS
<1> QED OBVIOUS

\* What TableInv says of the array's items.
LEMMA ArraySide ==
  ASSUME TypeOK, TableInv
  PROVE  /\ ArrayItems \in Seq(Value) /\ Len(ArrayItems) = arrLen /\ arrLen \in Nat
         /\ \A i \in 1..arrLen : ArrayItems[i] = ptrs[i] /\ ptrs[i] \in Value
         /\ IsInjective(ArrayItems)
<1>1. ptrs \in Seq(Value \cup {Garbage}) /\ arrLen \in 0..Len(ptrs)
  BY TypeParts
<1>2. (\A i \in 1..arrLen : ptrs[i] \in Value) /\ IsInjective(ArrayItems)
  BY DEF TableInv
<1>3. /\ ArrayItems \in Seq(Value \cup {Garbage}) /\ Len(ArrayItems) = arrLen
      /\ \A i \in 1..arrLen : ArrayItems[i] = ptrs[i]
  BY ONLY <1>1, FirstOf DEF ArrayItems
<1>4. ArrayItems \in Seq(Value)
  BY ONLY <1>1, <1>2, <1>3, Refined
<1> QED BY <1>1, <1>2, <1>3, <1>4

\* Nothing of the array changes.
LEMMA ArrayUntouched ==
  ASSUME UNCHANGED arrVars
  PROVE  ArrayItems' = ArrayItems
BY DEF arrVars, ArrayItems

\* Sequences with the same elements in the same places are equal.
LEMMA SameSequence ==
  ASSUME NEW S, NEW s \in Seq(S), NEW t \in Seq(S), Len(s) = Len(t), \A i \in 1..Len(s) : s[i] = t[i]
  PROVE  s = t
OBVIOUS

\* Array::push adds its item behind the others, in the table or in a copy of
\* it.
LEMMA ArrayPushEffect ==
  ASSUME TypeOK, TableInv, NEW v \in Value, ArrayPush(v)
  PROVE  /\ ArrayItems' = Append(ArrayItems, v) /\ arrLen' = arrLen + 1 /\ arrStage' = arrStage
         /\ ptrs' \in Seq(Value \cup {Garbage}) /\ Len(ptrs') >= arrLen + 1
         /\ (\A i \in 1..arrLen : ptrs'[i] = ptrs[i]) /\ ptrs'[arrLen + 1] = v
<1>1. ptrs' = [Roomy EXCEPT ![arrLen + 1] = v] /\ arrLen' = arrLen + 1 /\ arrStage' = arrStage
  BY DEF ArrayPush
<1>2. /\ Roomy \in Seq(Value \cup {Garbage}) /\ Len(Roomy) >= arrLen + 1
      /\ \A i \in 1..arrLen : Roomy[i] = ptrs[i]
  BY TypeParts, RoomyTable
<1>3. /\ ArrayItems \in Seq(Value) /\ Len(ArrayItems) = arrLen /\ arrLen \in Nat
      /\ \A i \in 1..arrLen : ArrayItems[i] = ptrs[i] /\ ptrs[i] \in Value
  BY ArraySide
<1>4. /\ ptrs' \in Seq(Value \cup {Garbage}) /\ Len(ptrs') = Len(Roomy)
      /\ (\A i \in 1..arrLen : ptrs'[i] = ptrs[i]) /\ ptrs'[arrLen + 1] = v
  BY ONLY <1>1, <1>2, <1>3, v \in Value
<1>5. arrLen + 1 \in 0..Len(ptrs')
  BY ONLY <1>2, <1>3, <1>4
<1>6. /\ ArrayItems' \in Seq(Value \cup {Garbage}) /\ Len(ArrayItems') = arrLen + 1
      /\ \A i \in 1..(arrLen + 1) : ArrayItems'[i] = ptrs'[i]
  BY ONLY <1>1, <1>4, <1>5, FirstOf DEF ArrayItems
<1>7. /\ Append(ArrayItems, v) \in Seq(Value \cup {Garbage}) /\ Len(Append(ArrayItems, v)) = arrLen + 1
      /\ \A i \in 1..arrLen : Append(ArrayItems, v)[i] = ArrayItems[i]
      /\ Append(ArrayItems, v)[arrLen + 1] = v
  BY ONLY <1>3, v \in Value
<1>8. \A i \in 1..(arrLen + 1) : ArrayItems'[i] = Append(ArrayItems, v)[i]
  BY ONLY <1>3, <1>4, <1>6, <1>7
<1>9. ArrayItems' = Append(ArrayItems, v)
  BY ONLY <1>6, <1>7, <1>8, SameSequence
<1> QED BY <1>1, <1>2, <1>4, <1>9

\* Array::pop takes the last item.
LEMMA ArrayPopEffect ==
  ASSUME TypeOK, TableInv, ArrayPop
  PROVE  /\ ArrayItems' = Front(ArrayItems) /\ ArrayItems # <<>> /\ Last(ArrayItems) = ptrs[arrLen]
         /\ arrLen \in Nat \ {0} /\ arrLen' = arrLen - 1 /\ UNCHANGED <<ptrs, arrStage>>
<1>1. arrLen > 0 /\ arrLen' = arrLen - 1 /\ UNCHANGED <<ptrs, arrStage>>
  BY DEF ArrayPop
<1>2. ptrs \in Seq(Value \cup {Garbage}) /\ arrLen \in 0..Len(ptrs)
  BY TypeParts
<1>3. /\ ArrayItems \in Seq(Value) /\ Len(ArrayItems) = arrLen /\ arrLen \in Nat
      /\ \A i \in 1..arrLen : ArrayItems[i] = ptrs[i]
  BY ArraySide
<1>4. ArrayItems' = SubSeq(ptrs, 1, arrLen - 1) /\ arrLen - 1 \in 0..Len(ptrs)
  BY <1>1, <1>2 DEF ArrayItems
<1>5. /\ ArrayItems' \in Seq(Value \cup {Garbage}) /\ Len(ArrayItems') = arrLen - 1
      /\ \A i \in 1..(arrLen - 1) : ArrayItems'[i] = ptrs[i]
  BY ONLY <1>2, <1>4, FirstOf
<1>6. ArrayItems # <<>> /\ ArrayItems \in Seq(Value \cup {Garbage})
  BY ONLY <1>1, <1>3
<1>7. /\ Last(ArrayItems) = ArrayItems[arrLen]
      /\ Front(ArrayItems) \in Seq(Value \cup {Garbage}) /\ Len(Front(ArrayItems)) = arrLen - 1
      /\ \A i \in 1..(arrLen - 1) : Front(ArrayItems)[i] = ArrayItems[i]
  BY ONLY <1>3, <1>6, Popped
<1>8. \A i \in 1..(arrLen - 1) : ArrayItems'[i] = Front(ArrayItems)[i]
  BY ONLY <1>3, <1>5, <1>7
<1>9. ArrayItems' = Front(ArrayItems)
  BY ONLY <1>5, <1>7, <1>8, SameSequence
<1> QED BY <1>1, <1>3, <1>6, <1>7, <1>9

\* A push whose growth fails leaves the items there.
LEMMA ArrayPushFailsEffect ==
  ASSUME TypeOK, TableInv, NEW v \in Value, ArrayPushFails(v)
  PROVE  /\ ArrayItems' = ArrayItems /\ UNCHANGED <<arrStage, arrLen>>
         /\ \A i \in 1..arrLen : ptrs'[i] = ptrs[i]
<1>1. UNCHANGED <<arrStage, arrLen>> /\ (ptrs' = ptrs \/ ptrs' = Roomy)
  BY DEF ArrayPushFails
<1>2. /\ Roomy \in Seq(Value \cup {Garbage}) /\ Len(Roomy) >= arrLen + 1
      /\ \A i \in 1..arrLen : Roomy[i] = ptrs[i]
      /\ ptrs \in Seq(Value \cup {Garbage}) /\ arrLen \in 0..Len(ptrs)
  BY TypeParts, RoomyTable
<1>3. ptrs' \in Seq(Value \cup {Garbage}) /\ arrLen \in 0..Len(ptrs') /\ \A i \in 1..arrLen : ptrs'[i] = ptrs[i]
  BY ONLY <1>1, <1>2
<1>4. /\ SubSeq(ptrs, 1, arrLen) \in Seq(Value \cup {Garbage}) /\ Len(SubSeq(ptrs, 1, arrLen)) = arrLen
      /\ \A i \in 1..arrLen : SubSeq(ptrs, 1, arrLen)[i] = ptrs[i]
  BY ONLY <1>2, FirstOf
<1>5. /\ SubSeq(ptrs', 1, arrLen) \in Seq(Value \cup {Garbage}) /\ Len(SubSeq(ptrs', 1, arrLen)) = arrLen
      /\ \A i \in 1..arrLen : SubSeq(ptrs', 1, arrLen)[i] = ptrs'[i]
  BY ONLY <1>3, FirstOf
<1>6. \A i \in 1..arrLen : SubSeq(ptrs', 1, arrLen)[i] = SubSeq(ptrs, 1, arrLen)[i]
  BY ONLY <1>3, <1>4, <1>5
<1>7. SubSeq(ptrs', 1, arrLen) = SubSeq(ptrs, 1, arrLen)
  BY ONLY <1>4, <1>5, <1>6, SameSequence
<1> QED BY <1>1, <1>3, <1>7 DEF ArrayItems

\* Array::new holds no item.
LEMMA ArrayNewEffect ==
  ASSUME TypeOK, TableInv, NEW cap \in AskedCaps, NEW fits \in BOOLEAN, ArrayNew(cap, fits)
  PROVE  ArrayItems' = ArrayItems /\ ArrayItems = <<>> /\ arrLen = 0 /\ arrLen' = 0
<1>1. arrLen = 0 /\ arrLen' = 0 /\ (ptrs' = ptrs \/ ptrs' = Table(cap))
  BY DEF ArrayNew, TableInv
<1>2. ptrs \in Seq(Value \cup {Garbage}) /\ Table(cap) \in Seq(Value \cup {Garbage})
  BY TypeParts, AskedCapsNat, TableRow
<1>3. SubSeq(ptrs, 1, 0) = <<>> /\ SubSeq(ptrs', 1, 0) = <<>>
  BY ONLY <1>1, <1>2
<1> QED BY <1>1, <1>3 DEF ArrayItems

-----------------------------------------------------------------------------
(* Each value in one place                                                 *)

\* Groups of values, each value in one of them, drops d, and an arena that is
\* alive or not.
PlaceOK(o, n, l, a, f, s, d, living) ==
  /\ Disjoint(o, n, l, a, f, s)
  /\ \A v \in o \cup s : d[v] = 0
  /\ \A v \in Value \ (o \cup n \cup l \cup a \cup f \cup s) : d[v] = 1
  /\ \A v \in n \cup l : d[v] \in {0, 1}
  /\ living => \A v \in n \cup l : d[v] = 0

\* PlaceInv before and after a step, as PlaceOK.
LEMMA PlaceAs ==
  /\ PlaceInv <=> PlaceOK(outside, Range(nodes), Range(ListItems), Range(ArrayItems), Held, spilled, drops, phase = "alive")
  /\ PlaceInv' <=> PlaceOK(outside', Range(nodes'), Range(ListItems'), Range(ArrayItems'), Held', spilled', drops', phase' = "alive")
<1>1. PlaceInv <=> PlaceOK(outside, Range(nodes), Range(ListItems), Range(ArrayItems), Held, spilled, drops, phase = "alive")
  BY Zenon DEF PlaceInv, PlaceOK, Apart, Homeless
<1>2. PlaceInv' <=> PlaceOK(outside', Range(nodes'), Range(ListItems'), Range(ArrayItems'), Held', spilled', drops', phase' = "alive")
  BY Zenon DEF PlaceInv, PlaceOK, Apart, Homeless
<1> QED BY <1>1, <1>2

\* A failed call drops what it was given.
LEMMA MoveRefused ==
  ASSUME NEW o, NEW n, NEW l, NEW a, NEW f, NEW s, NEW d \in [Value -> Nat], NEW d2, NEW living, NEW vs,
         PlaceOK(o, n, l, a, f, s, d, living),
         o \subseteq Value, s \subseteq Value, n \subseteq Value, l \subseteq Value,
         vs \subseteq o, \A v \in Value : d2[v] = IF v \in vs THEN d[v] + 1 ELSE d[v]
  PROVE  PlaceOK(o \ vs, n, l, a, f, s, d2, living)
<1>1. Disjoint(o, n, l, a, f, s) /\ vs \cap (n \cup l \cup a \cup f \cup s) = {}
  BY DEF PlaceOK, Disjoint
<1>2. Disjoint(o \ vs, n, l, a, f, s)
  BY ONLY <1>1 DEF Disjoint
<1>3. \A v \in (o \ vs) \cup s : d2[v] = 0
  BY <1>1 DEF PlaceOK
<1>4. \A v \in Value \ ((o \ vs) \cup n \cup l \cup a \cup f \cup s) : d2[v] = 1
  BY <1>1 DEF PlaceOK
<1>5. (\A v \in n \cup l : d2[v] \in {0, 1}) /\ (living => \A v \in n \cup l : d2[v] = 0)
  BY <1>1 DEF PlaceOK
<1> QED BY <1>2, <1>3, <1>4, <1>5 DEF PlaceOK

\* A call takes vs and puts each of them into one of the other groups.
LEMMA MoveTaken ==
  ASSUME NEW o, NEW n, NEW l, NEW a, NEW f, NEW s, NEW d, NEW living, NEW vs,
         PlaceOK(o, n, l, a, f, s, d, living), vs \subseteq o,
         NEW n1, NEW l1, NEW a1, NEW f1, NEW s1, Disjoint({}, n1, l1, a1, f1, s1),
         n1 \cup l1 \cup a1 \cup f1 \cup s1 = vs
  PROVE  PlaceOK(o \ vs, n \cup n1, l \cup l1, a \cup a1, f \cup f1, s \cup s1, d, living)
<1>1. Disjoint(o, n, l, a, f, s)
  BY DEF PlaceOK
<1>2. Disjoint(o \ vs, n \cup n1, l \cup l1, a \cup a1, f \cup f1, s \cup s1)
  BY <1>1 DEF Disjoint
<1>3. \A v \in (o \ vs) \cup (s \cup s1) : d[v] = 0
  BY DEF PlaceOK
<1>4. \A v \in Value \ ((o \ vs) \cup (n \cup n1) \cup (l \cup l1) \cup (a \cup a1) \cup (f \cup f1) \cup (s \cup s1)) : d[v] = 1
  BY DEF PlaceOK
<1>5. /\ \A v \in (n \cup n1) \cup (l \cup l1) : d[v] \in {0, 1}
      /\ living => \A v \in (n \cup n1) \cup (l \cup l1) : d[v] = 0
  BY DEF PlaceOK
<1> QED BY ONLY <1>2, <1>3, <1>4, <1>5 DEF PlaceOK

\* ArrayInitializer::push copies v and drops it.
LEMMA MoveCopied ==
  ASSUME NEW o, NEW n, NEW l, NEW a, NEW f, NEW s, NEW d \in [Value -> Nat], NEW d2, NEW living, NEW v \in o,
         PlaceOK(o, n, l, a, f, s, d, living),
         o \subseteq Value, s \subseteq Value, n \subseteq Value, l \subseteq Value,
         \A u \in Value : d2[u] = IF u = v THEN d[u] + 1 ELSE d[u]
  PROVE  PlaceOK(o \ {v}, n, l, a, f \cup {v}, s, d2, living)
<1>1. Disjoint(o, n, l, a, f, s)
  BY DEF PlaceOK
<1>2. Disjoint(o \ {v}, n, l, a, f \cup {v}, s) /\ v \notin n \cup l \cup s
  BY <1>1 DEF Disjoint
<1>3. \A u \in (o \ {v}) \cup s : d2[u] = 0
  BY <1>2 DEF PlaceOK
<1>4. \A u \in Value \ ((o \ {v}) \cup n \cup l \cup a \cup (f \cup {v}) \cup s) : d2[u] = 1
  BY DEF PlaceOK
<1>5. (\A u \in n \cup l : d2[u] \in {0, 1}) /\ (living => \A u \in n \cup l : d2[u] = 0)
  BY <1>2 DEF PlaceOK
<1> QED BY ONLY <1>2, <1>3, <1>4, <1>5 DEF PlaceOK

\* Array::pop gives x back.
LEMMA MoveBack ==
  ASSUME NEW o, NEW n, NEW l, NEW a, NEW f, NEW s, NEW d, NEW living, NEW x \in a,
         PlaceOK(o, n, l, a, f, s, d, living), d[x] = 0
  PROVE  PlaceOK(o \cup {x}, n, l, a \ {x}, f, s, d, living)
<1>1. Disjoint(o, n, l, a, f, s)
  BY DEF PlaceOK
<1>2. Disjoint(o \cup {x}, n, l, a \ {x}, f, s)
  BY <1>1 DEF Disjoint
<1> QED BY <1>2 DEF PlaceOK

\* The six places hold values only.
LEMMA PlacesTyped ==
  ASSUME TypeOK, SegmentsInv, TableInv
  PROVE  /\ outside \subseteq Value /\ Range(nodes) \subseteq Value /\ Range(ListItems) \subseteq Value
         /\ Range(ArrayItems) \subseteq Value /\ Held \subseteq Value /\ spilled \subseteq Value
         /\ drops \in [Value -> Nat]
<1>1. /\ outside \subseteq Value /\ nodes \in Seq(Value) /\ ListItems \in Seq(Value) /\ ArrayItems \in Seq(Value)
      /\ cells \in Seq(Value \cup {Garbage}) /\ spilled \subseteq Value /\ drops \in [Value -> Nat]
  BY TypeParts, ListSide, ArraySide
<1>2. /\ Range(nodes) \subseteq Value /\ Range(ListItems) \subseteq Value /\ Range(ArrayItems) \subseteq Value
      /\ Range(cells) \subseteq Value \cup {Garbage}
  BY ONLY <1>1, RangeOfSeq
<1> QED BY <1>1, <1>2 DEF Held

\* What a region holds, cell by cell.
LEMMA HeldCells ==
  ASSUME NEW s \in Seq(Value \cup {Garbage})
  PROVE  \A x : x \in Range(s) \ {Garbage} <=> x \in Value /\ \E k \in 1..Len(s) : s[k] = x
<1>1. \A x : x \in Range(s) <=> \E k \in 1..Len(s) : s[k] = x
  BY InRange
<1>2. \A k \in 1..Len(s) : s[k] \in Value \cup {Garbage}
  OBVIOUS
<1> QED BY <1>1, <1>2, TenantsAssumption

\* An empty sequence has no elements.
LEMMA NoElements == Range(<<>>) = {}
<1>1. DOMAIN <<>> = {}
  OBVIOUS
<1> QED BY ONLY <1>1 DEF Range

\* Nothing of the fixed array changes.
LEMMA FixedUntouched ==
  ASSUME UNCHANGED fixVars
  PROVE  Held' = Held /\ spilled' = spilled
BY DEF fixVars, Held

\* with_capacity holds no value yet.
LEMMA ReserveEffect ==
  ASSUME TypeOK, CellsInv, NEW cap \in Regions, FixedReserve(cap)
  PROVE  Held' = Held /\ spilled' = spilled /\ Held = {}
<1>1. cells = <<>> /\ (cells' = cells \/ cells' = Uninit(cap)) /\ spilled' = spilled /\ cap \in Nat
  BY FixedAssumption DEF FixedReserve, CellsInv
<1>2. /\ Uninit(cap) \in Seq(Value \cup {Garbage}) /\ <<>> \in Seq(Value \cup {Garbage}) /\ Len(<<>>) = 0
      /\ \A k \in 1..Len(Uninit(cap)) : Uninit(cap)[k] = Garbage
  BY <1>1 DEF Uninit
<1>3. Range(<<>>) \ {Garbage} = {}
  BY NoElements
<1>4. Range(Uninit(cap)) \ {Garbage} = {}
  BY ONLY <1>2, HeldCells, TenantsAssumption
<1> QED BY ONLY <1>1, <1>3, <1>4 DEF Held

\* A full account of what FixedNew writes.
LEMMA FixedNewEffect ==
  ASSUME TypeOK, CellsInv, NEW vs \in Batches, NEW src \in Sources, FixedNew(src, vs)
  PROVE  LET ys == Yielded(src, vs) IN
         /\ Range(ys) \subseteq outside /\ outside' = outside \ Range(ys) /\ drops' = drops
         /\ Held = {} /\ spilled = {} /\ Held' \cap spilled' = {} /\ Held' \cup spilled' = Range(ys)
<1> DEFINE ys == Yielded(src, vs)
           n == Announced(src, vs)
<1>1. /\ fixStage = "none" /\ Range(ys) \subseteq outside /\ outside' = outside \ Range(ys) /\ drops' = drops
      /\ cells' = Written(n, ys)
      /\ spilled' = { v \in Range(ys) : v \notin Range(cells') }
  BY DEF FixedNew, Takes
<1>2. n \in Nat /\ ys \in Seq(Value)
  BY BatchTyped, IteratorKinds
<1> HIDE DEF ys, n
<1>3. /\ cells' \in Seq(Value \cup {Garbage}) /\ Len(cells') = n
      /\ \A k \in 1..n : cells'[k] = IF k <= Len(ys) THEN ys[k] ELSE Garbage
  BY <1>1, <1>2, WrittenRow
<1>4. \A x : x \in Range(ys) <=> \E k \in 1..Len(ys) : ys[k] = x
  BY ONLY <1>2, InRange
<1>5. \A x : x \in Held' <=> x \in Value /\ \E k \in 1..n : cells'[k] = x
  BY ONLY <1>3, HeldCells DEF Held
<1>6. Held' \subseteq Range(ys)
  <2> SUFFICES ASSUME NEW x \in Held' PROVE x \in Range(ys)
    OBVIOUS
  <2>1. PICK k \in 1..n : cells'[k] = x
    BY <1>5
  <2>2. x \in Value
    BY <1>5
  <2>3. k <= Len(ys) /\ ys[k] = x
    BY <1>3, <2>1, <2>2, TenantsAssumption
  <2> QED BY <1>2, <1>4, <2>3
<1>7. Held = {} /\ spilled = {}
  <2>1. cells = <<>> /\ spilled = {}
    BY <1>1 DEF CellsInv
  <2> QED BY <2>1, NoElements DEF Held
<1>8. Range(ys) \subseteq Value /\ Held' = Range(cells') \ {Garbage}
  BY <1>2, RangeOfSeq DEF Held
<1>9. Held' \cap spilled' = {} /\ Held' \cup spilled' = Range(ys)
  BY ONLY <1>1, <1>6, <1>8, TenantsAssumption
<1> QED BY <1>1, <1>7, <1>9 DEF ys

\* Foreign code moves the values it is given to the start of the region.
LEMMA FillEffect ==
  ASSUME TypeOK, CellsInv, NEW vs \in Batches, FillByC(vs)
  PROVE  /\ Range(vs) \subseteq outside /\ outside' = outside \ Range(vs) /\ drops' = drops
         /\ Held = {} /\ spilled' = spilled /\ Held' = Range(vs)
         /\ vs \in Seq(Value) /\ IsInjective(vs) /\ Len(vs) \in Nat /\ Len(vs) <= Len(cells)
         /\ cells' \in Seq(Value \cup {Garbage}) /\ Len(cells') = Len(cells)
         /\ \A k \in 1..Len(cells) : cells'[k] = IF k <= Len(vs) THEN vs[k] ELSE Garbage
<1>1. /\ fixBy = "none" /\ Range(vs) \subseteq outside /\ outside' = outside \ Range(vs) /\ drops' = drops
      /\ cells' = Written(Len(cells), vs) /\ Len(vs) <= Len(cells) /\ spilled' = spilled
  BY DEF FillByC, Takes, Room
<1>2. cells \in Seq(Value \cup {Garbage}) /\ Len(cells) \in Nat /\ vs \in Seq(Value) /\ IsInjective(vs) /\ Len(vs) \in Nat
  BY TypeParts, BatchTyped
<1>3. /\ cells' \in Seq(Value \cup {Garbage}) /\ Len(cells') = Len(cells)
      /\ \A k \in 1..Len(cells) : cells'[k] = IF k <= Len(vs) THEN vs[k] ELSE Garbage
  BY <1>1, <1>2, WrittenRow
<1>4. \A k \in 1..Len(cells) : cells[k] \notin Value
  BY <1>1, <1>2 DEF CellsInv, ByHand, Room
<1>5. Held = {}
  BY ONLY <1>2, <1>4, HeldCells DEF Held
<1>6. \A x : x \in Range(vs) <=> \E k \in 1..Len(vs) : vs[k] = x
  BY ONLY <1>2, InRange
<1>7. \A x : x \in Held' <=> x \in Value /\ \E k \in 1..Len(cells) : cells'[k] = x
  BY ONLY <1>3, HeldCells DEF Held
<1>8. ASSUME NEW x \in Held' PROVE x \in Range(vs)
  <2>1. PICK k \in 1..Len(cells) : cells'[k] = x
    BY <1>7
  <2>2. k <= Len(vs) /\ vs[k] = x
    BY <1>3, <1>7, <2>1, TenantsAssumption
  <2> QED BY <1>2, <1>6, <2>2
<1>9. ASSUME NEW x \in Range(vs) PROVE x \in Held'
  <2>1. PICK k \in 1..Len(vs) : vs[k] = x
    BY <1>6
  <2>2. k \in 1..Len(cells) /\ cells'[k] = x /\ x \in Value
    BY ONLY <1>1, <1>2, <1>3, <2>1
  <2> QED BY ONLY <1>7, <2>2
<1> QED BY <1>1, <1>2, <1>3, <1>5, <1>8, <1>9

\* ArrayInitializer::push copies its item into the next cell, and drops it.
LEMMA InitPushEffect ==
  ASSUME TypeOK, CellsInv, NEW v \in Value, InitPush(v)
  PROVE  /\ v \in outside /\ outside' = outside \ {v} /\ Refuses({v})
         /\ \A u \in Value : drops'[u] = IF u = v THEN drops[u] + 1 ELSE drops[u]
         /\ spilled' = spilled /\ Held' = Held \cup {v}
         /\ cells' \in Seq(Value \cup {Garbage}) /\ Len(cells') = Len(cells) /\ initLen + 1 \in 1..Len(cells)
         /\ \A k \in 1..Len(cells) : cells'[k] = IF k = initLen + 1 THEN v ELSE cells[k]
         /\ cells[initLen + 1] = Garbage
<1>1. /\ fixBy \in {"none", "init"} /\ Refuses({v}) /\ initLen < Len(cells) /\ spilled' = spilled
      /\ cells' = [cells EXCEPT ![initLen + 1] = v]
  BY DEF InitPush, Initializing, Room
<1>2. cells \in Seq(Value \cup {Garbage}) /\ initLen \in Nat /\ drops \in [Value -> Nat] /\ Len(cells) \in Nat
  BY TypeParts
<1>3. /\ {v} \subseteq outside /\ outside' = outside \ {v}
      /\ \A u \in Value : drops'[u] = IF u \in {v} THEN drops[u] + 1 ELSE drops[u]
  BY <1>1, <1>2, DropsAllEffect DEF Refuses
<1>4. initLen + 1 \in 1..Len(cells)
  BY ONLY <1>1, <1>2
<1>5. /\ cells' \in Seq(Value \cup {Garbage}) /\ Len(cells') = Len(cells)
      /\ \A k \in 1..Len(cells) : cells'[k] = IF k = initLen + 1 THEN v ELSE cells[k]
  BY ONLY <1>1, <1>2, <1>4, v \in Value
<1>6. cells[initLen + 1] = Garbage
  <2>1. \A k \in 1..Len(cells) : cells[k] \in Value <=> k <= initLen
    BY <1>1 DEF CellsInv, ByHand, Room
  <2>2. cells[initLen + 1] \notin Value /\ cells[initLen + 1] \in Value \cup {Garbage}
    BY ONLY <1>2, <1>4, <2>1
  <2> QED BY ONLY <2>2
<1>7. \A x : x \in Held <=> x \in Value /\ \E k \in 1..Len(cells) : cells[k] = x
  BY ONLY <1>2, HeldCells DEF Held
<1>8. \A x : x \in Held' <=> x \in Value /\ \E k \in 1..Len(cells) : cells'[k] = x
  BY ONLY <1>5, HeldCells DEF Held
<1>9. Held' = Held \cup {v}
  BY ONLY <1>4, <1>5, <1>6, <1>7, <1>8, TenantsAssumption, v \in Value
<1> QED BY <1>1, <1>3, <1>4, <1>5, <1>6, <1>9

\* The elements of s from a to b.
LEMMA PartOf ==
  ASSUME NEW S, NEW s \in Seq(S), NEW b \in 0..Len(s), NEW a \in 1..(b + 1)
  PROVE  /\ SubSeq(s, a, b) \in Seq(S) /\ Len(SubSeq(s, a, b)) = b - a + 1
         /\ \A i \in 1..(b - a + 1) : SubSeq(s, a, b)[i] = s[a + i - 1]
<1>1. a \in Nat /\ b \in Nat /\ \A i \in a..b : s[i] \in S
  OBVIOUS
<1>2. /\ SubSeq(s, a, b) \in Seq(S)
      /\ Len(SubSeq(s, a, b)) = IF a <= b THEN b - a + 1 ELSE 0
      /\ \A i \in 1..(b - a + 1) : SubSeq(s, a, b)[i] = s[a + i - 1]
  BY ONLY <1>1, SubSeqProperties, SMT
<1>3. (IF a <= b THEN b - a + 1 ELSE 0) = b - a + 1
  BY ONLY a \in 1..(b + 1), b \in 0..Len(s), <1>1
<1> QED BY ONLY <1>2, <1>3

\* t, the last elements of s up to the n-th, loses its first.
LEMMA RestOf ==
  ASSUME NEW S, NEW s \in Seq(S), NEW n \in 0..Len(s), NEW t \in Seq(S), t # <<>>, Len(t) <= n,
         t = SubSeq(s, n - Len(t) + 1, n)
  PROVE  LET k == n - Len(t) + 1 IN
         /\ k \in 1..n /\ t[1] = s[k]
         /\ Len(Tail(t)) = Len(t) - 1 /\ Len(Tail(t)) \in Nat
         /\ n - Len(Tail(t)) = k
         /\ Tail(t) = SubSeq(s, n - Len(Tail(t)) + 1, n)
<1> DEFINE k == n - Len(t) + 1
<1>1. Len(t) \in Nat \ {0} /\ k \in 1..n /\ k \in 1..(n + 1) /\ n \in Nat
  OBVIOUS
<1>2. Tail(t) \in Seq(S) /\ Len(Tail(t)) = Len(t) - 1 /\ \A i \in 1..(Len(t) - 1) : Tail(t)[i] = t[i + 1]
  BY HeadAndTail
<1> HIDE DEF k
<1>3. t = SubSeq(s, k, n) /\ Len(t) = n - k + 1
  BY <1>1 DEF k
<1>4. \A i \in 1..(n - k + 1) : t[i] = s[k + i - 1]
  BY ONLY <1>1, <1>3, PartOf, s \in Seq(S), n \in 0..Len(s)
<1>5. t[1] = s[k]
  BY ONLY <1>1, <1>4
<1>6. k + 1 \in 1..(n + 1)
  BY <1>1
<1>7. /\ SubSeq(s, k + 1, n) \in Seq(S) /\ Len(SubSeq(s, k + 1, n)) = n - (k + 1) + 1
      /\ \A i \in 1..(n - (k + 1) + 1) : SubSeq(s, k + 1, n)[i] = s[k + 1 + i - 1]
  BY ONLY <1>6, PartOf, s \in Seq(S), n \in 0..Len(s)
<1>8. \A i \in 1..(n - k) : Tail(t)[i] = SubSeq(s, k + 1, n)[i]
  BY ONLY <1>1, <1>2, <1>3, <1>4, <1>7
<1>9. Len(SubSeq(s, k + 1, n)) = n - k /\ Len(Tail(t)) = n - k
  BY ONLY <1>1, <1>2, <1>3, <1>7
<1>10. Tail(t) = SubSeq(s, k + 1, n)
  BY ONLY <1>2, <1>7, <1>8, <1>9, SameSequence
<1>11. n - Len(Tail(t)) = k /\ Len(Tail(t)) \in Nat
  BY ONLY <1>1, <1>9
<1> QED BY <1>1, <1>2, <1>5, <1>10, <1>11 DEF k

\* What an array's drop function drops next.
LEMMA DropHeadPlace ==
  ASSUME TypeOK, ControlInv, TableInv, CellsInv, FixedInv, DropHead
  PROVE  /\ ~unwinding /\ Len(todo') = Len(todo) - 1 /\ Len(todo') \in Nat /\ todo \in Seq(Value \cup {Garbage})
         /\ drops \in [Value -> Nat] /\ drops' \in [Value -> Nat]
         /\ \/ /\ running = "table" /\ Len(todo) <= arrLen
               /\ LET k == arrLen - Len(todo) + 1 IN
                    /\ k \in 1..arrLen /\ todo[1] = ptrs[k] /\ arrLen - Len(todo') = k
                    /\ todo' = SubSeq(ptrs, arrLen - Len(todo') + 1, arrLen)
            \/ /\ running = "fixed" /\ Len(todo) <= Count /\ Count <= Len(cells)
               /\ LET k == Count - Len(todo) + 1 IN
                    /\ k \in 1..Count /\ todo[1] = cells[k] /\ Count - Len(todo') = k
                    /\ todo' = SubSeq(cells, Count - Len(todo') + 1, Count)
<1>1. /\ todo \in Seq(Value \cup {Garbage}) /\ drops \in [Value -> Nat]
      /\ ptrs \in Seq(Value \cup {Garbage}) /\ arrLen \in 0..Len(ptrs)
      /\ cells \in Seq(Value \cup {Garbage}) /\ initLen \in 0..Len(cells)
      /\ running \in DropFn \cup {None} /\ unwinding \in BOOLEAN
  BY TypeParts, TenantParts
<1>2. todo # <<>> /\ todo' = Tail(todo) /\ running # None
  BY DEF DropHead, Inside
<1>3. Len(todo') = Len(todo) - 1 /\ Len(todo') \in Nat /\ drops' \in [Value -> Nat]
  <2>1. Len(todo') = Len(todo) - 1 /\ drops' \in [Value -> Nat]
    BY <1>1, DropHeadEffect
  <2>2. Len(todo) \in Nat \ {0}
    BY ONLY <1>1, <1>2
  <2> QED BY ONLY <2>1, <2>2
<1>4. ~unwinding /\ running \in {"table", "fixed"}
  BY <1>1, <1>2 DEF ControlInv, DropFn
<1>5. CASE running = "table"
  <2>1. Len(todo) <= arrLen /\ todo = SubSeq(ptrs, arrLen - Len(todo) + 1, arrLen)
    BY <1>4, <1>5 DEF TableInv
  <2>2. LET k == arrLen - Len(todo) + 1 IN
          /\ k \in 1..arrLen /\ todo[1] = ptrs[k] /\ arrLen - Len(todo') = k
          /\ todo' = SubSeq(ptrs, arrLen - Len(todo') + 1, arrLen)
    BY ONLY <1>1, <1>2, <2>1, RestOf
  <2> QED BY <1>1, <1>3, <1>4, <1>5, <2>1, <2>2
<1>6. CASE running = "fixed"
  <2>1. Len(todo) <= Count /\ todo = SubSeq(cells, Count - Len(todo) + 1, Count)
    BY <1>4, <1>6 DEF FixedInv
  <2>2. Count \in 0..Len(cells)
    BY <1>1 DEF Count, Room
  <2>3. LET k == Count - Len(todo) + 1 IN
          /\ k \in 1..Count /\ todo[1] = cells[k] /\ Count - Len(todo') = k
          /\ todo' = SubSeq(cells, Count - Len(todo') + 1, Count)
    BY ONLY <1>1, <1>2, <2>1, <2>2, RestOf
  <2>4. Count <= Len(cells)
    BY ONLY <1>1, <2>2
  <2> QED BY <1>1, <1>3, <1>4, <1>6, <2>1, <2>3, <2>4
<1> QED BY <1>4, <1>5, <1>6

\* What DropHead drops is an item of the array whose drop function runs.
LEMMA DropHeadItem ==
  ASSUME TypeOK, ControlInv, TableInv, CellsInv, FixedInv, DropHead, todo[1] \in Value
  PROVE  \/ running = "table" /\ todo[1] \in Range(ArrayItems)
         \/ running = "fixed" /\ todo[1] \in Held
<1>1. /\ ArrayItems \in Seq(Value) /\ Len(ArrayItems) = arrLen /\ \A i \in 1..arrLen : ArrayItems[i] = ptrs[i]
      /\ cells \in Seq(Value \cup {Garbage})
  BY ArraySide, TypeParts
<1>2. CASE running = "table"
  <2>1. \E k \in 1..arrLen : todo[1] = ptrs[k]
    BY <1>2, DropHeadPlace
  <2>2. \E k \in 1..Len(ArrayItems) : ArrayItems[k] = todo[1]
    BY ONLY <1>1, <2>1
  <2>3. todo[1] \in Range(ArrayItems)
    BY ONLY <1>1, <2>2, InRange
  <2> QED BY <1>2, <2>3
<1>3. CASE running = "fixed"
  <2>1. Count <= Len(cells) /\ \E k \in 1..Count : todo[1] = cells[k]
    BY <1>3, DropHeadPlace
  <2>2. Count \in Int
    BY TypeParts DEF Count, Room
  <2>3. \E k \in 1..Len(cells) : cells[k] = todo[1]
    BY ONLY <1>1, <2>1, <2>2
  <2>4. todo[1] \in Held
    BY ONLY <1>1, <2>3, HeldCells, todo[1] \in Value DEF Held
  <2> QED BY <1>3, <2>4
<1> QED BY <1>2, <1>3, DropHeadPlace

\* A push adds one element.
LEMMA RangeAppended ==
  ASSUME NEW S, NEW s \in Seq(S), NEW v \in S
  PROVE  Range(Append(s, v)) = Range(s) \cup {v}
<1> DEFINE t == Append(s, v)
<1>1. /\ t \in Seq(S) /\ Len(t) = Len(s) + 1 /\ Len(s) \in Nat
      /\ \A i \in 1..Len(s) : t[i] = s[i]
      /\ t[Len(s) + 1] = v
  OBVIOUS
<1> HIDE DEF t
<1>2. \A x : x \in Range(s) <=> \E i \in 1..Len(s) : s[i] = x
  BY InRange
<1>3. \A x : x \in Range(t) <=> \E i \in 1..(Len(s) + 1) : t[i] = x
  BY ONLY <1>1, InRange
<1>4. Range(t) = Range(s) \cup {v}
  BY ONLY <1>1, <1>2, <1>3
<1> QED BY <1>4 DEF t

\* A call takes one value into one group.
LEMMA MoveOne ==
  ASSUME NEW o, NEW n, NEW l, NEW a, NEW f, NEW s, NEW d, NEW living, NEW v \in o,
         PlaceOK(o, n, l, a, f, s, d, living)
  PROVE  /\ PlaceOK(o \ {v}, n \cup {v}, l, a, f, s, d, living)
         /\ PlaceOK(o \ {v}, n, l \cup {v}, a, f, s, d, living)
         /\ PlaceOK(o \ {v}, n, l, a \cup {v}, f, s, d, living)
<1>1. /\ n \cup {} = n /\ l \cup {} = l /\ a \cup {} = a /\ f \cup {} = f /\ s \cup {} = s
      /\ {v} \subseteq o
  OBVIOUS
<1>2. /\ Disjoint({}, {v}, {}, {}, {}, {}) /\ {v} \cup {} \cup {} \cup {} \cup {} = {v}
      /\ Disjoint({}, {}, {v}, {}, {}, {}) /\ {} \cup {v} \cup {} \cup {} \cup {} = {v}
      /\ Disjoint({}, {}, {}, {v}, {}, {}) /\ {} \cup {} \cup {v} \cup {} \cup {} = {v}
  BY DEF Disjoint
<1>3. PlaceOK(o \ {v}, n \cup {v}, l \cup {}, a \cup {}, f \cup {}, s \cup {}, d, living)
  BY ONLY <1>1, <1>2, PlaceOK(o, n, l, a, f, s, d, living), MoveTaken, Zenon
<1>4. PlaceOK(o \ {v}, n \cup {}, l \cup {v}, a \cup {}, f \cup {}, s \cup {}, d, living)
  BY ONLY <1>1, <1>2, PlaceOK(o, n, l, a, f, s, d, living), MoveTaken, Zenon
<1>5. PlaceOK(o \ {v}, n \cup {}, l \cup {}, a \cup {v}, f \cup {}, s \cup {}, d, living)
  BY ONLY <1>1, <1>2, PlaceOK(o, n, l, a, f, s, d, living), MoveTaken, Zenon
<1> QED BY ONLY <1>1, <1>3, <1>4, <1>5

\* It takes several into a region, or past its end.
LEMMA MoveSome ==
  ASSUME NEW o, NEW n, NEW l, NEW a, NEW f, NEW s, NEW d, NEW living, NEW vs \in SUBSET o,
         PlaceOK(o, n, l, a, f, s, d, living), NEW f1, NEW s1, f1 \cap s1 = {}, f1 \cup s1 = vs
  PROVE  PlaceOK(o \ vs, n, l, a, f \cup f1, s \cup s1, d, living)
<1>1. n \cup {} = n /\ l \cup {} = l /\ a \cup {} = a
  OBVIOUS
<1>2. Disjoint({}, {}, {}, {}, f1, s1) /\ {} \cup {} \cup {} \cup f1 \cup s1 = vs
  BY DEF Disjoint
<1>3. PlaceOK(o \ vs, n \cup {}, l \cup {}, a \cup {}, f \cup f1, s \cup s1, d, living)
  BY ONLY <1>2, vs \in SUBSET o, PlaceOK(o, n, l, a, f, s, d, living), MoveTaken, Zenon
<1> QED BY ONLY <1>1, <1>3

\* The values a failed call dropped have no place any more.
LEMMA PlaceRefused ==
  ASSUME TypeOK, SegmentsInv, TableInv, PlaceInv, NEW vs, DropsAll(vs), nodes' = nodes,
         ListItems' = ListItems, ArrayItems' = ArrayItems, Held' = Held, spilled' = spilled, phase' = phase
  PROVE  PlaceInv'
<1>1. /\ outside \subseteq Value /\ Range(nodes) \subseteq Value /\ Range(ListItems) \subseteq Value
      /\ spilled \subseteq Value /\ drops \in [Value -> Nat]
  BY PlacesTyped
<1>2. /\ vs \subseteq outside /\ outside' = outside \ vs
      /\ \A v \in Value : drops'[v] = IF v \in vs THEN drops[v] + 1 ELSE drops[v]
  BY <1>1, DropsAllEffect
<1>3. PlaceOK(outside, Range(nodes), Range(ListItems), Range(ArrayItems), Held, spilled, drops, phase = "alive")
  BY PlaceAs
<1>4. PlaceOK(outside \ vs, Range(nodes), Range(ListItems), Range(ArrayItems), Held, spilled, drops', phase = "alive")
  BY ONLY <1>1, <1>2, <1>3, MoveRefused
<1> QED BY ONLY <1>2, <1>4, PlaceAs, nodes' = nodes, ListItems' = ListItems,
           ArrayItems' = ArrayItems,
     Held' = Held, spilled' = spilled, phase' = phase

\* Only values in the hands of drop functions are dropped.
LEMMA PlaceStays ==
  ASSUME TypeOK, PlaceInv, outside' = outside, nodes' = nodes,
         ListItems' = ListItems, ArrayItems' = ArrayItems, Held' = Held, spilled' = spilled,
         \A v \in Value :
           v \notin Range(nodes) \cup Range(ListItems) \cup Range(ArrayItems) \cup Held => drops'[v] = drops[v],
         \A v \in Range(nodes) \cup Range(ListItems) : drops'[v] \in {0, 1},
         phase' = "alive" => phase = "alive" /\ \A v \in Range(nodes) \cup Range(ListItems) : drops'[v] = drops[v]
  PROVE  PlaceInv'
<1>1. outside \subseteq Value /\ spilled \subseteq Value
  BY TypeParts
<1>2. PlaceOK(outside, Range(nodes), Range(ListItems), Range(ArrayItems), Held, spilled, drops, phase = "alive")
  BY PlaceAs
<1> DEFINE n == Range(nodes)
           l == Range(ListItems)
           a == Range(ArrayItems)
           f == Held
<1>3. /\ \A v \in Value : v \notin n \cup l \cup a \cup f => drops'[v] = drops[v]
      /\ \A v \in n \cup l : drops'[v] \in {0, 1}
      /\ phase' = "alive" => phase = "alive" /\ \A v \in n \cup l : drops'[v] = drops[v]
      /\ PlaceOK(outside, n, l, a, f, spilled, drops, phase = "alive")
  BY <1>2
<1> HIDE DEF n, l, a, f
<1>4. PlaceOK(outside, n, l, a, f, spilled, drops', phase' = "alive")
  BY ONLY <1>1, <1>3 DEF PlaceOK, Disjoint
<1>5. PlaceOK(outside, Range(nodes), Range(ListItems), Range(ArrayItems), Held, spilled, drops', phase' = "alive")
  BY <1>4 DEF n, l, a, f
<1> QED BY ONLY <1>5, PlaceAs, nodes' = nodes, ListItems' = ListItems, ArrayItems' = ArrayItems,
     Held' = Held, spilled' = spilled, outside' = outside

\* Nothing is dropped either.
LEMMA PlaceSame ==
  ASSUME TypeOK, PlaceInv, outside' = outside, nodes' = nodes, drops' = drops,
         ListItems' = ListItems, ArrayItems' = ArrayItems, Held' = Held, spilled' = spilled,
         phase' = "alive" => phase = "alive"
  PROVE  PlaceInv'
<1>1. \A v \in Range(nodes) \cup Range(ListItems) : drops'[v] \in {0, 1}
  BY DEF PlaceInv
<1> QED BY <1>1, PlaceStays

\* N::new and outlives put their value in one place.
LEMMA PlaceN ==
  ASSUME TypeOK, SegmentsInv, TableInv, PlaceInv, NStep
  PROVE  PlaceInv'
<1>1. ListItems' = ListItems /\ ArrayItems' = ArrayItems /\ Held' = Held /\ spilled' = spilled
  BY ListUntouched, ArrayUntouched, FixedUntouched DEF NStep, OnlyN
<1>2. nodes \in Seq(Value)
  BY TypeParts
<1>3. ASSUME NEW v \in Value, NNew(v) \/ \E p \in Value : NOutlives(p, v) PROVE PlaceInv'
  <2>1. /\ v \in outside /\ outside' = outside \ {v} /\ drops' = drops /\ phase' = phase
        /\ nodes' = Append(nodes, v)
    BY <1>3 DEF NNew, NOutlives, Takes, arenaVars
  <2>2. Range(nodes') = Range(nodes) \cup {v}
    BY <1>2, <2>1, RangeAppended
  <2>3. PlaceOK(outside, Range(nodes), Range(ListItems), Range(ArrayItems), Held, spilled, drops, phase = "alive")
    BY PlaceAs
  <2>4. PlaceOK(outside \ {v}, Range(nodes) \cup {v}, Range(ListItems), Range(ArrayItems), Held, spilled, drops, phase = "alive")
    BY <2>1, <2>3, MoveOne
  <2> QED BY ONLY <1>1, <2>1, <2>2, <2>4, PlaceAs
<1>4. ASSUME NEW v \in Value, NRefused(v) PROVE PlaceInv'
  <2>1. DropsAll({v}) /\ phase' = phase /\ nodes' = nodes
    BY <1>4 DEF NRefused, Refuses, arenaVars, nVars
  <2> QED BY <1>1, <2>1, PlaceRefused
<1> QED BY <1>3, <1>4 DEF NStep

\* So does List::push.
LEMMA PlaceList ==
  ASSUME TypeOK, SegmentsInv, TableInv, PlaceInv, ListStep
  PROVE  PlaceInv'
<1>1. nodes' = nodes /\ ArrayItems' = ArrayItems /\ Held' = Held /\ spilled' = spilled
  BY ArrayUntouched, FixedUntouched DEF ListStep, OnlyList, nVars
<1>2. ListItems \in Seq(Value)
  BY ListSide
<1>3. ASSUME NEW v \in Value, ListPush(v) PROVE PlaceInv'
  <2>1. v \in outside /\ outside' = outside \ {v} /\ drops' = drops /\ phase' = phase
    BY <1>3 DEF ListPush, Takes
  <2>2. Range(ListItems') = Range(ListItems) \cup {v}
    <3>1. ListItems' = Append(ListItems, v)
      BY <1>3, ListPushEffect
    <3> QED BY ONLY <1>2, <3>1, v \in Value, RangeAppended
  <2>3. PlaceOK(outside, Range(nodes), Range(ListItems), Range(ArrayItems), Held, spilled, drops, phase = "alive")
    BY PlaceAs
  <2>4. PlaceOK(outside \ {v}, Range(nodes), Range(ListItems) \cup {v}, Range(ArrayItems), Held, spilled, drops, phase = "alive")
    BY <2>1, <2>3, MoveOne
  <2> QED BY ONLY <1>1, <2>1, <2>2, <2>4, PlaceAs
<1>4. ASSUME NEW v \in Value, ListPushTooBig(v) PROVE PlaceInv'
  <2>1. DropsAll({v}) /\ phase' = phase
    BY <1>4 DEF ListPushTooBig, Refuses, arenaVars
  <2>2. ListItems' = ListItems
    BY <1>4, ListPushTooBigEffect
  <2> QED BY <1>1, <2>1, <2>2, PlaceRefused
<1>5. ASSUME NEW v \in Value, ListPushDead(v) PROVE PlaceInv'
  <2>1. DropsAll({v}) /\ phase' = phase
    BY <1>5 DEF ListPushDead, Refuses, arenaVars
  <2>2. ListItems' = ListItems
    BY <1>5, ListUntouched DEF ListPushDead
  <2> QED BY <1>1, <2>1, <2>2, PlaceRefused
<1>6. ASSUME NEW fits \in BOOLEAN, ListNew(fits) PROVE PlaceInv'
  <2>1. outside' = outside /\ drops' = drops /\ phase' = phase
    BY <1>6 DEF ListNew, tenantVars, arenaVars
  <2>2. ListItems' = ListItems
    BY <1>6, ListNewEffect
  <2> QED BY <1>1, <2>1, <2>2, PlaceSame
<1> QED BY <1>3, <1>4, <1>5, <1>6 DEF ListStep

\* So do Array::push and pop.
LEMMA PlaceArray ==
  ASSUME TypeOK, SegmentsInv, TableInv, PlaceInv, ArrayStep
  PROVE  PlaceInv'
<1>1. nodes' = nodes /\ ListItems' = ListItems /\ Held' = Held /\ spilled' = spilled
  BY ListUntouched, FixedUntouched DEF ArrayStep, OnlyArray, nVars
<1>2. /\ ArrayItems \in Seq(Value) /\ Len(ArrayItems) = arrLen /\ IsInjective(ArrayItems)
      /\ \A i \in 1..arrLen : ArrayItems[i] = ptrs[i]
      /\ PlaceOK(outside, Range(nodes), Range(ListItems), Range(ArrayItems), Held, spilled, drops, phase = "alive")
  BY ArraySide, PlaceAs
<1>3. ASSUME NEW v \in Value, ArrayPush(v) PROVE PlaceInv'
  <2>1. v \in outside /\ outside' = outside \ {v} /\ drops' = drops /\ phase' = phase
    BY <1>3 DEF ArrayPush, Takes, arenaVars
  <2>2. Range(ArrayItems') = Range(ArrayItems) \cup {v}
    <3>1. ArrayItems' = Append(ArrayItems, v)
      BY <1>3, ArrayPushEffect
    <3> QED BY ONLY <1>2, <3>1, RangeAppended, v \in Value
  <2>3. PlaceOK(outside \ {v}, Range(nodes), Range(ListItems), Range(ArrayItems) \cup {v}, Held, spilled, drops, phase = "alive")
    BY <1>2, <2>1, MoveOne
  <2> QED BY ONLY <1>1, <2>1, <2>2, <2>3, PlaceAs
<1>4. ASSUME ArrayPop PROVE PlaceInv'
  <2> DEFINE x == ptrs[arrLen]
  <2>1. /\ outside' = outside \cup {x} /\ drops' = drops /\ phase' = phase /\ phase = "alive"
        /\ arrStage = "open"
    BY <1>4 DEF ArrayPop, arenaVars, IsAlive
  <2>2. /\ ArrayItems' = Front(ArrayItems) /\ ArrayItems # <<>> /\ Last(ArrayItems) = x
        /\ arrLen \in Nat \ {0}
    BY <1>4, ArrayPopEffect
  <2>3. Range(ArrayItems') = Range(ArrayItems) \ {x} /\ x \in Range(ArrayItems)
    BY ONLY <1>2, <2>2, FrontOfInjective
  <2>4. drops[x] = 0
    BY <2>1, <2>2 DEF TableInv
  <2> HIDE DEF x
  <2>5. PlaceOK(outside \cup {x}, Range(nodes), Range(ListItems), Range(ArrayItems) \ {x}, Held, spilled, drops, phase = "alive")
    BY ONLY <1>2, <2>3, <2>4, MoveBack
  <2> QED BY ONLY <1>1, <2>1, <2>3, <2>5, PlaceAs
<1>5. ASSUME NEW v \in Value, ArrayPushFails(v) PROVE PlaceInv'
  <2>1. DropsAll({v}) /\ phase' = phase
    BY <1>5 DEF ArrayPushFails, Refuses, arenaVars
  <2> QED BY <1>1, <1>5, <2>1, ArrayPushFailsEffect, PlaceRefused
<1>6. ASSUME NEW v \in Value, ArrayPushDead(v) PROVE PlaceInv'
  <2>1. DropsAll({v}) /\ phase' = phase
    BY <1>6 DEF ArrayPushDead, Refuses, Panics, arenaVars
  <2>2. ArrayItems' = ArrayItems
    BY <1>6, ArrayUntouched DEF ArrayPushDead
  <2> QED BY <1>1, <2>1, <2>2, PlaceRefused
<1>7. ASSUME NEW cap \in AskedCaps, NEW fits \in BOOLEAN, ArrayNew(cap, fits) PROVE PlaceInv'
  <2>1. outside' = outside /\ drops' = drops /\ phase' = phase
    BY <1>7 DEF ArrayNew
  <2> QED BY <1>1, <1>7, <2>1, ArrayNewEffect, PlaceSame
<1>8. ASSUME StartTable PROVE PlaceInv'
  <2>1. outside' = outside /\ drops' = drops /\ phase' = phase
    BY <1>8 DEF StartTable, Enter
  <2>2. ArrayItems' = ArrayItems
    BY <1>8, ArrayUntouched DEF StartTable
  <2> QED BY <1>1, <2>1, <2>2, PlaceSame
<1> QED BY <1>3, <1>4, <1>5, <1>6, <1>7, <1>8 DEF ArrayStep

\* So do the calls that fill a region.
LEMMA PlaceFixed ==
  ASSUME TypeOK, SegmentsInv, TableInv, PlaceInv, CellsInv, FixedStep
  PROVE  PlaceInv'
<1>1. nodes' = nodes /\ ListItems' = ListItems /\ ArrayItems' = ArrayItems
  BY ListUntouched, ArrayUntouched DEF FixedStep, OnlyFixed, nVars
<1>2. /\ PlaceOK(outside, Range(nodes), Range(ListItems), Range(ArrayItems), Held, spilled, drops, phase = "alive")
      /\ outside \subseteq Value /\ Range(nodes) \subseteq Value /\ Range(ListItems) \subseteq Value
      /\ spilled \subseteq Value /\ drops \in [Value -> Nat]
  BY PlaceAs, PlacesTyped
<1>3. ASSUME FixedDone \/ WriteNull \/ StartFixed \/ EndFixed PROVE PlaceInv'
  <2>1. /\ outside' = outside /\ drops' = drops /\ phase' = phase
        /\ cells' = cells /\ spilled' = spilled
    BY <1>3 DEF FixedDone, WriteNull, StartFixed, EndFixed, EndEntry, Enter, tenantVars, arenaVars,
       fixVars
  <2>2. Held' = Held
    BY <2>1 DEF Held
  <2> QED BY <1>1, <2>1, <2>2, PlaceSame
<1>4. ASSUME NEW cap \in Regions, FixedReserve(cap) PROVE PlaceInv'
  <2>1. outside' = outside /\ drops' = drops /\ phase' = phase
    BY <1>4 DEF FixedReserve
  <2> QED BY <1>1, <1>4, <2>1, ReserveEffect, PlaceSame
<1>5. ASSUME NEW v \in Value, InitPush(v) PROVE PlaceInv'
  <2>1. /\ v \in outside /\ outside' = outside \ {v} /\ spilled' = spilled /\ Held' = Held \cup {v}
        /\ \A u \in Value : drops'[u] = IF u = v THEN drops[u] + 1 ELSE drops[u]
    BY <1>5, InitPushEffect
  <2>2. phase' = phase
    BY <1>5 DEF InitPush, Refuses, arenaVars
  <2>3. PlaceOK(outside \ {v}, Range(nodes), Range(ListItems), Range(ArrayItems), Held \cup {v}, spilled, drops', phase = "alive")
    BY ONLY <1>2, <2>1, MoveCopied
  <2> QED BY ONLY <1>1, <2>1, <2>2, <2>3, PlaceAs
<1>6. ASSUME NEW v \in Value, InitPushIgnored(v) PROVE PlaceInv'
  <2>1. DropsAll({v}) /\ phase' = phase /\ Held' = Held /\ spilled' = spilled
    BY <1>6, FixedUntouched DEF InitPushIgnored, Refuses, arenaVars
  <2> QED BY <1>1, <2>1, PlaceRefused
<1>7. ASSUME NEW vs \in Batches, FillByC(vs) PROVE PlaceInv'
  <2>1. /\ Range(vs) \subseteq outside /\ outside' = outside \ Range(vs) /\ drops' = drops
        /\ Held = {} /\ spilled' = spilled /\ Held' = Range(vs)
    BY <1>7, FillEffect
  <2>2. phase' = phase
    BY <1>7 DEF FillByC, arenaVars
  <2> DEFINE ys == Range(vs)
  <2>3. ys \cap {} = {} /\ ys \cup {} = ys /\ spilled \cup {} = spilled /\ ys \in SUBSET outside /\ Held' = Held \cup ys
    BY <2>1
  <2> HIDE DEF ys
  <2>4. PlaceOK(outside \ ys, Range(nodes), Range(ListItems), Range(ArrayItems), Held \cup ys, spilled \cup {}, drops, phase = "alive")
    BY ONLY <1>2, <2>3, MoveSome, Zenon
  <2>5. outside' = outside \ ys
    BY <2>1 DEF ys
  <2> QED BY ONLY <1>1, <2>1, <2>2, <2>3, <2>4, <2>5, PlaceAs
<1>8. ASSUME NEW vs \in Batches, NEW src \in Sources, FixedNew(src, vs) PROVE PlaceInv'
  <2> DEFINE ys == Range(Yielded(src, vs))
  <2>1. /\ ys \subseteq outside /\ outside' = outside \ ys /\ drops' = drops
        /\ Held = {} /\ spilled = {} /\ Held' \cap spilled' = {} /\ Held' \cup spilled' = ys
    BY <1>8, FixedNewEffect
  <2>2. phase' = phase
    BY <1>8 DEF FixedNew
  <2> HIDE DEF ys
  <2>3. ys \in SUBSET outside /\ Held' = Held \cup Held' /\ spilled' = spilled \cup spilled'
    BY ONLY <2>1
  <2>4. PlaceOK(outside \ ys, Range(nodes), Range(ListItems), Range(ArrayItems), Held \cup Held', spilled \cup spilled', drops, phase = "alive")
    BY ONLY <1>2, <2>1, <2>3, MoveSome, Zenon
  <2> QED BY ONLY <1>1, <2>1, <2>2, <2>3, <2>4, PlaceAs
<1>9. ASSUME NEW vs \in Batches, NEW src \in Sources, FixedNewTooBig(src, vs) PROVE PlaceInv'
  <2>1. /\ DropsAll(Range(vs)) \/ UNCHANGED <<drops, outside>>
        /\ cells' = cells /\ spilled' = spilled /\ phase' = phase
    BY <1>9 DEF FixedNewTooBig
  <2>2. Held' = Held
    BY <2>1 DEF Held
  <2>3. ASSUME DropsAll(Range(vs)) PROVE PlaceInv'
    BY <1>1, <2>1, <2>2, <2>3, PlaceRefused
  <2>4. ASSUME UNCHANGED <<drops, outside>> PROVE PlaceInv'
    BY <1>1, <2>1, <2>2, <2>4, PlaceSame
  <2> QED BY <2>1, <2>3, <2>4
<1> QED BY <1>3, <1>4, <1>5, <1>6, <1>7, <1>8, <1>9, Zenon DEF FixedStep

\* The arena's end drops values where they are.
LEMMA PlaceArena ==
  ASSUME TypeOK, ControlInv, SegmentsInv, WalksInv, TableInv, PlaceInv, CellsInv, FixedInv,
         ArenaStep \/ TextStep \/ UNCHANGED vars
  PROVE  PlaceInv'
<1>1. nodes' = nodes /\ ListItems' = ListItems /\ ArrayItems' = ArrayItems /\ Held' = Held /\ spilled' = spilled
  <2>1. nVars' = nVars /\ listVars' = listVars /\ arrVars' = arrVars /\ fixVars' = fixVars
    BY DEF ArenaStep, OnlyArena, TextStep, OnlyText, vars
  <2> QED BY <2>1, ListUntouched, ArrayUntouched, FixedUntouched DEF nVars
<1>2. /\ PlaceOK(outside, Range(nodes), Range(ListItems), Range(ArrayItems), Held, spilled, drops, phase = "alive")
      /\ outside \subseteq Value /\ Range(nodes) \subseteq Value /\ Range(ListItems) \subseteq Value
      /\ spilled \subseteq Value /\ drops \in [Value -> Nat]
      /\ walks \in Seq([of : Value, next : Nat \ {0}])
  BY PlaceAs, PlacesTyped, TypeParts, TenantParts
<1>3. ASSUME outside' = outside, drops' = drops, phase' = "alive" => phase = "alive" PROVE PlaceInv'
  BY <1>1, <1>3, PlaceSame
<1>4. ASSUME DropArena \/ StartValue \/ OpenNext \/ DropReturn \/ DropPanic \/ EndEntry("value") \/ EndEntry("table")
             \/ EndUnwind \/ FinishChain \/ UNCHANGED vars \/ TextStep
      PROVE  PlaceInv'
  <2>1. outside' = outside /\ drops' = drops /\ (phase' = "alive" => phase = "alive")
    BY <1>4 DEF DropArena, StartValue, OpenNext, DropReturn, DropPanic, Panics, EndEntry,
       EndUnwind, FinishChain,
         Enter, vars, tenantVars, arenaVars, TextStep, UStrNew
  <2> QED BY <1>3, <2>1
<1>5. ASSUME DropOwn PROVE PlaceInv'
  <2> DEFINE x == walks[Len(walks)].of
  <2>1. /\ Len(walks) \in Nat \ {0} /\ x \in Value
        /\ \A v \in Value : drops'[v] = IF v = x THEN drops[v] + 1 ELSE drops[v]
        /\ outside' = outside /\ phase = "dying" /\ phase' = phase
    BY <1>2, <1>5, DropOwnEffect
  <2>2. drops[x] = 0 /\ x \in Range(nodes) \cup Range(ListItems)
    BY <2>1 DEF WalksInv
  <2> HIDE DEF x
  <2>3. \A v \in Range(nodes) \cup Range(ListItems) : drops[v] \in {0, 1}
    BY DEF PlaceInv
  <2>4. \A v \in Range(nodes) \cup Range(ListItems) : drops'[v] \in {0, 1}
    BY <1>2, <2>1, <2>2, <2>3
  <2>5. \A v \in Value : v \notin Range(nodes) \cup Range(ListItems) \cup Range(ArrayItems) \cup Held => drops'[v] = drops[v]
    BY <2>1, <2>2
  <2> QED BY <1>1, <2>1, <2>4, <2>5, PlaceStays
<1>6. ASSUME DropHead PROVE PlaceInv'
  <2>1. /\ outside' = outside /\ phase = "dying" /\ phase' = phase
        /\ drops' = drops \/ (todo[1] \in Value /\ \A v \in Value : drops'[v] = IF v = todo[1] THEN drops[v] + 1 ELSE drops[v])
    <3>1. todo \in Seq(Value \cup {Garbage})
      BY TypeParts, TenantParts
    <3> QED BY <1>2, <1>6, <3>1, DropHeadEffect
  <2>2. todo[1] \in Value => todo[1] \in Range(ArrayItems) \cup Held
    BY <1>6, DropHeadItem
  <2>3. Disjoint(outside, Range(nodes), Range(ListItems), Range(ArrayItems), Held, spilled)
        /\ \A v \in Range(nodes) \cup Range(ListItems) : drops[v] \in {0, 1}
    BY DEF PlaceInv, Apart
  <2>4. \A v \in Range(nodes) \cup Range(ListItems) : drops'[v] = drops[v]
    BY <1>2, <2>1, <2>2, <2>3 DEF Disjoint
  <2>5. \A v \in Value : v \notin Range(nodes) \cup Range(ListItems) \cup Range(ArrayItems) \cup Held => drops'[v] = drops[v]
    BY ONLY <2>1, <2>2
  <2>6. \A v \in Range(nodes) \cup Range(ListItems) : drops'[v] \in {0, 1}
    BY ONLY <2>3, <2>4
  <2>7. phase' = "alive" => phase = "alive" /\ \A v \in Range(nodes) \cup Range(ListItems) : drops'[v] = drops[v]
    BY ONLY <2>1
  <2> QED BY <1>1, <2>1, <2>5, <2>6, <2>7, PlaceStays
<1> QED BY <1>4, <1>5, <1>6 DEF ArenaStep

\* Every step keeps each value in one place.
LEMMA PlaceKept ==
  ASSUME TypeOK, ControlInv, SegmentsInv, WalksInv, TableInv, PlaceInv, CellsInv, FixedInv, [Next]_vars
  PROVE  PlaceInv'
BY StepKinds, PlaceN, PlaceList, PlaceArray, PlaceFixed, PlaceArena

-----------------------------------------------------------------------------
(* Nodes and list items that a step leaves alone                           *)

\* A step that neither touches a node or a list item nor registers or starts one.
ValuesKept ==
  /\ nodes' = nodes /\ owned' = owned /\ ListItems' = ListItems /\ walks' = walks
  /\ unwinding => unwinding'
  /\ \A v \in Range(nodes) \cup Range(ListItems) : drops'[v] = drops[v]
  /\ \/ registered' = registered
     \/ \E fn \in {"table", "fixed"} :
          /\ registered' = Append(registered, Entry(fn, None))
          /\ Entry(fn, None) \notin Range(registered)
     \/ /\ registered # <<>> /\ registered' = Tail(registered)
        /\ Head(registered).fn # "value"

\* The forest of nodes stays as it is.
LEMMA NodesStay ==
  ASSUME NodesInv, nodes' = nodes, owned' = owned
  PROVE  NodesInv'
<1>1. Hung' = Hung
  BY DEF Hung
<1> QED BY <1>1 DEF NodesInv

\* What hangs on a list was placed as a node, and so was what it hangs on.
LEMMA Hanging ==
  ASSUME TypeOK, NodesInv, NEW p \in Value, NEW i \in 1..Len(owned[p])
  PROVE  owned[p][i] \in Value /\ owned[p][i] \in Range(nodes) /\ p \in Range(nodes) /\ owned[p][i] \in Hung
<1>1. owned[p] \in Seq(Value) /\ owned[p] # <<>>
  BY TypeParts
<1>2. owned[p][i] \in Value /\ owned[p][i] \in Range(owned[p])
  BY ONLY <1>1, InRange, i \in 1..Len(owned[p])
<1>3. owned[p][i] \in Hung
  BY <1>2 DEF Hung
<1> QED BY <1>1, <1>2, <1>3 DEF NodesInv

\* A walk: of the list of one value, with the place of its next item.
Frame == [of : Value, next : Nat \ {0}]

\* The walks, one by one.
LEMMA FrameAt ==
  ASSUME TypeOK
  PROVE  /\ walks \in Seq(Frame) /\ Len(walks) \in Nat
         /\ \A k \in 1..Len(walks) : walks[k].of \in Value /\ walks[k].next \in Nat \ {0}
<1>1. walks \in Seq(Frame)
  BY TypeParts, TenantParts DEF Frame
<1>2. Len(walks) \in Nat /\ \A k \in 1..Len(walks) : walks[k] \in Frame
  BY ONLY <1>1
<1> QED BY <1>1, <1>2 DEF Frame

\* A step that leaves nodes and list items alone keeps the walks.
LEMMA WalksStay ==
  ASSUME TypeOK, NodesInv, WalksInv, ValuesKept
  PROVE  WalksInv'
<1>1. /\ nodes' = nodes /\ owned' = owned /\ ListItems' = ListItems /\ walks' = walks
      /\ \A v \in Range(nodes) \cup Range(ListItems) : drops'[v] = drops[v]
  BY DEF ValuesKept
<1>2. Walked' = Walked /\ Direct' = Direct
  BY <1>1 DEF Walked, Direct, Hung
<1>3. owned \in [Value -> Seq(Value)]
  BY TypeParts
<1>4. ASSUME NEW k \in 1..Len(walks)
      PROVE  /\ drops'[walks[k].of] = 0
             /\ walks[k].of \in Range(nodes) \cup Range(ListItems)
             /\ walks[k].next <= Len(owned[walks[k].of]) + 1
             /\ k = 1 => walks[k].of \in Direct
             /\ k > 1 => /\ walks[k - 1].next > 1
                         /\ walks[k].of = owned[walks[k - 1].of][walks[k - 1].next - 1]
             /\ walks[k].next > 1 =>
                  LET c == owned[walks[k].of][walks[k].next - 1] IN drops'[c] > 0 \/ c \in Walked
             /\ \A i \in walks[k].next..Len(owned[walks[k].of]) :
                  LET c == owned[walks[k].of][i] IN ~(drops'[c] > 0 \/ c \in Walked)
             /\ k = Len(walks) /\ walks[k].next > 1 => drops'[owned[walks[k].of][walks[k].next - 1]] > 0
  <2> DEFINE w == walks[k]
  <2>1. w.of \in Value /\ w.next \in Nat \ {0}
    BY FrameAt
  <2>2. /\ drops[w.of] = 0
        /\ w.of \in Range(nodes) \cup Range(ListItems)
        /\ w.next <= Len(owned[w.of]) + 1
        /\ k = 1 => w.of \in Direct
        /\ k > 1 => /\ walks[k - 1].next > 1
                    /\ w.of = owned[walks[k - 1].of][walks[k - 1].next - 1]
        /\ w.next > 1 =>
             LET c == owned[w.of][w.next - 1] IN drops[c] > 0 \/ c \in Walked
        /\ \A i \in w.next..Len(owned[w.of]) :
             LET c == owned[w.of][i] IN ~(drops[c] > 0 \/ c \in Walked)
        /\ k = Len(walks) /\ w.next > 1 => drops[owned[w.of][w.next - 1]] > 0
    BY DEF WalksInv, Touched
  <2>3. \A i \in 1..Len(owned[w.of]) : drops'[owned[w.of][i]] = drops[owned[w.of][i]]
    BY <1>1, <2>1, Hanging
  <2>4. w.next > 1 => w.next - 1 \in 1..Len(owned[w.of])
    BY <1>3, <2>1, <2>2
  <2>5. \A i \in w.next..Len(owned[w.of]) : i \in 1..Len(owned[w.of])
    BY <1>3, <2>1
  <2> HIDE DEF w
  <2>6. drops'[w.of] = 0
    BY <1>1, <2>2
  <2>7. w.next > 1 => drops'[owned[w.of][w.next - 1]] = drops[owned[w.of][w.next - 1]]
    BY ONLY <2>3, <2>4
  <2>8. \A i \in w.next..Len(owned[w.of]) : drops'[owned[w.of][i]] = drops[owned[w.of][i]]
    BY ONLY <2>3, <2>5
  <2>9. \A i \in w.next..Len(owned[w.of]) :
             LET c == owned[w.of][i] IN ~(drops'[c] > 0 \/ c \in Walked)
    BY ONLY <2>2, <2>8
  <2> QED BY <2>2, <2>6, <2>7, <2>9 DEF w
<1>5. \A j, k \in 1..Len(walks) : walks[j].of = walks[k].of => j = k
  BY DEF WalksInv
<1> QED BY ONLY <1>1, <1>2, <1>4, <1>5 DEF WalksInv, Touched

\* And the order of their drops.
LEMMA OrderStays ==
  ASSUME TypeOK, NodesInv, OrderInv, ValuesKept
  PROVE  OrderInv'
<1>1. /\ owned' = owned /\ walks' = walks /\ (unwinding => unwinding')
      /\ \A v \in Range(nodes) \cup Range(ListItems) : drops'[v] = drops[v]
  BY DEF ValuesKept
<1>2. Walked' = Walked
  BY <1>1 DEF Walked
<1> SUFFICES ASSUME NEW p \in Value
    PROVE  /\ \A i \in 1..Len(owned[p]) :
                drops'[owned[p][i]] > 0 \/ owned[p][i] \in Walked => drops'[p] > 0 \/ p \in Walked
           /\ drops'[p] > 0 /\ ~unwinding' => \A i \in 1..Len(owned[p]) : drops'[owned[p][i]] > 0
           /\ \A j \in 1..Len(owned[p]) : \A i \in 1..(j - 1) :
                drops'[owned[p][j]] > 0 \/ owned[p][j] \in Walked => drops'[owned[p][i]] > 0
  BY <1>1, <1>2 DEF OrderInv, Touched
<1>3. owned[p] \in Seq(Value) /\ Len(owned[p]) \in Nat
  BY TypeParts
<1>4. /\ \A i \in 1..Len(owned[p]) : drops'[owned[p][i]] = drops[owned[p][i]]
      /\ \A i \in 1..Len(owned[p]) : drops'[p] = drops[p]
  BY <1>1, Hanging
<1>5. \A j \in 1..Len(owned[p]) : \A i \in 1..(j - 1) : i \in 1..Len(owned[p])
  BY <1>3
<1>6. /\ \A i \in 1..Len(owned[p]) :
            drops[owned[p][i]] > 0 \/ owned[p][i] \in Walked => drops[p] > 0 \/ p \in Walked
      /\ drops[p] > 0 /\ ~unwinding => \A i \in 1..Len(owned[p]) : drops[owned[p][i]] > 0
      /\ \A j \in 1..Len(owned[p]) : \A i \in 1..(j - 1) :
            drops[owned[p][j]] > 0 \/ owned[p][j] \in Walked => drops[owned[p][i]] > 0
  BY DEF OrderInv, Touched
<1> QED BY ONLY <1>1, <1>4, <1>5, <1>6

\* What the chain is made of.
Entries == [fn : DropFn, of : Value \cup {None}]

\* What the chain holds is an ordered set.
LEMMA RegisteredRow ==
  ASSUME TypeOK
  PROVE  /\ registered \in Seq(Entries)
         /\ Len(registered) \in Nat
         /\ \A e : e \in Range(registered) <=> \E k \in 1..Len(registered) : registered[k] = e
<1>1. registered \in Seq(Entries)
  BY TypeParts, TenantParts DEF Entries
<1> QED BY ONLY <1>1, InRange

\* And what the chain holds for them.
LEMMA RegisteredStays ==
  ASSUME TypeOK, NodesInv, RegisteredInv, ValuesKept
  PROVE  RegisteredInv'
<1>1. /\ nodes' = nodes /\ owned' = owned /\ ListItems' = ListItems /\ walks' = walks
      /\ \A v \in Range(nodes) \cup Range(ListItems) : drops'[v] = drops[v]
  BY DEF ValuesKept
<1>2. Walked' = Walked /\ Direct' = Direct
  BY <1>1 DEF Walked, Direct, Hung
<1>3. \A v \in Direct : drops'[v] = drops[v]
  BY <1>1 DEF Direct
<1>4. /\ \A v \in Value : Entry("value", v) \in Range(registered) <=> v \in Direct /\ ~(drops[v] > 0 \/ v \in Walked)
      /\ IsInjective(registered)
      /\ \A e \in Range(registered) : IF e.fn = "value" THEN e.of \in Value ELSE e.of = None
  BY DEF RegisteredInv, Touched
<1>5. registered \in Seq(Entries)
  BY RegisteredRow
<1>6. /\ \A v \in Value : Entry("value", v) \in Range(registered') <=> Entry("value", v) \in Range(registered)
      /\ IsInjective(registered')
      /\ \A e \in Range(registered') : IF e.fn = "value" THEN e.of \in Value ELSE e.of = None
  <2>1. CASE registered' = registered
    BY <1>4, <2>1
  <2>2. ASSUME NEW fn \in {"table", "fixed"}, registered' = Append(registered, Entry(fn, None)),
               Entry(fn, None) \notin Range(registered)
        PROVE  <1>6!1 /\ <1>6!2 /\ <1>6!3
    <3>1. Entry(fn, None) \in Entries
      BY DEF Entry, DropFn, Entries
    <3>2. IsInjective(registered') /\ Range(registered') = Range(registered) \cup {Entry(fn, None)}
      BY ONLY <1>4, <1>5, <2>2, <3>1, AppendFresh
    <3>3. \A v \in Value : Entry("value", v) # Entry(fn, None)
      BY DEF Entry
    <3>4. Entry(fn, None).fn # "value" /\ Entry(fn, None).of = None
      BY DEF Entry
    <3> QED BY ONLY <1>4, <3>2, <3>3, <3>4
  <2>3. ASSUME registered # <<>>, registered' = Tail(registered), Head(registered).fn # "value"
        PROVE  <1>6!1 /\ <1>6!2 /\ <1>6!3
    <3>1. IsInjective(registered') /\ Range(registered') = Range(registered) \ {registered[1]}
      BY ONLY <1>4, <1>5, <2>3, TailOfInjective
    <3>2. Head(registered) = registered[1]
      BY <1>5, <2>3
    <3>3. \A v \in Value : Entry("value", v) # registered[1]
      BY ONLY <2>3, <3>2 DEF Entry
    <3> QED BY ONLY <1>4, <3>1, <3>3
  <2> QED BY <2>1, <2>2, <2>3 DEF ValuesKept
<1> QED BY ONLY <1>1, <1>2, <1>3, <1>4, <1>6 DEF RegisteredInv, Touched

\* The drop functions of s are registered in its order.
InOrder(r, s) ==
  \A a, b \in 1..Len(r) : \A j \in 1..Len(s) : \A i \in 1..(j - 1) :
    r[a] = Entry("value", s[i]) /\ r[b] = Entry("value", s[j]) => a < b

\* An entry of the chain is its function and its value.
LEMMA EntryIs == \A fn, gn, u, v : Entry(fn, u) = Entry(gn, v) <=> fn = gn /\ u = v
BY DEF Entry

\* An entry registered for something else keeps the order.
LEMMA OrderAppended ==
  ASSUME NEW r \in Seq(Entries), NEW s \in Seq(Value), InOrder(r, s), NEW e \in Entries,
         \A i \in 1..Len(s) : e # Entry("value", s[i])
  PROVE  InOrder(Append(r, e), s)
<1> DEFINE t == Append(r, e)
<1>1. Len(r) \in Nat /\ Len(t) = Len(r) + 1 /\ t[Len(r) + 1] = e /\ \A i \in 1..Len(r) : t[i] = r[i]
  OBVIOUS
<1> HIDE DEF t
<1>2. Len(s) \in Nat
  OBVIOUS
<1> SUFFICES ASSUME NEW a \in 1..Len(t), NEW b \in 1..Len(t), NEW j \in 1..Len(s), NEW i \in 1..(j - 1),
                    t[a] = Entry("value", s[i]), t[b] = Entry("value", s[j])
    PROVE a < b
  BY DEF InOrder, t
<1>3. i \in 1..Len(s)
  BY ONLY <1>2, j \in 1..Len(s), i \in 1..(j - 1)
<1>4. a \in 1..Len(r) /\ b \in 1..Len(r)
  BY <1>1, <1>3
<1> QED BY <1>1, <1>4 DEF InOrder

\* So does the chain when it takes up its first.
LEMMA OrderPopped ==
  ASSUME NEW r \in Seq(Entries), NEW s \in Seq(Value), InOrder(r, s), r # <<>>
  PROVE  InOrder(Tail(r), s)
<1> DEFINE t == Tail(r)
<1>1. Len(r) \in Nat /\ Len(t) = Len(r) - 1 /\ \A i \in 1..(Len(r) - 1) : t[i] = r[i + 1]
  BY HeadAndTail
<1> HIDE DEF t
<1> SUFFICES ASSUME NEW a \in 1..Len(t), NEW b \in 1..Len(t), NEW j \in 1..Len(s), NEW i \in 1..(j - 1),
                    t[a] = Entry("value", s[i]), t[b] = Entry("value", s[j])
    PROVE a < b
  BY DEF InOrder, t
<1>2. a + 1 \in 1..Len(r) /\ b + 1 \in 1..Len(r) /\ t[a] = r[a + 1] /\ t[b] = r[b + 1]
  BY <1>1
<1>3. a + 1 < b + 1
  BY <1>2 DEF InOrder
<1> QED BY <1>1, <1>3

\* List::push registers its item last.
LEMMA OrderPushed ==
  ASSUME NEW r \in Seq(Entries), NEW s \in Seq(Value), InOrder(r, s), NEW v \in Value,
         v \notin Range(s), Entry("value", v) \notin Range(r)
  PROVE  InOrder(Append(r, Entry("value", v)), Append(s, v))
<1> DEFINE e == Entry("value", v)
           t == Append(r, e)
           q == Append(s, v)
<1>1. e \in Entries
  BY DEF Entry, Entries, DropFn
<1>2. (\A i \in 1..Len(r) : r[i] # e) /\ (\A i \in 1..Len(s) : s[i] # v)
  BY InRange
<1> HIDE DEF e
<1>3. /\ Len(r) \in Nat /\ Len(t) = Len(r) + 1 /\ t[Len(r) + 1] = e /\ \A i \in 1..Len(r) : t[i] = r[i]
      /\ Len(s) \in Nat /\ Len(q) = Len(s) + 1 /\ q[Len(s) + 1] = v /\ \A i \in 1..Len(s) : q[i] = s[i]
  BY <1>1
<1> HIDE DEF t, q
<1> SUFFICES ASSUME NEW a \in 1..Len(t), NEW b \in 1..Len(t), NEW j \in 1..Len(q), NEW i \in 1..(j - 1),
                    t[a] = Entry("value", q[i]), t[b] = Entry("value", q[j])
    PROVE a < b
  BY DEF InOrder, t, q, e
<1>4. i \in 1..Len(s) /\ q[i] = s[i] /\ s[i] # v
  BY ONLY <1>2, <1>3, j \in 1..Len(q), i \in 1..(j - 1)
<1>5. a \in 1..Len(r) /\ t[a] = r[a]
  <2>1. Entry("value", q[i]) # e
    BY <1>4, EntryIs DEF e
  <2> QED BY <1>3, <2>1
<1>6. CASE j = Len(s) + 1
  <2>1. t[b] = e
    BY <1>3, <1>6 DEF e
  <2>2. b = Len(r) + 1
    BY <1>2, <1>3, <2>1
  <2> QED BY <1>3, <1>5, <2>2
<1>7. CASE j # Len(s) + 1
  <2>1. j \in 1..Len(s) /\ q[j] = s[j]
    BY <1>3, <1>7
  <2>2. s[j] # v
    BY <1>2, <2>1
  <2>3. Entry("value", q[j]) # e
    BY <2>1, <2>2, EntryIs DEF e
  <2>4. b \in 1..Len(r) /\ t[b] = r[b]
    BY <1>3, <2>3
  <2> QED BY <1>4, <1>5, <2>1, <2>4 DEF InOrder
<1> QED BY <1>6, <1>7

\* A step that leaves nodes and list items alone keeps the list's order.
LEMMA ListStays ==
  ASSUME TypeOK, SegmentsInv, ListInv, ValuesKept
  PROVE  ListInv'
<1>1. /\ ListItems' = ListItems /\ walks' = walks
      /\ \A v \in Range(ListItems) : drops'[v] = drops[v]
      /\ ListItems \in Seq(Value)
  BY ListSide DEF ValuesKept
<1>2. Walked' = Walked
  BY <1>1 DEF Walked
<1>3. Len(ListItems) \in Nat /\ \A i \in 1..Len(ListItems) : drops'[ListItems[i]] = drops[ListItems[i]]
  BY <1>1, InRange
<1>4. /\ IsInjective(ListItems)
      /\ \A j \in 1..Len(ListItems) : \A i \in 1..(j - 1) :
           drops[ListItems[j]] > 0 \/ ListItems[j] \in Walked => drops[ListItems[i]] > 0
      /\ InOrder(registered, ListItems)
  BY DEF ListInv, Touched, InOrder
<1>5. \A j \in 1..Len(ListItems) : \A i \in 1..(j - 1) :
           drops'[ListItems[j]] > 0 \/ ListItems[j] \in Walked => drops'[ListItems[i]] > 0
  <2>1. \A j \in 1..Len(ListItems) : \A i \in 1..(j - 1) : i \in 1..Len(ListItems)
    BY ONLY <1>3
  <2> QED BY ONLY <1>3, <1>4, <2>1
<1>6. InOrder(registered', ListItems)
  <2>1. registered \in Seq(Entries)
    BY RegisteredRow
  <2>2. ASSUME NEW fn \in {"table", "fixed"}, registered' = Append(registered, Entry(fn, None))
        PROVE  InOrder(registered', ListItems)
    <3>1. Entry(fn, None) \in Entries /\ \A i \in 1..Len(ListItems) : Entry(fn, None) # Entry("value", ListItems[i])
      BY EntryIs DEF Entry, Entries, DropFn
    <3> QED BY ONLY <1>1, <1>4, <2>1, <2>2, <3>1, OrderAppended
  <2>3. ASSUME registered # <<>>, registered' = Tail(registered)
        PROVE  InOrder(registered', ListItems)
    BY ONLY <1>1, <1>4, <2>1, <2>3, OrderPopped
  <2> QED BY <1>4, <2>2, <2>3 DEF ValuesKept
<1> QED BY ONLY <1>1, <1>2, <1>4, <1>5, <1>6 DEF ListInv, Touched, InOrder

\* A step that changes nothing of nodes, list items and chain leaves them
\* alone.
LEMMA KeptIf ==
  ASSUME TypeOK, SegmentsInv, TableInv, PlaceInv,
         nodes' = nodes, owned' = owned, ListItems' = ListItems, walks' = walks,
         unwinding => unwinding', registered' = registered,
         \A v \in Value : v \notin outside => drops'[v] = drops[v]
  PROVE  ValuesKept
<1>1. \A v \in Range(nodes) \cup Range(ListItems) : v \in Value /\ v \notin outside
  BY PlacesTyped DEF PlaceInv, Apart, Disjoint
<1> QED BY <1>1 DEF ValuesKept

\* So does one that registers an array's drop function.
LEMMA KeptIfRegistered ==
  ASSUME TypeOK, SegmentsInv, TableInv, PlaceInv,
         nodes' = nodes, owned' = owned, ListItems' = ListItems, walks' = walks,
         unwinding' = unwinding,
         NEW fn \in {"table", "fixed"}, Register(fn, None), Entry(fn, None) \notin Range(registered),
         \A v \in Value : v \notin outside => drops'[v] = drops[v]
  PROVE  ValuesKept
<1>1. \A v \in Range(nodes) \cup Range(ListItems) : v \in Value /\ v \notin outside
  BY PlacesTyped DEF PlaceInv, Apart, Disjoint
<1> QED BY <1>1 DEF ValuesKept, Register

\* So does one that enters it.
LEMMA KeptIfEntered ==
  ASSUME nodes' = nodes, owned' = owned, ListItems' = ListItems, walks = <<>>,
         NEW fn \in {"table", "fixed"}, NEW items, Enter(Entry(fn, None), items, <<>>)
  PROVE  ValuesKept
<1>1. /\ registered # <<>> /\ registered' = Tail(registered) /\ Head(registered) = Entry(fn, None)
      /\ walks' = <<>> /\ unwinding' = unwinding /\ drops' = drops
  BY Zenon DEF Enter
<1>2. Head(registered).fn # "value"
  BY <1>1 DEF Entry
<1> QED BY <1>1, <1>2 DEF ValuesKept

\* A failed call leaves what is in the arena alone.
LEMMA RefusalKeeps ==
  ASSUME TypeOK, NEW vs, DropsAll(vs)
  PROVE  \A v \in Value : v \notin outside => drops'[v] = drops[v]
<1>1. drops \in [Value -> Nat]
  BY TypeParts
<1>2. vs \subseteq outside /\ \A v \in Value : drops'[v] = IF v \in vs THEN drops[v] + 1 ELSE drops[v]
  BY <1>1, DropsAllEffect
<1> QED BY ONLY <1>2

\* So does every step of Array.
LEMMA ValuesKeptByArray ==
  ASSUME TypeOK, ControlInv, SegmentsInv, TableInv, PlaceInv, ArrayStep
  PROVE  ValuesKept
<1>1. nodes' = nodes /\ owned' = owned /\ ListItems' = ListItems
  BY ListUntouched DEF ArrayStep, OnlyArray, nVars
<1>2. ASSUME ArrayPop \/ \E v \in Value : ArrayPush(v) PROVE ValuesKept
  <2>1. walks' = walks /\ unwinding' = unwinding /\ registered' = registered /\ drops' = drops
    BY <1>2 DEF ArrayPop, ArrayPush, Takes, arenaVars
  <2> QED BY <1>1, <2>1, KeptIf
<1>3. ASSUME NEW v \in Value, ArrayPushFails(v) \/ ArrayPushDead(v) PROVE ValuesKept
  <2>1. walks' = walks /\ (unwinding => unwinding') /\ registered' = registered /\ DropsAll({v})
    BY <1>3 DEF ArrayPushFails, ArrayPushDead, Panics, Refuses, arenaVars
  <2> QED BY <1>1, <2>1, RefusalKeeps, KeptIf
<1>4. ASSUME NEW cap \in AskedCaps, NEW fits \in BOOLEAN, ArrayNew(cap, fits) PROVE ValuesKept
  <2>1. walks' = walks /\ unwinding' = unwinding /\ Register("table", None) /\ drops' = drops /\ arrStage = "none"
    BY <1>4 DEF ArrayNew
  <2>2. Entry("table", None) \notin Range(registered)
    BY <2>1 DEF TableInv, TableWaits
  <2> QED BY <1>1, <2>1, <2>2, KeptIfRegistered
<1>5. ASSUME StartTable PROVE ValuesKept
  <2>1. walks = <<>> /\ Enter(Entry("table", None), SubSeq(ptrs, 1, arrLen), <<>>)
    BY <1>5 DEF StartTable, Enter, Between, ControlInv
  <2> QED BY <1>1, <2>1, KeptIfEntered, Zenon
<1> QED BY <1>2, <1>3, <1>4, <1>5 DEF ArrayStep

\* So does every step of the fixed array.
LEMMA ValuesKeptByFixed ==
  ASSUME TypeOK, ControlInv, SegmentsInv, TableInv, PlaceInv, FixedInv, FixedStep
  PROVE  ValuesKept
<1>1. nodes' = nodes /\ owned' = owned /\ ListItems' = ListItems
  BY ListUntouched DEF FixedStep, OnlyFixed, nVars
<1>2. ASSUME FixedDone \/ WriteNull \/ EndFixed \/ \E vs \in Batches : FillByC(vs) PROVE ValuesKept
  <2>1. walks' = walks /\ unwinding' = unwinding /\ registered' = registered /\ drops' = drops
    BY <1>2 DEF FixedDone, WriteNull, EndFixed, EndEntry, FillByC, Takes, tenantVars, arenaVars
  <2> QED BY <1>1, <2>1, KeptIf
<1>3. ASSUME NEW v \in Value, InitPush(v) \/ InitPushIgnored(v) PROVE ValuesKept
  <2>1. walks' = walks /\ unwinding' = unwinding /\ registered' = registered /\ DropsAll({v})
    BY <1>3 DEF InitPush, InitPushIgnored, Refuses, arenaVars
  <2> QED BY <1>1, <2>1, RefusalKeeps, KeptIf
<1>4. fixStage = "none" => Entry("fixed", None) \notin Range(registered)
  BY DEF FixedInv, FixedWaits
<1>5. ASSUME NEW cap \in Regions, FixedReserve(cap) PROVE ValuesKept
  <2>1. walks' = walks /\ unwinding' = unwinding /\ Register("fixed", None) /\ drops' = drops /\ fixStage = "none"
    BY <1>5 DEF FixedReserve
  <2> QED BY <1>1, <1>4, <2>1, KeptIfRegistered
<1>6. ASSUME NEW vs \in Batches, NEW src \in Sources, FixedNew(src, vs) PROVE ValuesKept
  <2>1. walks' = walks /\ unwinding' = unwinding /\ Register("fixed", None) /\ drops' = drops /\ fixStage = "none"
    BY <1>6 DEF FixedNew, Takes
  <2> QED BY <1>1, <1>4, <2>1, KeptIfRegistered
<1>7. ASSUME NEW vs \in Batches, NEW src \in Sources, FixedNewTooBig(src, vs) PROVE ValuesKept
  <2>1. /\ walks' = walks /\ unwinding' = unwinding /\ Register("fixed", None) /\ fixStage = "none"
        /\ DropsAll(Range(vs)) \/ drops' = drops
    BY <1>7 DEF FixedNewTooBig
  <2>2. \A v \in Value : v \notin outside => drops'[v] = drops[v]
    BY <2>1, RefusalKeeps
  <2> QED BY <1>1, <1>4, <2>1, <2>2, KeptIfRegistered
<1>8. ASSUME StartFixed PROVE ValuesKept
  <2>1. walks = <<>> /\ Enter(Entry("fixed", None), IF fixData THEN SubSeq(cells, 1, fixLen) ELSE <<>>, <<>>)
    BY <1>8 DEF StartFixed, Enter, Between, ControlInv
  <2> QED BY <1>1, <2>1, KeptIfEntered, Zenon
<1> QED BY <1>2, <1>3, <1>5, <1>6, <1>7, <1>8, Zenon DEF FixedStep

\* So does the arena's end, but for the three steps that drop values on their
\* own.
LEMMA ValuesKeptByArena ==
  ASSUME TypeOK, ControlInv, SegmentsInv, TableInv, PlaceInv, CellsInv, FixedInv,
         ArenaStep \/ TextStep \/ UNCHANGED vars
  PROVE  ValuesKept \/ StartValue \/ OpenNext \/ DropOwn
<1>1. nodes' = nodes /\ owned' = owned /\ ListItems' = ListItems
  <2>1. nVars' = nVars /\ listVars' = listVars
    BY DEF ArenaStep, OnlyArena, TextStep, OnlyText, vars
  <2> QED BY <2>1, ListUntouched DEF nVars
<1>2. ASSUME DropArena \/ DropReturn \/ DropPanic \/ EndEntry("value") \/ EndEntry("table")
             \/ EndUnwind \/ FinishChain \/ TextStep \/ UNCHANGED vars
      PROVE  ValuesKept
  <2>1. walks' = walks /\ (unwinding => unwinding') /\ registered' = registered /\ drops' = drops
    BY <1>2 DEF DropArena, DropReturn, DropPanic, Panics, EndEntry, EndUnwind, FinishChain,
       TextStep, UStrNew,
         vars, tenantVars, arenaVars
  <2> QED BY <1>1, <2>1, KeptIf
<1>3. ASSUME DropHead PROVE ValuesKept
  <2>1. walks' = walks /\ unwinding' = unwinding /\ registered' = registered
    BY <1>3 DEF DropHead
  <2>2. /\ drops \in [Value -> Nat] /\ todo \in Seq(Value \cup {Garbage})
    BY TypeParts, TenantParts
  <2>3. drops' = drops \/ (todo[1] \in Value /\ \A v \in Value : drops'[v] = IF v = todo[1] THEN drops[v] + 1 ELSE drops[v])
    BY <1>3, <2>2, DropHeadEffect
  <2>4. todo[1] \in Value => todo[1] \notin Range(nodes) \cup Range(ListItems)
    <3>1. todo[1] \in Value => todo[1] \in Range(ArrayItems) \cup Held
      BY <1>3, DropHeadItem
    <3>2. Disjoint(outside, Range(nodes), Range(ListItems), Range(ArrayItems), Held, spilled)
      BY DEF PlaceInv, Apart
    <3> QED BY ONLY <3>1, <3>2 DEF Disjoint
  <2>5. Range(nodes) \subseteq Value /\ Range(ListItems) \subseteq Value
    BY PlacesTyped
  <2>6. \A v \in Range(nodes) \cup Range(ListItems) : drops'[v] = drops[v]
    BY ONLY <2>3, <2>4, <2>5
  <2> QED BY ONLY <1>1, <2>1, <2>6 DEF ValuesKept
<1> QED BY <1>2, <1>3 DEF ArenaStep

\* The steps that do more to nodes and list items than leave them alone.
LEMMA ValueSteps ==
  ASSUME TypeOK, ControlInv, SegmentsInv, TableInv, PlaceInv, CellsInv, FixedInv, [Next]_vars
  PROVE  \/ ValuesKept
         \/ \E v \in Value : NStep /\ NNew(v)
         \/ \E v \in Value, p \in Value : NStep /\ NOutlives(p, v)
         \/ \E v \in Value : ListStep /\ ListPush(v) /\ ListItems' = Append(ListItems, v)
         \/ ArenaStep /\ (StartValue \/ OpenNext \/ DropOwn)
<1>1. CASE NStep
  <2>1. ASSUME NEW v \in Value, NRefused(v) PROVE ValuesKept
    <3>1. /\ walks' = walks /\ unwinding' = unwinding /\ registered' = registered /\ DropsAll({v})
          /\ nodes' = nodes /\ owned' = owned
      BY <2>1 DEF NRefused, Refuses, arenaVars, nVars
    <3>2. ListItems' = ListItems
      BY <1>1, ListUntouched DEF NStep, OnlyN
    <3> QED BY <3>1, <3>2, RefusalKeeps, KeptIf
  <2> QED BY <1>1, <2>1 DEF NStep
<1>2. CASE ListStep
  <2>1. nodes' = nodes /\ owned' = owned
    BY <1>2 DEF ListStep, OnlyList, nVars
  <2>2. ASSUME NEW v \in Value, ListPushTooBig(v) \/ ListPushDead(v) PROVE ValuesKept
    <3>1. walks' = walks /\ unwinding' = unwinding /\ registered' = registered /\ DropsAll({v})
      BY <2>2 DEF ListPushTooBig, ListPushDead, Refuses, arenaVars
    <3>2. ListItems' = ListItems
      BY <2>2, ListPushTooBigEffect, ListUntouched DEF ListPushDead
    <3> QED BY <2>1, <3>1, <3>2, RefusalKeeps, KeptIf
  <2>3. ASSUME NEW fits \in BOOLEAN, ListNew(fits) PROVE ValuesKept
    <3>1. walks' = walks /\ unwinding' = unwinding /\ registered' = registered /\ drops' = drops
      BY <2>3 DEF ListNew, tenantVars, arenaVars
    <3>2. ListItems' = ListItems
      BY <2>3, ListNewEffect
    <3> QED BY <2>1, <3>1, <3>2, KeptIf
  <2>4. ASSUME NEW v \in Value, ListPush(v) PROVE ListItems' = Append(ListItems, v)
    BY <2>4, ListPushEffect
  <2> QED BY <1>2, <2>2, <2>3, <2>4 DEF ListStep
<1>3. CASE ArrayStep
  BY <1>3, ValuesKeptByArray
<1>4. CASE FixedStep
  BY <1>4, ValuesKeptByFixed
<1>5. CASE TextStep \/ UNCHANGED vars
  <2>1. walks' = walks /\ nodes' = nodes /\ owned' = owned /\ registered' = registered /\ unwinding' = unwinding /\ drops' = drops
    BY <1>5 DEF TextStep, OnlyText, UStrNew, vars, tenantVars, arenaVars, nVars
  <2>2. ListItems' = ListItems
    BY <1>5, ListUntouched DEF TextStep, OnlyText, vars
  <2> QED BY <2>1, <2>2, KeptIf
<1>6. CASE ArenaStep
  BY <1>6, ValuesKeptByArena
<1> QED BY <1>1, <1>2, <1>3, <1>4, <1>5, <1>6, StepKinds
=============================================================================
