------------------------- MODULE CollectionsProofs --------------------------
(***************************************************************************)
(* Theorems about the collections of Collections, for every number of      *)
(* values, every size of segments and regions, every bound and every width *)
(* of a string's count: its invariants, and that a list, an array and a    *)
(* fixed array each implement an owned sequence.                           *)
(***************************************************************************)
EXTENDS CollectionsSteps

-----------------------------------------------------------------------------
(* Values that are placed                                                  *)

\* While the arena lives nothing in it was dropped or is being dropped.
LEMMA AliveFacts ==
  ASSUME TypeOK, ControlInv, PlaceInv, IsAlive
  PROVE  /\ running = None /\ walks = <<>> /\ ~unwinding /\ Walked = {}
         /\ \A v \in Range(nodes) \cup Range(ListItems) : drops[v] = 0
<1>1. running = None /\ walks = <<>> /\ ~unwinding
  BY DEF ControlInv, IsAlive
<1>2. Walked = {}
  BY <1>1 DEF Walked
<1> QED BY <1>1, <1>2 DEF PlaceInv, IsAlive

\* What the program still has is nowhere in the arena.
LEMMA Fresh ==
  ASSUME TypeOK, PlaceInv, NodesInv, NEW v \in outside
  PROVE  /\ v \in Value /\ drops[v] = 0 /\ v \notin Range(nodes) /\ v \notin Range(ListItems)
         /\ v \notin Hung /\ owned[v] = <<>> /\ v \notin Direct
<1>1. outside \subseteq Value
  BY TypeParts
<1>2. drops[v] = 0 /\ v \notin Range(nodes) /\ v \notin Range(ListItems)
  BY DEF PlaceInv, Apart, Disjoint
<1>3. v \notin Hung /\ owned[v] = <<>>
  BY <1>1, <1>2 DEF NodesInv
<1> QED BY <1>1, <1>2, <1>3 DEF Direct

\* What N::new does, with what it leaves alone.
LEMMA NewFacts ==
  ASSUME TypeOK, SegmentsInv, NEW v \in Value, NNew(v), NStep
  PROVE  /\ IsAlive /\ v \in outside /\ Register("value", v) /\ drops' = drops /\ nodes' = Append(nodes, v)
         /\ owned' = owned /\ walks' = walks /\ unwinding' = unwinding /\ ListItems' = ListItems /\ phase' = phase
<1>1. ListItems' = ListItems
  BY ListUntouched DEF NStep, OnlyN
<1> QED BY <1>1 DEF NNew, Takes

\* What outlives does, with what it leaves alone.
LEMMA OutlivesFacts ==
  ASSUME TypeOK, SegmentsInv, NEW v \in Value, NEW p \in Value, NOutlives(p, v), NStep
  PROVE  /\ IsAlive /\ v \in outside /\ registered' = registered /\ drops' = drops /\ nodes' = Append(nodes, v)
         /\ owned' = [owned EXCEPT ![p] = <<v>> \o @] /\ p \in Range(nodes)
         /\ walks' = walks /\ unwinding' = unwinding /\ ListItems' = ListItems /\ phase' = phase
<1>1. ListItems' = ListItems
  BY ListUntouched DEF NStep, OnlyN
<1>2. nodes \in Seq(Value)
  BY TypeParts
<1>3. Contains(nodes, p) => p \in Range(nodes)
  BY <1>2, InRange DEF Contains
<1> QED BY <1>1, <1>3 DEF NOutlives, Takes, arenaVars

\* N::new: a node with an empty list.
LEMMA NodesAfterNew ==
  ASSUME TypeOK, PlaceInv, NodesInv, NEW v \in outside, nodes' = Append(nodes, v), owned' = owned
  PROVE  NodesInv' /\ Hung' = Hung /\ Range(nodes') = Range(nodes) \cup {v}
<1>1. v \in Value /\ v \notin Range(nodes) /\ v \notin Hung /\ owned[v] = <<>>
  BY Fresh
<1>2. nodes \in Seq(Value) /\ Len(nodes) \in Nat /\ owned \in [Value -> Seq(Value)]
  BY TypeParts
<1>3. /\ IsInjective(nodes') /\ Range(nodes') = Range(nodes) \cup {v}
  BY ONLY <1>1, <1>2, nodes' = Append(nodes, v), NodesInv, AppendFresh DEF NodesInv
<1>4. /\ Len(nodes') = Len(nodes) + 1 /\ nodes'[Len(nodes) + 1] = v
      /\ \A i \in 1..Len(nodes) : nodes'[i] = nodes[i]
  BY ONLY <1>1, <1>2, nodes' = Append(nodes, v)
<1>5. \A a \in 1..Len(nodes') :
        /\ nodes'[a] = v <=> a = Len(nodes) + 1
        /\ nodes'[a] # v => a \in 1..Len(nodes) /\ nodes'[a] = nodes[a] /\ nodes[a] \in Value
  <2>1. Len(nodes) \in Nat /\ \A i \in 1..Len(nodes) : nodes[i] \in Value /\ nodes[i] # v
    BY ONLY <1>1, <1>2, InRange
  <2> QED BY ONLY <1>4, <2>1
<1>6. Hung' = Hung
  BY DEF Hung
<1>7. ASSUME NEW a \in 1..Len(nodes'), NEW b \in 1..Len(nodes'), nodes'[b] \in Range(owned[nodes'[a]])
      PROVE  a < b
  <2>1. a # Len(nodes) + 1
    BY <1>1, <1>4, <1>7, NoElements
  <2>2. a \in 1..Len(nodes) /\ nodes'[a] = nodes[a] /\ nodes[a] \in Value
    BY <1>2, <1>4, <2>1
  <2>3. nodes'[b] \in Hung
    BY <1>7, <2>2 DEF Hung
  <2>4. b # Len(nodes) + 1
    BY <1>1, <1>4, <2>3
  <2>5. b \in 1..Len(nodes) /\ nodes'[b] = nodes[b]
    BY <1>2, <1>4, <2>4
  <2> QED BY <1>7, <2>2, <2>5 DEF NodesInv
<1>8. ASSUME NEW p \in Value, NEW i \in 1..Len(owned[p]), NEW j \in 1..Len(owned[p]),
             NEW a \in 1..Len(nodes'), NEW b \in 1..Len(nodes'),
             nodes'[a] = owned[p][i], nodes'[b] = owned[p][j], a < b
      PROVE  j < i
  <2>1. owned[p][i] \in Hung /\ owned[p][j] \in Hung
    BY Hanging
  <2>2. nodes'[a] # v /\ nodes'[b] # v
    BY <1>1, <1>8, <2>1
  <2>3. a \in 1..Len(nodes) /\ b \in 1..Len(nodes) /\ nodes'[a] = nodes[a] /\ nodes'[b] = nodes[b]
    BY <1>5, <2>2
  <2> QED BY <1>8, <2>3 DEF NodesInv
<1>9. /\ \A p \in Value : owned[p] # <<>> => p \in Range(nodes')
      /\ Hung \subseteq Range(nodes')
      /\ \A p, q \in Value : \A i \in 1..Len(owned[p]), j \in 1..Len(owned[q]) :
           owned[p][i] = owned[q][j] => p = q /\ i = j
  BY <1>3 DEF NodesInv
<1>10. NodesInv'
  BY ONLY <1>3, <1>6, <1>7, <1>8, <1>9, owned' = owned DEF NodesInv
<1> QED BY <1>3, <1>6, <1>10

\* N::outlives: a node at the head of another's list.
LEMMA NodesAfterOutlives ==
  ASSUME TypeOK, PlaceInv, NodesInv, NEW v \in outside, NEW p \in Value, p \in Range(nodes),
         nodes' = Append(nodes, v), owned' = [owned EXCEPT ![p] = <<v>> \o @]
  PROVE  NodesInv' /\ Hung' = Hung \cup {v} /\ Range(nodes') = Range(nodes) \cup {v}
<1>1. v \in Value /\ v \notin Range(nodes) /\ v \notin Hung /\ owned[v] = <<>> /\ v # p
  BY Fresh
<1>2. nodes \in Seq(Value) /\ Len(nodes) \in Nat /\ owned \in [Value -> Seq(Value)]
  BY TypeParts
<1>3. IsInjective(nodes') /\ Range(nodes') = Range(nodes) \cup {v}
  BY ONLY <1>1, <1>2, nodes' = Append(nodes, v), NodesInv, AppendFresh DEF NodesInv
<1>4. /\ Len(nodes') = Len(nodes) + 1 /\ nodes'[Len(nodes) + 1] = v
      /\ \A i \in 1..Len(nodes) : nodes'[i] = nodes[i]
  BY ONLY <1>1, <1>2, nodes' = Append(nodes, v)
<1>5. \A a \in 1..Len(nodes') :
        /\ nodes'[a] = v <=> a = Len(nodes) + 1
        /\ nodes'[a] # v => a \in 1..Len(nodes) /\ nodes'[a] = nodes[a] /\ nodes[a] \in Value
  <2>1. Len(nodes) \in Nat /\ \A i \in 1..Len(nodes) : nodes[i] \in Value /\ nodes[i] # v
    BY ONLY <1>1, <1>2, InRange
  <2> QED BY ONLY <1>4, <2>1
<1>6. /\ owned' \in [Value -> Seq(Value)]
      /\ \A q \in Value : owned'[q] = IF q = p THEN <<v>> \o owned[p] ELSE owned[q]
  <2>1. <<v>> \o owned[p] \in Seq(Value)
    BY <1>1, <1>2
  <2> QED BY ONLY <1>2, <2>1, owned' = [owned EXCEPT ![p] = <<v>> \o @], p \in Value
<1>7. /\ owned[p] \in Seq(Value) /\ Len(owned'[p]) = Len(owned[p]) + 1 /\ Len(owned[p]) \in Nat
      /\ owned'[p][1] = v /\ \A i \in 2..(Len(owned[p]) + 1) : owned'[p][i] = owned[p][i - 1]
  <2>1. owned[p] \in Seq(Value) /\ owned'[p] = <<v>> \o owned[p]
    BY <1>2, <1>6
  <2> QED BY ONLY <1>1, <2>1
\* Every item of a list is v, the head of p's, or was one before.
<1>8. ASSUME NEW q \in Value, NEW i \in 1..Len(owned'[q])
      PROVE  \/ q = p /\ i = 1 /\ owned'[q][i] = v
             \/ /\ owned'[q][i] # v /\ owned'[q][i] \in Hung
                /\ LET k == IF q = p THEN i - 1 ELSE i IN
                     k \in 1..Len(owned[q]) /\ owned'[q][i] = owned[q][k]
  <2>1. CASE q # p
    <3>1. i \in 1..Len(owned[q]) /\ owned'[q][i] = owned[q][i]
      BY <1>6, <2>1
    <3> QED BY <1>1, <2>1, <3>1, Hanging
  <2>2. CASE q = p /\ i = 1
    BY <1>7, <2>2
  <2>3. CASE q = p /\ i # 1
    <3>1. i - 1 \in 1..Len(owned[q]) /\ i \in 2..(Len(owned[p]) + 1)
      BY <1>7, <2>3
    <3>2. owned'[q][i] = owned[q][i - 1]
      BY <1>7, <2>3, <3>1
    <3> QED BY <1>1, <2>3, <3>1, <3>2, Hanging
  <2> QED BY <2>1, <2>2, <2>3
<1>9. \A q \in Value : \A x : x \in Range(owned'[q]) <=> \E i \in 1..Len(owned'[q]) : owned'[q][i] = x
  <2> TAKE q \in Value
  <2>1. owned'[q] \in Seq(Value)
    BY <1>6
  <2> QED BY ONLY <2>1, InRange
<1>10. Hung' = Hung \cup {v}
  <2>1. ASSUME NEW x \in Hung' PROVE x \in Hung \cup {v}
    <3>1. PICK q \in Value : x \in Range(owned'[q])
      BY DEF Hung
    <3>2. PICK i \in 1..Len(owned'[q]) : owned'[q][i] = x
      BY ONLY <1>9, <3>1, q \in Value
    <3> QED BY ONLY <1>8, <3>2, q \in Value
  <2>2. v \in Hung'
    <3>1. 1 \in 1..Len(owned'[p])
      BY <1>7
    <3> QED BY <1>7, <1>9, <3>1 DEF Hung
  <2>3. ASSUME NEW x \in Hung PROVE x \in Hung'
    <3>1. PICK q \in Value : x \in Range(owned[q])
      BY DEF Hung
    <3>2. owned[q] \in Seq(Value)
      BY <1>2
    <3>3. PICK i \in 1..Len(owned[q]) : owned[q][i] = x
      BY ONLY <3>1, <3>2, InRange
    <3>4. CASE q # p
      <4>1. owned'[q] = owned[q]
        BY <1>6, <3>4
      <4> QED BY <3>1, <4>1 DEF Hung
    <3>5. CASE q = p
      <4>1. i + 1 \in 1..Len(owned'[q]) /\ owned'[q][i + 1] = x
        BY <1>7, <3>3, <3>5
      <4>2. x \in Range(owned'[q])
        BY ONLY <1>9, <4>1, q \in Value
      <4> QED BY ONLY <4>2, q \in Value DEF Hung
    <3> QED BY <3>4, <3>5
  <2> QED BY <2>1, <2>2, <2>3
<1>11. \A q \in Value : owned'[q] # <<>> => q \in Range(nodes')
  BY <1>3, <1>6 DEF NodesInv
<1>12. Hung' \subseteq Range(nodes')
  BY <1>3, <1>10 DEF NodesInv
<1>13. ASSUME NEW a \in 1..Len(nodes'), NEW b \in 1..Len(nodes'), nodes'[b] \in Range(owned'[nodes'[a]])
       PROVE  a < b
  <2>1. a # Len(nodes) + 1
    BY <1>1, <1>4, <1>6, <1>13, NoElements
  <2>2. a \in 1..Len(nodes) /\ nodes'[a] = nodes[a] /\ nodes[a] \in Value
    BY ONLY <1>5, <2>1, a \in 1..Len(nodes')
  <2>3. CASE b = Len(nodes) + 1
    BY <1>2, <2>2, <2>3
  <2>4. CASE b # Len(nodes) + 1
    <3>1. b \in 1..Len(nodes) /\ nodes'[b] = nodes[b] /\ nodes[b] # v
      BY ONLY <1>5, <2>4, b \in 1..Len(nodes')
    <3>2. PICK i \in 1..Len(owned'[nodes[a]]) : owned'[nodes[a]][i] = nodes[b]
      BY <1>9, <1>13, <2>2, <3>1
    <3>3. nodes[b] \in Range(owned[nodes[a]])
      <4>1. \E k \in 1..Len(owned[nodes[a]]) : owned[nodes[a]][k] = nodes[b]
        BY <1>8, <2>2, <3>1, <3>2
      <4>2. owned[nodes[a]] \in Seq(Value)
        BY <1>2, <2>2
      <4> QED BY ONLY <4>1, <4>2, InRange
    <3> QED BY <2>2, <3>1, <3>3 DEF NodesInv
  <2> QED BY <2>3, <2>4
<1>14. ASSUME NEW q \in Value, NEW r \in Value, NEW i \in 1..Len(owned'[q]), NEW j \in 1..Len(owned'[r]),
              owned'[q][i] = owned'[r][j]
       PROVE  q = r /\ i = j
  <2>1. CASE owned'[q][i] = v
    BY <1>8, <1>14, <2>1
  <2>2. CASE owned'[q][i] # v
    <3> DEFINE k == IF q = p THEN i - 1 ELSE i
               m == IF r = p THEN j - 1 ELSE j
    <3>1. k \in 1..Len(owned[q]) /\ m \in 1..Len(owned[r]) /\ owned[q][k] = owned[r][m]
      BY <1>8, <1>14, <2>2
    <3>2. q = r /\ k = m
      BY <3>1 DEF NodesInv
    <3> QED BY <1>2, <1>6, <3>1, <3>2
  <2> QED BY <2>1, <2>2
<1>15. ASSUME NEW q \in Value, NEW i \in 1..Len(owned'[q]), NEW j \in 1..Len(owned'[q]),
              NEW a \in 1..Len(nodes'), NEW b \in 1..Len(nodes'),
              nodes'[a] = owned'[q][i], nodes'[b] = owned'[q][j], a < b
       PROVE  j < i
  <2>1. owned'[q] \in Seq(Value) /\ Len(owned'[q]) \in Nat
    BY <1>6
  <2>2. a \in 1..Len(nodes) /\ nodes'[a] = nodes[a] /\ nodes[a] # v
    <3>1. a # Len(nodes) + 1
      BY ONLY <1>2, <1>4, <1>15, a \in 1..Len(nodes'), b \in 1..Len(nodes')
    <3> QED BY ONLY <1>5, <3>1, a \in 1..Len(nodes')
  <2>3. CASE b = Len(nodes) + 1
    <3>1. owned'[q][j] = v
      BY <1>4, <1>15, <2>3
    <3>2. q = p /\ j = 1
      BY <1>8, <3>1
    <3>3. i # 1
      BY <1>15, <2>2, <3>1, <3>2
    <3> QED BY <2>1, <3>2, <3>3
  <2>4. CASE b # Len(nodes) + 1
    <3>1. b \in 1..Len(nodes) /\ nodes'[b] = nodes[b] /\ nodes[b] # v
      BY ONLY <1>5, <2>4, b \in 1..Len(nodes')
    <3> DEFINE k == IF q = p THEN i - 1 ELSE i
               m == IF q = p THEN j - 1 ELSE j
    <3>2. k \in 1..Len(owned[q]) /\ m \in 1..Len(owned[q]) /\ nodes[a] = owned[q][k] /\ nodes[b] = owned[q][m]
      BY <1>8, <1>15, <2>2, <3>1
    <3>3. m < k
      BY <1>15, <2>2, <3>1, <3>2 DEF NodesInv
    <3> QED BY <2>1, <3>3
  <2> QED BY <2>3, <2>4
<1>16. NodesInv'
  BY ONLY <1>3, <1>11, <1>12, <1>13, <1>14, <1>15 DEF NodesInv
<1> QED BY <1>3, <1>10, <1>16

\* A value is placed with a drop function of its own.
LEMMA RegisteredGrows ==
  ASSUME TypeOK, RegisteredInv, NEW v \in Value, v \notin Direct, Direct' = Direct \cup {v},
         Walked = {}, Walked' = {}, drops' = drops, drops[v] = 0, Register("value", v)
  PROVE  /\ RegisteredInv' /\ registered' = Append(registered, Entry("value", v))
         /\ Entry("value", v) \in Entries /\ Entry("value", v) \notin Range(registered)
<1>1. registered \in Seq(Entries)
  BY RegisteredRow
<1>2. Entry("value", v) \in Entries
  BY DEF Entry, Entries, DropFn
<1>3. /\ IsInjective(registered)
      /\ \A u \in Value : Entry("value", u) \in Range(registered) <=> u \in Direct /\ ~(drops[u] > 0)
      /\ \A e \in Range(registered) : IF e.fn = "value" THEN e.of \in Value ELSE e.of = None
  BY DEF RegisteredInv, Touched
<1>4. Entry("value", v) \notin Range(registered)
  BY <1>3
<1>5. registered' = Append(registered, Entry("value", v))
  BY DEF Register
<1>6. IsInjective(registered') /\ Range(registered') = Range(registered) \cup {Entry("value", v)}
  BY ONLY <1>1, <1>2, <1>3, <1>4, <1>5, AppendFresh
<1>7. Entry("value", v).fn = "value" /\ Entry("value", v).of = v
  BY DEF Entry
<1>8. \A u \in Value : Entry("value", u) = Entry("value", v) <=> u = v
  BY EntryIs
<1>9. \A u \in Value : Entry("value", u) \in Range(registered') <=> u \in Direct' /\ ~(drops'[u] > 0)
  BY ONLY <1>3, <1>6, <1>8, Direct' = Direct \cup {v}, drops' = drops, drops[v] = 0
<1>10. \A e \in Range(registered') : IF e.fn = "value" THEN e.of \in Value ELSE e.of = None
  BY ONLY <1>3, <1>6, <1>7, v \in Value
<1>11. RegisteredInv'
  BY ONLY <1>6, <1>9, <1>10, Walked' = {} DEF RegisteredInv, Touched
<1> QED BY <1>2, <1>4, <1>5, <1>11

\* Nothing is walked.
LEMMA NoWalks ==
  ASSUME walks' = <<>>
  PROVE  WalksInv' /\ Walked' = {}
BY DEF WalksInv, Walked

\* No node was dropped or is being dropped.
LEMMA QuietOrder ==
  ASSUME NodesInv', owned' \in [Value -> Seq(Value)], Walked' = {},
         \A v \in Range(nodes') : drops'[v] = 0
  PROVE  OrderInv'
<1>1. ASSUME NEW p \in Value, NEW i \in 1..Len(owned'[p])
      PROVE  drops'[p] = 0 /\ drops'[owned'[p][i]] = 0
  <2>1. owned'[p] \in Seq(Value) /\ owned'[p] # <<>>
    OBVIOUS
  <2>2. owned'[p][i] \in Range(owned'[p])
    BY ONLY <2>1, InRange, i \in 1..Len(owned'[p])
  <2>3. owned'[p][i] \in Hung'
    BY <2>2 DEF Hung
  <2> QED BY <2>1, <2>3 DEF NodesInv
<1>2. ASSUME NEW p \in Value, NEW j \in 1..Len(owned'[p])
      PROVE  ~(drops'[owned'[p][j]] > 0) /\ ~(drops'[p] > 0)
  BY ONLY <1>1, <1>2
<1> QED BY ONLY <1>2, Walked' = {} DEF OrderInv, Touched

\* N::new of v.
LEMMA ValuesAfterNew ==
  ASSUME TypeOK, ControlInv, SegmentsInv, PlaceInv, RegisteredInv, NodesInv, ListInv,
         NEW v \in Value, NStep, NNew(v)
  PROVE  RegisteredInv' /\ NodesInv' /\ WalksInv' /\ OrderInv' /\ ListInv'
<1>1. /\ IsAlive /\ v \in outside /\ Register("value", v) /\ drops' = drops /\ nodes' = Append(nodes, v)
      /\ owned' = owned /\ walks' = walks /\ unwinding' = unwinding /\ ListItems' = ListItems
  BY NewFacts
<1>2. walks = <<>> /\ Walked = {} /\ \A u \in Range(nodes) \cup Range(ListItems) : drops[u] = 0
  BY <1>1, AliveFacts
<1>3. drops[v] = 0 /\ v \notin Range(nodes) /\ v \notin Range(ListItems) /\ v \notin Hung /\ v \notin Direct
  BY <1>1, Fresh
<1>4. NodesInv' /\ Hung' = Hung /\ Range(nodes') = Range(nodes) \cup {v}
  BY <1>1, NodesAfterNew
<1>5. WalksInv' /\ Walked' = {}
  BY <1>1, <1>2, NoWalks
<1>6. Direct' = Direct \cup {v}
  BY <1>1, <1>3, <1>4 DEF Direct
<1>7. /\ RegisteredInv' /\ registered' = Append(registered, Entry("value", v))
      /\ Entry("value", v) \in Entries
  BY <1>1, <1>2, <1>3, <1>5, <1>6, RegisteredGrows
<1>8. OrderInv'
  <2>1. owned' \in [Value -> Seq(Value)]
    BY <1>1, TypeParts
  <2>2. \A u \in Range(nodes') : drops'[u] = 0
    BY <1>1, <1>2, <1>3, <1>4
  <2> QED BY <1>4, <1>5, <2>1, <2>2, QuietOrder
<1>9. ListInv'
  <2>1. registered \in Seq(Entries) /\ ListItems \in Seq(Value)
    BY RegisteredRow, ListSide
  <2>2. \A i \in 1..Len(ListItems) : Entry("value", v) # Entry("value", ListItems[i])
    BY <1>3, <2>1, InRange, EntryIs
  <2>3. InOrder(registered, ListItems)
    BY DEF ListInv, InOrder
  <2>4. InOrder(registered', ListItems)
    BY ONLY <1>7, <2>1, <2>2, <2>3, OrderAppended
  <2> QED BY ONLY <1>1, <1>2, <1>5, <2>4, ListInv DEF ListInv, InOrder, Touched
<1> QED BY <1>4, <1>5, <1>7, <1>8, <1>9

\* N::outlives of v by p.
LEMMA ValuesAfterOutlives ==
  ASSUME TypeOK, TypeOK', ControlInv, SegmentsInv, PlaceInv, RegisteredInv, NodesInv, ListInv,
         NEW v \in Value, NEW p \in Value, NStep, NOutlives(p, v)
  PROVE  RegisteredInv' /\ NodesInv' /\ WalksInv' /\ OrderInv' /\ ListInv'
<1>1. /\ IsAlive /\ v \in outside /\ registered' = registered /\ drops' = drops /\ nodes' = Append(nodes, v)
      /\ owned' = [owned EXCEPT ![p] = <<v>> \o @] /\ p \in Range(nodes)
      /\ walks' = walks /\ unwinding' = unwinding /\ ListItems' = ListItems
  BY OutlivesFacts
<1>2. walks = <<>> /\ Walked = {} /\ \A u \in Range(nodes) \cup Range(ListItems) : drops[u] = 0
  BY <1>1, AliveFacts
<1>3. drops[v] = 0 /\ v \notin Range(nodes) /\ v \notin Range(ListItems) /\ v \notin Hung
  BY <1>1, Fresh
<1>4. NodesInv' /\ Hung' = Hung \cup {v} /\ Range(nodes') = Range(nodes) \cup {v}
  BY <1>1, NodesAfterOutlives
<1>5. WalksInv' /\ Walked' = {}
  BY <1>1, <1>2, NoWalks
<1>6. Direct' = Direct
  BY <1>1, <1>3, <1>4 DEF Direct
<1>7. RegisteredInv'
  BY ONLY <1>1, <1>2, <1>5, <1>6, RegisteredInv DEF RegisteredInv, Touched
<1>8. OrderInv'
  <2>1. owned' \in [Value -> Seq(Value)]
    BY DEF TypeOK, OutlivesTypeOK
  <2>2. \A u \in Range(nodes') : drops'[u] = 0
    BY <1>1, <1>2, <1>3, <1>4
  <2> QED BY <1>4, <1>5, <2>1, <2>2, QuietOrder
<1>9. ListInv'
  BY ONLY <1>1, <1>2, <1>5, ListInv DEF ListInv, Touched
<1> QED BY <1>4, <1>5, <1>7, <1>8, <1>9

\* List::push of v.
LEMMA ValuesAfterListPush ==
  ASSUME TypeOK, ControlInv, SegmentsInv, PlaceInv, RegisteredInv, NodesInv, OrderInv, ListInv,
         NEW v \in Value, ListStep, ListPush(v), ListItems' = Append(ListItems, v)
  PROVE  RegisteredInv' /\ NodesInv' /\ WalksInv' /\ OrderInv' /\ ListInv'
<1>1. /\ IsAlive /\ v \in outside /\ Register("value", v) /\ drops' = drops /\ nodes' = nodes
      /\ owned' = owned /\ walks' = walks /\ unwinding' = unwinding
  BY DEF ListPush, Takes, ListStep, OnlyList, nVars
<1>2. walks = <<>> /\ Walked = {} /\ \A u \in Range(nodes) \cup Range(ListItems) : drops[u] = 0
  BY <1>1, AliveFacts
<1>3. drops[v] = 0 /\ v \notin Range(nodes) /\ v \notin Range(ListItems) /\ v \notin Hung /\ v \notin Direct
  BY <1>1, Fresh
<1>4. NodesInv' /\ Hung' = Hung
  BY <1>1, NodesStay DEF Hung
<1>5. WalksInv' /\ Walked' = {}
  BY <1>1, <1>2, NoWalks
<1>6. registered \in Seq(Entries) /\ ListItems \in Seq(Value)
  BY RegisteredRow, ListSide
<1>7. IsInjective(ListItems') /\ Range(ListItems') = Range(ListItems) \cup {v} /\ ListItems' \in Seq(Value)
  BY ONLY <1>3, <1>6, v \in Value, ListItems' = Append(ListItems, v), ListInv, AppendFresh
     DEF ListInv
<1>8. Direct' = Direct \cup {v}
  BY <1>1, <1>3, <1>4, <1>7 DEF Direct
<1>9. /\ RegisteredInv' /\ registered' = Append(registered, Entry("value", v))
      /\ Entry("value", v) \notin Range(registered)
  BY <1>1, <1>2, <1>3, <1>5, <1>8, RegisteredGrows
<1>10. OrderInv'
  BY ONLY <1>1, <1>2, <1>5, OrderInv DEF OrderInv, Touched
<1>11. ListInv'
  <2>1. InOrder(registered, ListItems)
    BY DEF ListInv, InOrder
  <2>2. InOrder(registered', ListItems')
    BY ONLY <1>3, <1>6, <1>9, <2>1, v \in Value, ListItems' = Append(ListItems, v), OrderPushed
  <2>3. \A j \in 1..Len(ListItems') : ~(drops'[ListItems'[j]] > 0)
    <3>1. \A j \in 1..Len(ListItems') : ListItems'[j] \in Range(ListItems) \cup {v}
      BY ONLY <1>7, InRange
    <3>2. \A j \in 1..Len(ListItems') : drops'[ListItems'[j]] = 0
      BY ONLY <1>1, <1>2, <1>3, <3>1
    <3> QED BY ONLY <3>2
  <2> QED BY ONLY <1>5, <1>7, <2>2, <2>3 DEF ListInv, InOrder, Touched
<1> QED BY <1>4, <1>5, <1>9, <1>10, <1>11

-----------------------------------------------------------------------------
(* Values that are dropped                                                 *)

\* The arena's end neither places nodes nor ties them.
LEMMA ArenaLeaves ==
  ASSUME ArenaStep
  PROVE  /\ nodes' = nodes /\ owned' = owned /\ ListItems' = ListItems
         /\ Hung' = Hung /\ Direct' = Direct
<1>1. nodes' = nodes /\ owned' = owned /\ ListItems' = ListItems
  <2>1. nVars' = nVars /\ listVars' = listVars
    BY DEF ArenaStep, OnlyArena
  <2> QED BY <2>1, ListUntouched DEF nVars
<1> QED BY <1>1 DEF Hung, Direct

\* The walk that begins when the chain takes up a value.
LEMMA StartValueEffect ==
  ASSUME TypeOK, ControlInv, NEW v \in Value, Enter(Entry("value", v), <<>>, <<Walk(v)>>)
  PROVE  /\ walks = <<>> /\ Walked = {} /\ Len(walks') = 1 /\ walks'[1].of = v /\ walks'[1].next = 1 /\ Walked' = {v}
         /\ registered # <<>> /\ registered[1] = Entry("value", v) /\ registered' = Tail(registered)
         /\ drops' = drops /\ unwinding' = unwinding
<1>1. /\ registered # <<>> /\ Head(registered) = Entry("value", v) /\ registered' = Tail(registered)
      /\ drops' = drops /\ unwinding' = unwinding /\ walks' = <<Walk(v)>> /\ running = None
  BY DEF Enter, Between
<1>2. walks = <<>> /\ Walked = {}
  BY <1>1 DEF ControlInv, Walked
<1>3. Len(walks') = 1 /\ walks'[1].of = v /\ walks'[1].next = 1
  BY <1>1 DEF Walk
<1>4. Walked' = {v}
  BY <1>3 DEF Walked
<1>5. registered[1] = Head(registered)
  BY RegisteredRow
<1> QED BY <1>1, <1>2, <1>3, <1>4, <1>5

\* The chain takes up a value.
LEMMA ValuesAfterStart ==
  ASSUME TypeOK, ControlInv, SegmentsInv, PlaceInv, RegisteredInv, NodesInv, OrderInv, ListInv,
         ArenaStep, StartValue
  PROVE  RegisteredInv' /\ NodesInv' /\ WalksInv' /\ OrderInv' /\ ListInv'
<1> PICK v \in Value : Enter(Entry("value", v), <<>>, <<Walk(v)>>)
  BY DEF StartValue
<1>1. /\ walks = <<>> /\ Walked = {} /\ Len(walks') = 1 /\ walks'[1].of = v /\ walks'[1].next = 1 /\ Walked' = {v}
      /\ registered # <<>> /\ registered[1] = Entry("value", v) /\ registered' = Tail(registered)
      /\ drops' = drops /\ unwinding' = unwinding
  BY StartValueEffect
<1>2. /\ nodes' = nodes /\ owned' = owned /\ ListItems' = ListItems /\ Hung' = Hung /\ Direct' = Direct
      /\ NodesInv'
  BY ArenaLeaves, NodesStay
<1>3. registered \in Seq(Entries) /\ ListItems \in Seq(Value) /\ drops \in [Value -> Nat] /\ owned \in [Value -> Seq(Value)]
  BY RegisteredRow, ListSide, TypeParts
<1>4. /\ IsInjective(registered)
      /\ \A u \in Value : Entry("value", u) \in Range(registered) <=> u \in Direct /\ ~(drops[u] > 0)
      /\ \A e \in Range(registered) : IF e.fn = "value" THEN e.of \in Value ELSE e.of = None
  BY <1>1 DEF RegisteredInv, Touched
<1>5. /\ IsInjective(registered') /\ Range(registered') = Range(registered) \ {Entry("value", v)}
      /\ Entry("value", v) \in Range(registered)
  BY ONLY <1>1, <1>3, <1>4, TailOfInjective
<1>6. v \in Direct /\ ~(drops[v] > 0) /\ drops[v] = 0
  BY ONLY <1>3, <1>4, <1>5, v \in Value
<1>7. v \notin Hung /\ v \in Range(nodes) \cup Range(ListItems)
  BY <1>6 DEF Direct, NodesInv, PlaceInv, Apart, Disjoint
<1>8. RegisteredInv'
  <2>1. \A u \in Value : Entry("value", u) \in Range(registered') <=> u \in Direct /\ ~(drops[u] > 0 \/ u \in {v})
    BY ONLY <1>4, <1>5, <1>6, EntryIs
  <2> QED BY ONLY <1>1, <1>2, <1>4, <1>5, <2>1 DEF RegisteredInv, Touched
<1>9. \A p \in Value : \A i \in 1..Len(owned[p]) : owned[p][i] # v /\ owned[p][i] \in Value
  BY <1>7, Hanging
<1>10. \A p \in Value :
         /\ \A i \in 1..Len(owned[p]) : drops[owned[p][i]] > 0 => drops[p] > 0
         /\ drops[p] > 0 /\ ~unwinding => \A i \in 1..Len(owned[p]) : drops[owned[p][i]] > 0
         /\ \A j \in 1..Len(owned[p]) : \A i \in 1..(j - 1) : drops[owned[p][j]] > 0 => drops[owned[p][i]] > 0
  BY <1>1 DEF OrderInv, Touched
<1>11. WalksInv'
  <2>1. \A i \in 1..Len(owned[v]) : ~(drops[owned[v][i]] > 0 \/ owned[v][i] \in {v})
    BY ONLY <1>6, <1>9, <1>10, v \in Value
  <2>2. owned[v] \in Seq(Value) /\ Len(owned[v]) \in Nat
    BY <1>3
  <2>3. 1..Len(walks') = {1}
    BY ONLY <1>1
  <2> QED BY ONLY <1>1, <1>2, <1>6, <1>7, <2>1, <2>2, <2>3 DEF WalksInv, Touched
<1>12. OrderInv'
  <2>1. \A p \in Value :
         /\ \A i \in 1..Len(owned[p]) :
              drops[owned[p][i]] > 0 \/ owned[p][i] \in {v} => drops[p] > 0 \/ p \in {v}
         /\ drops[p] > 0 /\ ~unwinding => \A i \in 1..Len(owned[p]) : drops[owned[p][i]] > 0
         /\ \A j \in 1..Len(owned[p]) : \A i \in 1..(j - 1) :
              drops[owned[p][j]] > 0 \/ owned[p][j] \in {v} => drops[owned[p][i]] > 0
    <3> TAKE p \in Value
    <3>1. \A i \in 1..Len(owned[p]) : owned[p][i] # v
      BY ONLY <1>9, p \in Value
    <3>2. <1>10!(p)!1 /\ <1>10!(p)!2 /\ <1>10!(p)!3
      BY ONLY <1>10, p \in Value
    <3> QED BY ONLY <3>1, <3>2
  <2> QED BY ONLY <1>1, <1>2, <2>1 DEF OrderInv, Touched
<1>13. ListInv'
  <2>1. /\ IsInjective(ListItems)
        /\ \A j \in 1..Len(ListItems) : \A i \in 1..(j - 1) : drops[ListItems[j]] > 0 => drops[ListItems[i]] > 0
        /\ InOrder(registered, ListItems)
    BY <1>1 DEF ListInv, Touched, InOrder
  <2>2. ASSUME NEW j \in 1..Len(ListItems), NEW i \in 1..(j - 1), ListItems[j] = v
        PROVE  drops[ListItems[i]] > 0
    <3>1. i \in 1..Len(ListItems) /\ Len(ListItems) \in Nat
      BY <1>3
    <3>2. ListItems[i] \in Range(ListItems) /\ ListItems[i] \in Value
      BY ONLY <1>3, <3>1, InRange
    <3> SUFFICES ASSUME ~(drops[ListItems[i]] > 0) PROVE FALSE
      OBVIOUS
    <3>3. Entry("value", ListItems[i]) \in Range(registered)
      BY <1>4, <3>2 DEF Direct
    <3>4. PICK a \in 1..Len(registered) : registered[a] = Entry("value", ListItems[i])
      BY ONLY <1>3, <3>3, InRange
    <3>5. 1 \in 1..Len(registered) /\ Len(registered) \in Nat
      BY <1>1, <1>3
    <3>6. a < 1
      BY ONLY <1>1, <2>1, <2>2, <3>4, <3>5 DEF InOrder
    <3> QED BY ONLY <3>4, <3>5, <3>6
  <2>3. InOrder(registered', ListItems)
    BY ONLY <1>1, <1>3, <2>1, OrderPopped
  <2> QED BY ONLY <1>1, <1>2, <2>1, <2>2, <2>3 DEF ListInv, Touched, InOrder
<1> QED BY <1>2, <1>8, <1>11, <1>12, <1>13

\* The value whose walk is the last leaves it and is dropped.
LEMMA DropOwnValue ==
  ASSUME TypeOK, WalksInv, DropOwn
  PROVE  LET n == Len(walks)
             x == walks[n].of IN
         /\ n \in Nat \ {0} /\ x \in Value /\ walks[n].next \in Nat \ {0}
         /\ drops[x] = 0 /\ x \in Walked
         /\ Walked' = Walked \ {x}
         /\ drops' \in [Value -> Nat] /\ \A v \in Value : drops'[v] = IF v = x THEN 1 ELSE drops[v]
         /\ Len(walks') = n - 1 /\ \A k \in 1..(n - 1) : walks'[k] = walks[k]
         /\ unwinding \/ walks[n].next > Len(owned[x])
         /\ registered' = registered /\ unwinding' = unwinding
<1> DEFINE n == Len(walks)
           x == walks[n].of
<1>1. walks \in Seq(Frame) /\ drops \in [Value -> Nat]
  BY FrameAt, TypeParts
<1>2. /\ n \in Nat \ {0} /\ walks[n] \in Frame
      /\ unwinding \/ walks[n].next > Len(owned[x])
      /\ Len(walks') = n - 1 /\ \A k \in 1..(n - 1) : walks'[k] = walks[k]
      /\ drops' \in [Value -> Nat]
      /\ \A v \in Value : drops'[v] = IF v = x THEN drops[v] + 1 ELSE drops[v]
      /\ registered' = registered /\ unwinding' = unwinding
  BY <1>1, DropOwnEffect DEF Frame
<1>3. x \in Value /\ walks[n].next \in Nat \ {0}
  BY <1>2 DEF Frame
<1>4. n \in 1..Len(walks)
  BY <1>2
<1>5. drops[x] = 0 /\ \A j, k \in 1..Len(walks) : walks[j].of = walks[k].of => j = k
  BY <1>4 DEF WalksInv
<1> HIDE DEF x
<1>6. \A v \in Value : drops'[v] = IF v = x THEN 1 ELSE drops[v]
  BY ONLY <1>2, <1>3, <1>5
<1>7. Walked = { walks[k].of : k \in 1..n }
  BY DEF Walked
<1>8. Walked' = { walks'[k].of : k \in 1..(n - 1) }
  BY <1>2 DEF Walked
<1>9. x = walks[n].of /\ \A j \in 1..n : walks[j].of = x => j = n
  BY <1>4, <1>5 DEF x
<1> HIDE DEF n
<1>10. x \in Walked
  BY ONLY <1>2, <1>7, <1>9
<1>11. Walked' = Walked \ {x}
  BY ONLY <1>2, <1>7, <1>8, <1>9
<1> QED BY <1>2, <1>3, <1>5, <1>6, <1>10, <1>11 DEF n, x

\* An NMetadata's list is dropped and its own value follows.
LEMMA ValuesAfterDropOwn ==
  ASSUME TypeOK, ControlInv, SegmentsInv, PlaceInv, RegisteredInv, NodesInv, WalksInv, OrderInv, ListInv,
         ArenaStep, DropOwn
  PROVE  RegisteredInv' /\ NodesInv' /\ WalksInv' /\ OrderInv' /\ ListInv'
<1> DEFINE n == Len(walks)
           x == walks[n].of
<1>1. /\ n \in Nat \ {0} /\ x \in Value /\ walks[n].next \in Nat \ {0}
      /\ drops[x] = 0 /\ x \in Walked
      /\ Walked' = Walked \ {x}
      /\ drops' \in [Value -> Nat] /\ \A v \in Value : drops'[v] = IF v = x THEN 1 ELSE drops[v]
      /\ Len(walks') = n - 1 /\ \A k \in 1..(n - 1) : walks'[k] = walks[k]
      /\ unwinding \/ walks[n].next > Len(owned[x])
      /\ registered' = registered /\ unwinding' = unwinding
  BY DropOwnValue
<1>2. /\ nodes' = nodes /\ owned' = owned /\ ListItems' = ListItems /\ Hung' = Hung /\ Direct' = Direct
      /\ NodesInv'
  BY ArenaLeaves, NodesStay
<1>3. ListItems \in Seq(Value) /\ drops \in [Value -> Nat] /\ owned \in [Value -> Seq(Value)]
  BY ListSide, TypeParts
<1>4. n \in 1..Len(walks)
  BY <1>1
<1>5. \A k \in 1..Len(walks) :
       /\ walks[k].of \in Value /\ walks[k].next \in Nat \ {0}
       /\ drops[walks[k].of] = 0
       /\ walks[k].of \in Range(nodes) \cup Range(ListItems)
       /\ walks[k].next <= Len(owned[walks[k].of]) + 1
       /\ k = 1 => walks[k].of \in Direct
       /\ k > 1 => /\ walks[k - 1].next > 1
                   /\ walks[k].of = owned[walks[k - 1].of][walks[k - 1].next - 1]
       /\ walks[k].next > 1 => Touched(owned[walks[k].of][walks[k].next - 1])
       /\ \A i \in walks[k].next..Len(owned[walks[k].of]) : ~Touched(owned[walks[k].of][i])
       /\ k = Len(walks) /\ walks[k].next > 1 => drops[owned[walks[k].of][walks[k].next - 1]] > 0
  BY FrameAt DEF WalksInv
<1>6. \A j, k \in 1..Len(walks) : walks[j].of = walks[k].of => j = k
  BY DEF WalksInv
<1>7. x = walks[n].of /\ n = Len(walks)
  OBVIOUS
<1>8. /\ walks[n].next <= Len(owned[walks[n].of]) + 1
      /\ walks[n].next > 1 => drops[owned[walks[n].of][walks[n].next - 1]] > 0
  BY ONLY <1>4, <1>5, <1>7
<1> HIDE DEF x, n
\* To be touched and to be dropped become no less.
<1>9. \A v \in Value : (drops'[v] > 0 \/ v \in Walked') <=> Touched(v)
  <2> TAKE v \in Value
  <2>1. CASE v = x
    BY ONLY <1>1, <2>1 DEF Touched
  <2>2. CASE v # x
    BY ONLY <1>1, <2>2, v \in Value DEF Touched
  <2> QED BY <2>1, <2>2
<1>10. \A v \in Value : drops[v] > 0 => drops'[v] > 0
  <2> TAKE v \in Value
  <2>1. CASE v = x
    BY ONLY <1>1, <2>1
  <2>2. CASE v # x
    BY ONLY <1>1, <2>2, v \in Value
  <2> QED BY <2>1, <2>2
<1>11. RegisteredInv'
  BY ONLY <1>1, <1>2, <1>9, RegisteredInv DEF RegisteredInv, Touched
<1>12. WalksInv'
  <2>1. ASSUME NEW k \in 1..(n - 1)
        PROVE  LET w == walks[k] IN
               /\ drops'[w.of] = 0
               /\ w.next > 1 =>
                    LET c == owned[w.of][w.next - 1] IN drops'[c] > 0 \/ c \in Walked'
               /\ \A i \in w.next..Len(owned[w.of]) :
                    LET c == owned[w.of][i] IN ~(drops'[c] > 0 \/ c \in Walked')
               /\ k = n - 1 /\ w.next > 1 => drops'[owned[w.of][w.next - 1]] > 0
    <3> DEFINE w == walks[k]
    <3>1. k \in 1..Len(walks) /\ k # n
      BY ONLY <1>1, <1>7, k \in 1..(n - 1)
    <3>2. /\ w.of \in Value /\ w.next \in Nat \ {0} /\ drops[w.of] = 0
          /\ w.next <= Len(owned[w.of]) + 1
          /\ w.next > 1 => Touched(owned[w.of][w.next - 1])
          /\ \A i \in w.next..Len(owned[w.of]) : ~Touched(owned[w.of][i])
      BY ONLY <1>5, <3>1
    <3>3. w.of # x
      BY ONLY <1>4, <1>6, <1>7, <3>1
    <3>4. owned[w.of] \in Seq(Value) /\ Len(owned[w.of]) \in Nat
      BY ONLY <1>3, <3>2
    <3>5. \A i \in 1..Len(owned[w.of]) : owned[w.of][i] \in Value
      BY ONLY <3>4
    <3>6. k = n - 1 => w.next > 1 /\ owned[w.of][w.next - 1] = x
      <4>1. n > 1 => walks[n - 1].next > 1 /\ x = owned[walks[n - 1].of][walks[n - 1].next - 1]
        BY ONLY <1>4, <1>5, <1>7
      <4> QED BY ONLY <1>1, <4>1, k \in 1..(n - 1)
    <3> HIDE DEF w
    <3>7. w.next > 1 => w.next - 1 \in 1..Len(owned[w.of])
      BY ONLY <3>2, <3>4
    <3>8. \A i \in w.next..Len(owned[w.of]) : i \in 1..Len(owned[w.of])
      BY ONLY <3>2, <3>4
    <3>9. drops'[w.of] = 0
      BY ONLY <1>1, <3>2, <3>3
    <3>10. w.next > 1 => LET c == owned[w.of][w.next - 1] IN drops'[c] > 0 \/ c \in Walked'
      BY ONLY <1>9, <3>2, <3>5, <3>7
    <3>11. \A i \in w.next..Len(owned[w.of]) : LET c == owned[w.of][i] IN ~(drops'[c] > 0 \/ c \in Walked')
      BY ONLY <1>9, <3>2, <3>5, <3>8
    <3>12. k = n - 1 /\ w.next > 1 => drops'[owned[w.of][w.next - 1]] > 0
      BY ONLY <1>1, <3>6
    <3> QED BY <3>9, <3>10, <3>11, <3>12 DEF w
  <2>2. \A k \in 1..(n - 1) : k \in 1..Len(walks) /\ walks'[k] = walks[k] /\ (k > 1 => walks'[k - 1] = walks[k - 1])
    BY ONLY <1>1, <1>7
  <2>3. \A k \in 1..(n - 1) :
       /\ walks[k].of \in Range(nodes) \cup Range(ListItems)
       /\ walks[k].next <= Len(owned[walks[k].of]) + 1
       /\ k = 1 => walks[k].of \in Direct
       /\ k > 1 => /\ walks[k - 1].next > 1
                   /\ walks[k].of = owned[walks[k - 1].of][walks[k - 1].next - 1]
    BY ONLY <1>5, <2>2
  <2>4. \A j, k \in 1..(n - 1) : walks[j].of = walks[k].of => j = k
    BY ONLY <1>6, <2>2
  <2>5. ASSUME NEW k \in 1..Len(walks')
        PROVE  /\ drops'[walks'[k].of] = 0
               /\ walks'[k].of \in Range(nodes) \cup Range(ListItems)
               /\ walks'[k].next <= Len(owned[walks'[k].of]) + 1
               /\ k = 1 => walks'[k].of \in Direct
               /\ k > 1 => /\ walks'[k - 1].next > 1
                           /\ walks'[k].of = owned[walks'[k - 1].of][walks'[k - 1].next - 1]
               /\ walks'[k].next > 1 =>
                    \/ drops'[owned[walks'[k].of][walks'[k].next - 1]] > 0
                    \/ owned[walks'[k].of][walks'[k].next - 1] \in Walked'
               /\ \A i \in walks'[k].next..Len(owned[walks'[k].of]) :
                    ~(drops'[owned[walks'[k].of][i]] > 0 \/ owned[walks'[k].of][i] \in Walked')
               /\ k = Len(walks') /\ walks'[k].next > 1 => drops'[owned[walks'[k].of][walks'[k].next - 1]] > 0
    <3>1. k \in 1..(n - 1) /\ (k = Len(walks') => k = n - 1)
      BY ONLY <1>1, k \in 1..Len(walks')
    <3>2. walks'[k] = walks[k] /\ (k > 1 => walks'[k - 1] = walks[k - 1])
      BY ONLY <2>2, <3>1
    <3> QED BY ONLY <2>1, <2>3, <3>1, <3>2
  <2>6. \A j, k \in 1..Len(walks') : walks'[j].of = walks'[k].of => j = k
    BY ONLY <1>1, <2>2, <2>4
  <2> QED BY ONLY <1>2, <2>5, <2>6 DEF WalksInv, Touched
<1>13. OrderInv'
  <2>1. ASSUME NEW p \in Value
      PROVE  /\ \A i \in 1..Len(owned[p]) :
                  drops'[owned[p][i]] > 0 \/ owned[p][i] \in Walked' => drops'[p] > 0 \/ p \in Walked'
             /\ drops'[p] > 0 /\ ~unwinding => \A i \in 1..Len(owned[p]) : drops'[owned[p][i]] > 0
             /\ \A j \in 1..Len(owned[p]) : \A i \in 1..(j - 1) :
                  drops'[owned[p][j]] > 0 \/ owned[p][j] \in Walked' => drops'[owned[p][i]] > 0
    <3>1. owned[p] \in Seq(Value) /\ Len(owned[p]) \in Nat
      BY <1>3
    <3>2. /\ \A i \in 1..Len(owned[p]) : owned[p][i] \in Value
          /\ \A j \in 1..Len(owned[p]) : \A i \in 1..(j - 1) : i \in 1..Len(owned[p])
      BY ONLY <3>1
    <3>3. /\ \A i \in 1..Len(owned[p]) : Touched(owned[p][i]) => Touched(p)
          /\ drops[p] > 0 /\ ~unwinding => \A i \in 1..Len(owned[p]) : drops[owned[p][i]] > 0
          /\ \A j \in 1..Len(owned[p]) : \A i \in 1..(j - 1) :
               Touched(owned[p][j]) => drops[owned[p][i]] > 0
      BY DEF OrderInv
    <3>4. ASSUME p = x, ~unwinding, NEW i \in 1..Len(owned[x]) PROVE drops[owned[x][i]] > 0
      <4>1. walks[n].next = Len(owned[x]) + 1
        <5>1. walks[n].next \in Nat /\ walks[n].next > Len(owned[x])
          BY ONLY <1>1, <3>4
        <5>2. walks[n].next <= Len(owned[x]) + 1 /\ Len(owned[x]) \in Nat
          BY ONLY <1>7, <1>8, <3>1, <3>4
        <5> HIDE DEF x, n
        <5> QED BY ONLY <5>1, <5>2
      <4>2. drops[owned[x][Len(owned[x])]] > 0
        <5>1. walks[n].next > 1 /\ walks[n].next - 1 = Len(owned[x])
          BY ONLY <3>1, <3>4, <4>1, i \in 1..Len(owned[x])
        <5>2. walks[n].next > 1 => drops[owned[walks[n].of][walks[n].next - 1]] > 0
          BY ONLY <1>8
        <5> QED BY ONLY <1>7, <5>1, <5>2
      <4>3. Touched(owned[x][Len(owned[x])])
        BY ONLY <4>2 DEF Touched
      <4>4. Len(owned[x]) \in 1..Len(owned[p]) /\ (i # Len(owned[x]) => i \in 1..(Len(owned[x]) - 1))
        BY ONLY <3>1, <3>4, i \in 1..Len(owned[x])
      <4> QED BY ONLY <3>3, <3>4, <4>2, <4>3, <4>4
    <3>5. \A i \in 1..Len(owned[p]) :
                    drops'[owned[p][i]] > 0 \/ owned[p][i] \in Walked' => drops'[p] > 0 \/ p \in Walked'
      BY ONLY <1>9, <3>2, <3>3, p \in Value
    <3>6. ASSUME drops'[p] > 0, ~unwinding PROVE \A i \in 1..Len(owned[p]) : drops'[owned[p][i]] > 0
      <4>1. p # x => drops[p] > 0
        BY ONLY <1>1, <3>6, p \in Value
      <4>2. \A i \in 1..Len(owned[p]) : drops[owned[p][i]] > 0
        BY ONLY <3>3, <3>4, <3>6, <4>1
      <4> QED BY ONLY <1>10, <3>2, <4>2
    <3>7. \A j \in 1..Len(owned[p]) : \A i \in 1..(j - 1) :
                    drops'[owned[p][j]] > 0 \/ owned[p][j] \in Walked' => drops'[owned[p][i]] > 0
      BY ONLY <1>9, <1>10, <3>2, <3>3
    <3> QED BY <3>5, <3>6, <3>7
  <2> QED BY ONLY <1>1, <1>2, <2>1 DEF OrderInv, Touched
<1>14. ListInv'
  <2>1. Len(ListItems) \in Nat /\ \A i \in 1..Len(ListItems) : ListItems[i] \in Value
    BY ONLY <1>3
  <2>2. \A j \in 1..Len(ListItems) : \A i \in 1..(j - 1) : i \in 1..Len(ListItems)
    BY ONLY <2>1
  <2>3. \A j \in 1..Len(ListItems) : \A i \in 1..(j - 1) :
          drops'[ListItems[j]] > 0 \/ ListItems[j] \in Walked' => drops'[ListItems[i]] > 0
    BY ONLY <1>9, <1>10, <2>1, <2>2, ListInv DEF ListInv
  <2> QED BY ONLY <1>1, <1>2, <2>3, ListInv DEF ListInv, Touched
<1> QED BY <1>2, <1>11, <1>12, <1>13, <1>14

\* The walk of an NMetadata's list takes up its next item.
LEMMA OpenNextValue ==
  ASSUME TypeOK, NodesInv, WalksInv, OpenNext
  PROVE  LET n == Len(walks)
             x == walks[n].of
             m == walks[n].next
             h == owned[x][m] IN
         /\ n \in Nat \ {0} /\ x \in Value /\ x \in Walked /\ m \in Nat \ {0} /\ m \in 1..Len(owned[x])
         /\ h \in Value /\ h \in Hung /\ h \in Range(nodes)
         /\ ~Touched(h) /\ drops[h] = 0 /\ h \notin Walked
         /\ Walked' = Walked \cup {h}
         /\ Len(walks') = n + 1 /\ \A k \in 1..(n - 1) : walks'[k] = walks[k]
         /\ walks'[n].of = x /\ walks'[n].next = m + 1
         /\ walks'[n + 1].of = h /\ walks'[n + 1].next = 1
         /\ registered' = registered /\ unwinding' = unwinding /\ drops' = drops
<1> DEFINE n == Len(walks)
           x == walks[n].of
           m == walks[n].next
           h == owned[x][m]
<1>1. walks \in Seq(Frame) /\ drops \in [Value -> Nat] /\ owned \in [Value -> Seq(Value)]
  BY FrameAt, TypeParts
<1>2. /\ n \in Nat \ {0} /\ walks[n] \in Frame
      /\ m \in 1..Len(owned[x]) /\ h \in Value
      /\ Len(walks') = n + 1 /\ \A k \in 1..(n - 1) : walks'[k] = walks[k]
      /\ walks'[n] = [of |-> x, next |-> m + 1]
      /\ walks'[n + 1] = [of |-> h, next |-> 1]
      /\ registered' = registered /\ unwinding' = unwinding /\ drops' = drops
  BY <1>1, OpenNextEffect DEF Frame
<1>3. x \in Value /\ m \in Nat \ {0}
  BY <1>2 DEF Frame
<1>4. h \in Hung /\ h \in Range(nodes)
  BY <1>2, <1>3, Hanging
<1>5. n \in 1..Len(walks) /\ m \in m..Len(owned[x])
  BY <1>2
<1>6. ~Touched(h)
  BY <1>5 DEF WalksInv
<1>7. drops[h] = 0 /\ h \notin Walked
  <2>1. drops[h] \in Nat
    BY <1>1, <1>2
  <2> HIDE DEF h
  <2> QED BY ONLY <1>6, <2>1 DEF Touched
<1>8. /\ walks'[n].of = x /\ walks'[n].next = m + 1
      /\ walks'[n + 1].of = h /\ walks'[n + 1].next = 1
  BY ONLY <1>2
<1>9. Walked = { walks[k].of : k \in 1..n } /\ x = walks[n].of
  BY DEF Walked
<1>10. Walked' = { walks'[k].of : k \in 1..(n + 1) }
  BY <1>2 DEF Walked
<1> HIDE DEF n, x, m, h
<1>11. x \in Walked
  BY ONLY <1>2, <1>9
<1>12. Walked' = Walked \cup {h}
  BY ONLY <1>2, <1>8, <1>9, <1>10
<1> QED BY <1>2, <1>3, <1>4, <1>6, <1>7, <1>8, <1>11, <1>12 DEF n, x, m, h

\* The walk goes down to the next item: nothing is dropped yet.
LEMMA ValuesAfterOpenNext ==
  ASSUME TypeOK, ControlInv, SegmentsInv, PlaceInv, RegisteredInv, NodesInv, WalksInv, OrderInv, ListInv,
         ArenaStep, OpenNext
  PROVE  RegisteredInv' /\ NodesInv' /\ WalksInv' /\ OrderInv' /\ ListInv'
<1> DEFINE n == Len(walks)
           x == walks[n].of
           m == walks[n].next
           h == owned[x][m]
<1>1. /\ n \in Nat \ {0} /\ x \in Value /\ x \in Walked /\ m \in Nat \ {0} /\ m \in 1..Len(owned[x])
      /\ h \in Value /\ h \in Hung /\ h \in Range(nodes)
      /\ ~Touched(h) /\ drops[h] = 0 /\ h \notin Walked
      /\ Walked' = Walked \cup {h}
      /\ Len(walks') = n + 1 /\ \A k \in 1..(n - 1) : walks'[k] = walks[k]
      /\ walks'[n].of = x /\ walks'[n].next = m + 1
      /\ walks'[n + 1].of = h /\ walks'[n + 1].next = 1
      /\ registered' = registered /\ unwinding' = unwinding /\ drops' = drops
  BY OpenNextValue
<1>2. /\ nodes' = nodes /\ owned' = owned /\ ListItems' = ListItems /\ Hung' = Hung /\ Direct' = Direct
      /\ NodesInv'
  BY ArenaLeaves, NodesStay
<1>3. ListItems \in Seq(Value) /\ drops \in [Value -> Nat] /\ owned \in [Value -> Seq(Value)]
  BY ListSide, TypeParts
<1>4. n \in 1..Len(walks) /\ n = Len(walks) /\ x = walks[n].of /\ m = walks[n].next /\ h = owned[x][m]
  BY <1>1
<1>5. h \notin Range(ListItems) /\ h \notin Direct
  BY <1>1 DEF Direct, PlaceInv, Apart, Disjoint
<1>6. \A p \in Value : \A i \in 1..Len(owned[p]) : owned[p][i] = h => p = x /\ i = m
  BY <1>1, <1>4 DEF NodesInv
<1>7. \A i \in 1..Len(owned[h]) : owned[h][i] # h
  <2> SUFFICES ASSUME NEW i \in 1..Len(owned[h]), owned[h][i] = h PROVE FALSE
    OBVIOUS
  <2>1. owned[h] \in Seq(Value)
    BY <1>1, <1>3
  <2>2. h \in Range(owned[h])
    BY ONLY <2>1, InRange, i \in 1..Len(owned[h]), owned[h][i] = h
  <2>3. nodes \in Seq(Value) /\ Len(nodes) \in Nat
    BY TypeParts
  <2>4. PICK a \in 1..Len(nodes) : nodes[a] = h
    BY ONLY <1>1, <2>3, InRange
  <2>5. a < a
    BY <2>2, <2>4 DEF NodesInv
  <2> QED BY <2>3, <2>5
<1>8. /\ \A k \in 1..Len(walks) :
          /\ walks[k].of \in Value /\ walks[k].next \in Nat \ {0}
          /\ drops[walks[k].of] = 0
          /\ walks[k].of \in Range(nodes) \cup Range(ListItems)
          /\ walks[k].next <= Len(owned[walks[k].of]) + 1
          /\ k = 1 => walks[k].of \in Direct
          /\ k > 1 => /\ walks[k - 1].next > 1
                      /\ walks[k].of = owned[walks[k - 1].of][walks[k - 1].next - 1]
          /\ walks[k].next > 1 => Touched(owned[walks[k].of][walks[k].next - 1])
          /\ \A i \in walks[k].next..Len(owned[walks[k].of]) : ~Touched(owned[walks[k].of][i])
          /\ k = Len(walks) /\ walks[k].next > 1 => drops[owned[walks[k].of][walks[k].next - 1]] > 0
      /\ \A j, k \in 1..Len(walks) : walks[j].of = walks[k].of => j = k
  BY FrameAt DEF WalksInv
<1>9. \A p \in Value :
        /\ \A i \in 1..Len(owned[p]) : Touched(owned[p][i]) => Touched(p)
        /\ drops[p] > 0 /\ ~unwinding => \A i \in 1..Len(owned[p]) : drops[owned[p][i]] > 0
        /\ \A j \in 1..Len(owned[p]) : \A i \in 1..(j - 1) :
             Touched(owned[p][j]) => drops[owned[p][i]] > 0
  BY DEF OrderInv
<1> HIDE DEF n, x, m, h
<1>10. \A v : (drops[v] > 0 \/ v \in Walked') <=> Touched(v) \/ v = h
  BY ONLY <1>1 DEF Touched
<1>11. RegisteredInv'
  <2>1. \A v \in Direct : (drops[v] > 0 \/ v \in Walked') <=> Touched(v)
    BY ONLY <1>5, <1>10
  <2> QED BY ONLY <1>1, <1>2, <2>1, RegisteredInv DEF RegisteredInv, Touched
<1>12. ListInv'
  <2>1. \A j \in 1..Len(ListItems) : ListItems[j] # h
    BY ONLY <1>3, <1>5, InRange
  <2>2. \A j \in 1..Len(ListItems) : (drops[ListItems[j]] > 0 \/ ListItems[j] \in Walked') <=> Touched(ListItems[j])
    BY ONLY <1>10, <2>1
  <2> QED BY ONLY <1>1, <1>2, <2>2, ListInv DEF ListInv, Touched
<1>13. OrderInv'
  <2>1. ASSUME NEW p \in Value
        PROVE  /\ \A i \in 1..Len(owned[p]) :
                    drops[owned[p][i]] > 0 \/ owned[p][i] \in Walked' => drops[p] > 0 \/ p \in Walked'
               /\ drops[p] > 0 /\ ~unwinding => \A i \in 1..Len(owned[p]) : drops[owned[p][i]] > 0
               /\ \A j \in 1..Len(owned[p]) : \A i \in 1..(j - 1) :
                    drops[owned[p][j]] > 0 \/ owned[p][j] \in Walked' => drops[owned[p][i]] > 0
    <3>1. owned[p] \in Seq(Value) /\ Len(owned[p]) \in Nat
      BY <1>3
    <3>2. /\ \A i \in 1..Len(owned[p]) : Touched(owned[p][i]) => Touched(p)
          /\ drops[p] > 0 /\ ~unwinding => \A i \in 1..Len(owned[p]) : drops[owned[p][i]] > 0
          /\ \A j \in 1..Len(owned[p]) : \A i \in 1..(j - 1) :
               Touched(owned[p][j]) => drops[owned[p][i]] > 0
      BY ONLY <1>9, p \in Value
    <3>3. \A i \in 1..Len(owned[p]) :
            drops[owned[p][i]] > 0 \/ owned[p][i] \in Walked' => drops[p] > 0 \/ p \in Walked'
      <4>1. (drops[p] > 0 \/ p \in Walked') <=> Touched(p) \/ p = h
        BY ONLY <1>10
      <4>2. \A i \in 1..Len(owned[p]) :
              (drops[owned[p][i]] > 0 \/ owned[p][i] \in Walked') <=> Touched(owned[p][i]) \/ owned[p][i] = h
        BY ONLY <1>10
      <4>3. ASSUME NEW i \in 1..Len(owned[p]), Touched(owned[p][i]) \/ owned[p][i] = h
            PROVE  Touched(p) \/ p = h
        <5>1. CASE Touched(owned[p][i])
          BY ONLY <3>2, <5>1, i \in 1..Len(owned[p])
        <5>2. CASE owned[p][i] = h
          BY ONLY <1>1, <1>6, <5>2, i \in 1..Len(owned[p]), p \in Value DEF Touched
        <5> QED BY <4>3, <5>1, <5>2
      <4> QED BY ONLY <4>1, <4>2, <4>3
    <3>4. ASSUME p = x, NEW i \in 1..(m - 1) PROVE drops[owned[p][i]] > 0
      <4>1. m > 1 /\ m - 1 \in 1..Len(owned[p]) /\ (i # m - 1 => i \in 1..((m - 1) - 1))
        BY ONLY <1>1, <3>1, <3>4, i \in 1..(m - 1)
      <4>2. drops[owned[p][m - 1]] > 0
        BY ONLY <1>4, <1>8, <3>4, <4>1
      <4>3. Touched(owned[p][m - 1])
        BY ONLY <4>2 DEF Touched
      <4> QED BY ONLY <3>2, <4>1, <4>2, <4>3
    <3>5. ASSUME NEW j \in 1..Len(owned[p]), NEW i \in 1..(j - 1), Touched(owned[p][j]) \/ owned[p][j] = h
          PROVE  drops[owned[p][i]] > 0
      <4>1. CASE Touched(owned[p][j])
        BY ONLY <3>2, <4>1, j \in 1..Len(owned[p]), i \in 1..(j - 1)
      <4>2. CASE owned[p][j] = h
        <5>1. p = x /\ j = m
          BY ONLY <1>6, <4>2, j \in 1..Len(owned[p]), p \in Value
        <5> QED BY ONLY <3>4, <5>1, i \in 1..(j - 1)
      <4> QED BY <3>5, <4>1, <4>2
    <3> QED BY ONLY <1>10, <3>2, <3>3, <3>5
  <2> QED BY ONLY <1>1, <1>2, <2>1 DEF OrderInv, Touched
<1>14. WalksInv'
  <2>1. \A k \in 1..(n - 1) : k \in 1..Len(walks) /\ walks'[k] = walks[k] /\ k # n /\ (k > 1 => k - 1 \in 1..(n - 1))
    BY ONLY <1>1, <1>4
  <2> DEFINE R(k, w, u) ==
        /\ drops[w.of] = 0
        /\ w.of \in Range(nodes) \cup Range(ListItems)
        /\ w.next <= Len(owned[w.of]) + 1
        /\ k = 1 => w.of \in Direct
        /\ k > 1 => u.next > 1 /\ w.of = owned[u.of][u.next - 1]
        /\ w.next > 1 => drops[owned[w.of][w.next - 1]] > 0 \/ owned[w.of][w.next - 1] \in Walked'
        /\ \A i \in w.next..Len(owned[w.of]) : ~(drops[owned[w.of][i]] > 0 \/ owned[w.of][i] \in Walked')
        /\ k = n + 1 /\ w.next > 1 => drops[owned[w.of][w.next - 1]] > 0
  <2>2. ASSUME NEW k \in 1..(n - 1) PROVE R(k, walks'[k], walks'[k - 1])
    <3> DEFINE w == walks[k]
               u == walks[k - 1]
    <3>1. /\ w.of \in Value /\ w.next \in Nat \ {0}
          /\ drops[w.of] = 0
          /\ w.of \in Range(nodes) \cup Range(ListItems)
          /\ w.next <= Len(owned[w.of]) + 1
          /\ k = 1 => w.of \in Direct
          /\ k > 1 => u.next > 1 /\ w.of = owned[u.of][u.next - 1]
          /\ w.next > 1 => Touched(owned[w.of][w.next - 1])
          /\ \A i \in w.next..Len(owned[w.of]) : ~Touched(owned[w.of][i])
      BY ONLY <1>8, <2>1, k \in 1..(n - 1)
    <3>2. w.of # x
      BY ONLY <1>4, <1>8, <2>1, k \in 1..(n - 1)
    <3>3. Len(owned[w.of]) \in Nat
      BY ONLY <1>3, <3>1
    <3>4. walks'[k] = w /\ (k > 1 => walks'[k - 1] = u)
      BY ONLY <2>1, k \in 1..(n - 1)
    <3> HIDE DEF w, u
    <3>5. \A i \in w.next..Len(owned[w.of]) : i \in 1..Len(owned[w.of])
      BY ONLY <3>1, <3>3
    <3>6. \A i \in w.next..Len(owned[w.of]) : owned[w.of][i] # h
      BY ONLY <1>6, <3>1, <3>2, <3>5
    <3>7. k # n + 1
      BY ONLY <1>1, k \in 1..(n - 1)
    <3>8. \A i \in w.next..Len(owned[w.of]) : ~(drops[owned[w.of][i]] > 0 \/ owned[w.of][i] \in Walked')
      BY ONLY <1>10, <3>1, <3>6
    <3> QED BY ONLY <1>10, <3>1, <3>4, <3>7, <3>8
  <2>3. R(n, walks'[n], walks'[n - 1])
    <3>1. /\ drops[x] = 0
          /\ x \in Range(nodes) \cup Range(ListItems)
          /\ n = 1 => x \in Direct
          /\ n > 1 => walks[n - 1].next > 1 /\ x = owned[walks[n - 1].of][walks[n - 1].next - 1]
          /\ \A i \in m..Len(owned[x]) : ~Touched(owned[x][i])
      BY ONLY <1>4, <1>8
    <3>2. n > 1 => walks'[n - 1] = walks[n - 1]
      BY ONLY <1>1
    <3>3. Len(owned[x]) \in Nat
      BY ONLY <1>1, <1>3
    <3>4. m + 1 <= Len(owned[x]) + 1 /\ (m + 1) - 1 = m /\ n # n + 1
      BY ONLY <1>1, <3>3
    <3>5. \A i \in (m + 1)..Len(owned[x]) : i \in m..Len(owned[x]) /\ i \in 1..Len(owned[x]) /\ i # m
      BY ONLY <1>1, <3>3
    <3>6. \A i \in (m + 1)..Len(owned[x]) : ~(drops[owned[x][i]] > 0 \/ owned[x][i] \in Walked')
      BY ONLY <1>1, <1>6, <1>10, <3>1, <3>5
    <3>7. owned[x][(m + 1) - 1] \in Walked'
      BY ONLY <1>1, <1>4, <3>4
    <3>8. walks'[n].of = x /\ walks'[n].next = m + 1
      BY ONLY <1>1
    <3> QED BY ONLY <3>1, <3>2, <3>4, <3>6, <3>7, <3>8
  <2>4. R(n + 1, walks'[n + 1], walks'[n])
    <3>1. owned[h] \in Seq(Value) /\ Len(owned[h]) \in Nat
      BY ONLY <1>1, <1>3
    <3>2. \A i \in 1..Len(owned[h]) : ~Touched(owned[h][i])
      BY ONLY <1>1, <1>9
    <3>3. \A i \in 1..Len(owned[h]) : ~(drops[owned[h][i]] > 0 \/ owned[h][i] \in Walked')
      BY ONLY <1>7, <1>10, <3>2
    <3>4. walks'[n + 1].of = h /\ walks'[n + 1].next = 1 /\ walks'[n].of = x /\ walks'[n].next = m + 1
      BY ONLY <1>1
    <3>5. m + 1 > 1 /\ (m + 1) - 1 = m /\ 1 <= Len(owned[h]) + 1 /\ n + 1 # 1 /\ ~(1 > 1)
      BY ONLY <1>1, <3>1
    <3>6. drops[h] = 0 /\ h \in Range(nodes) /\ h = owned[x][m]
      BY ONLY <1>1, <1>4
    <3> QED BY ONLY <3>3, <3>4, <3>5, <3>6
  <2>5. \A k \in 1..Len(walks') : k \in 1..(n - 1) \/ k = n \/ (k = n + 1 /\ k - 1 = n)
    BY ONLY <1>1
  <2>6. \A k \in 1..Len(walks') : R(k, walks'[k], walks'[k - 1])
    <3> HIDE DEF R
    <3> QED BY ONLY <2>2, <2>3, <2>4, <2>5
  <2>7. ASSUME NEW j \in 1..Len(walks'), NEW k \in 1..Len(walks'), walks'[j].of = walks'[k].of PROVE j = k
    <3>1. \A i \in 1..n : walks'[i].of = walks[i].of /\ walks[i].of \in Walked
      <4>1. \A i \in 1..n : walks'[i].of = walks[i].of
        BY ONLY <1>1, <1>4
      <4> QED BY ONLY <1>4, <4>1 DEF Walked
    <3>2. \A i \in 1..Len(walks') : i \in 1..n \/ (i = n + 1 /\ walks'[i].of \notin Walked)
      BY ONLY <1>1
    <3> QED BY ONLY <1>4, <1>8, <2>7, <3>1, <3>2, j \in 1..Len(walks'), k \in 1..Len(walks')
  <2>8. \A k \in 1..Len(walks') : (k = Len(walks')) <=> (k = n + 1)
    BY ONLY <1>1
  <2> QED BY ONLY <1>1, <1>2, <2>6, <2>7, <2>8 DEF WalksInv, Touched, R
<1> QED BY <1>2, <1>11, <1>12, <1>13, <1>14

\* Every step keeps what is said of nodes, list items, chain and walks.
LEMMA ValueInvsKept ==
  ASSUME TypeOK, TypeOK', ControlInv, SegmentsInv, TableInv, PlaceInv, CellsInv, FixedInv,
         RegisteredInv, NodesInv, WalksInv, OrderInv, ListInv, [Next]_vars
  PROVE  RegisteredInv' /\ NodesInv' /\ WalksInv' /\ OrderInv' /\ ListInv'
<1>1. ASSUME ValuesKept
      PROVE  RegisteredInv' /\ NodesInv' /\ WalksInv' /\ OrderInv' /\ ListInv'
  BY <1>1, RegisteredStays, NodesStay, WalksStay, OrderStays, ListStays DEF ValuesKept
<1>2. ASSUME NEW v \in Value, NStep, NNew(v)
      PROVE  RegisteredInv' /\ NodesInv' /\ WalksInv' /\ OrderInv' /\ ListInv'
  BY <1>2, ValuesAfterNew
<1>3. ASSUME NEW v \in Value, NEW p \in Value, NStep, NOutlives(p, v)
      PROVE  RegisteredInv' /\ NodesInv' /\ WalksInv' /\ OrderInv' /\ ListInv'
  BY <1>3, ValuesAfterOutlives
<1>4. ASSUME NEW v \in Value, ListStep, ListPush(v), ListItems' = Append(ListItems, v)
      PROVE  RegisteredInv' /\ NodesInv' /\ WalksInv' /\ OrderInv' /\ ListInv'
  BY <1>4, ValuesAfterListPush
<1>5. ASSUME ArenaStep, StartValue \/ OpenNext \/ DropOwn
      PROVE  RegisteredInv' /\ NodesInv' /\ WalksInv' /\ OrderInv' /\ ListInv'
  BY <1>5, ValuesAfterStart, ValuesAfterOpenNext, ValuesAfterDropOwn
<1> QED BY <1>1, <1>2, <1>3, <1>4, <1>5, ValueSteps

-----------------------------------------------------------------------------
(* The two arrays, as seen from the other steps                            *)

\* The drop function of an array is registered when the array is made.
LEMMA Registers ==
  ASSUME TypeOK, [Next]_vars, NEW fn \in {"table", "fixed"}, Register(fn, None)
  PROVE  \/ fn = "table" /\ ArrayStep
         \/ fn = "fixed" /\ FixedStep
<1>1. registered \in Seq(Entries)
  BY RegisteredRow
<1>2. Entry(fn, None) \in Entries /\ \A v \in Value : Entry("value", v) \in Entries
  BY DEF Entry, Entries, DropFn
<1>3. registered' # registered
  BY <1>1, <1>2 DEF Register
<1>4. ~(registered # <<>> /\ registered' = Tail(registered))
  <2> SUFFICES ASSUME registered # <<>>, registered' = Tail(registered) PROVE FALSE
    OBVIOUS
  <2>1. Len(registered') = Len(registered) + 1
    <3>1. registered' = Append(registered, Entry(fn, None))
      BY DEF Register
    <3> QED BY ONLY <1>1, <1>2, <3>1
  <2>2. Len(registered') = Len(registered) - 1 /\ Len(registered) \in Nat
    BY <1>1, HeadAndTail
  <2> QED BY ONLY <2>1, <2>2
<1>5. ASSUME NEW gn \in DropFn, NEW u \in Value \cup {None}, Register(gn, u) PROVE gn = fn
  <2>1. Entry(gn, u) = Entry(fn, None)
    <3>1. Entry(gn, u) \in Entries
      BY DEF Entry, Entries
    <3>2. Append(registered, Entry(gn, u)) = Append(registered, Entry(fn, None))
      BY <1>5 DEF Register
    <3> HIDE DEF Entries
    <3> QED BY ONLY <1>1, <1>2, <3>1, <3>2
  <2> QED BY <2>1, EntryIs
<1>6. CASE NStep
  <2>1. \A v \in Value : ~NNew(v)
    BY <1>5 DEF NNew, DropFn
  <2>2. \A v \in Value : ~NRefused(v) /\ \A p \in Value : ~NOutlives(p, v)
    BY <1>3 DEF NRefused, Refuses, NOutlives, arenaVars
  <2> QED BY <1>6, <2>1, <2>2 DEF NStep
<1>7. CASE ListStep
  <2>1. \A v \in Value : ~ListPush(v)
    BY <1>5 DEF ListPush, DropFn
  <2>2. \A v \in Value : ~ListPushTooBig(v) /\ ~ListPushDead(v)
    BY <1>3 DEF ListPushTooBig, ListPushDead, Refuses, arenaVars
  <2>3. \A fits : ~ListNew(fits)
    BY <1>3 DEF ListNew, tenantVars, arenaVars
  <2> QED BY <1>7, <2>1, <2>2, <2>3 DEF ListStep
<1>8. CASE ArrayStep
  <2>1. CASE fn = "table"
    BY <1>8, <2>1
  <2>2. CASE fn # "table"
    <3>1. \A cap, fits : ~ArrayNew(cap, fits)
      BY <1>5, <2>2 DEF ArrayNew, DropFn
    <3>2. ~ArrayPop /\ \A v \in Value : ~ArrayPush(v) /\ ~ArrayPushFails(v) /\ ~ArrayPushDead(v)
      BY <1>3 DEF ArrayPop, ArrayPush, ArrayPushFails, ArrayPushDead, Refuses, Panics, arenaVars
    <3>3. ~StartTable
      BY <1>4 DEF StartTable, Enter
    <3> QED BY <1>8, <3>1, <3>2, <3>3 DEF ArrayStep
  <2> QED BY <2>1, <2>2
<1>9. CASE FixedStep
  <2>1. CASE fn = "fixed"
    BY <1>9, <2>1
  <2>2. CASE fn # "fixed"
    <3>1. \A cap : ~FixedReserve(cap)
      BY <1>5, <2>2 DEF FixedReserve, DropFn
    <3>2. \A src, vs : ~FixedNew(src, vs) /\ ~FixedNewTooBig(src, vs)
      BY <1>5, <2>2 DEF FixedNew, FixedNewTooBig, DropFn
    <3>3. ~FixedDone /\ ~WriteNull /\ ~EndFixed
      BY <1>3 DEF FixedDone, WriteNull, EndFixed, EndEntry, tenantVars, arenaVars
    <3>4. \A v \in Value : ~InitPush(v) /\ ~InitPushIgnored(v)
      BY <1>3 DEF InitPush, InitPushIgnored, Refuses, arenaVars
    <3>5. \A vs : ~FillByC(vs)
      BY <1>3 DEF FillByC, arenaVars
    <3>6. ~StartFixed
      BY <1>4 DEF StartFixed, Enter
    <3> QED BY <1>9, <3>1, <3>2, <3>3, <3>4, <3>5, <3>6, Zenon DEF FixedStep
  <2> QED BY <2>1, <2>2
<1>10. CASE TextStep \/ UNCHANGED vars
  BY <1>3, <1>10 DEF TextStep, UStrNew, vars, tenantVars, arenaVars
<1>11. CASE ArenaStep
  <2>1. ~StartValue
    <3> SUFFICES ASSUME NEW v \in Value, Enter(Entry("value", v), <<>>, <<Walk(v)>>) PROVE FALSE
      BY DEF StartValue
    <3> QED BY <1>4 DEF Enter
  <2>2. ~DropArena /\ ~OpenNext /\ ~DropOwn /\ ~DropHead /\ ~DropReturn /\ ~DropPanic /\ ~EndUnwind /\ ~FinishChain
    BY <1>3 DEF DropArena, OpenNext, DropOwn, DropHead, DropReturn, DropPanic, Panics, EndUnwind,
       FinishChain
  <2>3. \A gn : ~EndEntry(gn)
    BY <1>3 DEF EndEntry
  <2> QED BY <1>11, <2>1, <2>2, <2>3, Zenon DEF ArenaStep
<1> QED BY <1>6, <1>7, <1>8, <1>9, <1>10, <1>11, StepKinds

\* What an array's drop function is going to drop.
Mine(fn) == IF fn = "table" THEN Range(ArrayItems) ELSE Held

\* A step that is none of this array's.
SideKept(fn) ==
  /\ Entry(fn, None) \in Range(registered') <=> Entry(fn, None) \in Range(registered)
  /\ running' = fn => running = fn
  /\ running = fn /\ ~unwinding' => running' = fn /\ todo' = todo
  /\ unwinding => unwinding'
  /\ phase' = "alive" => phase = "alive"
  /\ \A v \in Mine(fn) : drops'[v] = drops[v]
  /\ running = fn /\ busy = None => busy' = None /\ unwinding' = unwinding
  /\ fault = "garbage dropped" => fault' = fault

\* An array's items are no nodes and no list items.
LEMMA MineApart ==
  ASSUME TypeOK, SegmentsInv, TableInv, PlaceInv, NEW fn \in {"table", "fixed"}
  PROVE  /\ Mine(fn) \subseteq Value
         /\ \A v \in Mine(fn) : v \notin outside /\ v \notin Range(nodes) /\ v \notin Range(ListItems)
  BY PlacesTyped DEF Mine, PlaceInv, Apart, Disjoint

\* A call to another collection is none of this array's.
LEMMA SideOfCall ==
  ASSUME TypeOK, SegmentsInv, TableInv, PlaceInv, NEW fn \in {"table", "fixed"},
         registered' = registered, phase' = phase, running' = running,
         unwinding => unwinding', ~unwinding' => todo' = todo,
         busy = None => busy' = None /\ unwinding' = unwinding, fault = "garbage dropped" => fault' = fault,
         \A v \in Value : v \notin outside => drops'[v] = drops[v]
  PROVE  SideKept(fn)
BY MineApart DEF SideKept

\* What DropHead drops belongs to the array whose drop function runs.
LEMMA DropHeadSide ==
  ASSUME TypeOK, ControlInv, SegmentsInv, TableInv, PlaceInv, CellsInv, FixedInv, DropHead, todo[1] \in Value,
         NEW fn \in {"table", "fixed"}, running # fn
  PROVE  todo[1] \notin Mine(fn)
<1>1. Range(ArrayItems) \cap Held = {}
  BY DEF PlaceInv, Apart, Disjoint
<1> QED BY <1>1, DropHeadItem DEF Mine

\* A drop function is entered, and it is not this one.
LEMMA SideOfEnter ==
  ASSUME TypeOK, ControlInv, RegisteredInv, NEW fn \in {"table", "fixed"}, NEW gn \in DropFn, NEW u, gn # fn,
         NEW items, NEW walk, Enter(Entry(gn, u), items, walk)
  PROVE  SideKept(fn)
<1>1. /\ registered # <<>> /\ Head(registered) = Entry(gn, u) /\ registered' = Tail(registered)
      /\ running = None /\ running' = Entry(gn, u).fn /\ UNCHANGED <<phase, unwinding, drops, busy, fault>>
  BY Zenon DEF Enter, Between
<1>2. registered \in Seq(Entries) /\ IsInjective(registered)
  BY RegisteredRow DEF RegisteredInv
<1>3. Range(registered') = Range(registered) \ {registered[1]} /\ registered[1] = Head(registered)
  BY ONLY <1>1, <1>2, TailOfInjective
<1>4. Entry(fn, None) # Entry(gn, u) /\ Entry(gn, u).fn = gn
  BY DEF Entry
<1>5. Entry(fn, None) \in Range(registered') <=> Entry(fn, None) \in Range(registered)
  BY ONLY <1>1, <1>3, <1>4
<1>6. running # fn
  BY <1>1, TenantsAssumption DEF DropFn
<1> QED BY <1>1, <1>4, <1>5, <1>6 DEF SideKept

\* A step of the arena's end is this array's own only if it drops its item or
\* ends its drop function.
LEMMA SideOfArena ==
  ASSUME TypeOK, ControlInv, SegmentsInv, TableInv, PlaceInv, CellsInv, FixedInv, RegisteredInv, WalksInv,
         NEW fn \in {"table", "fixed"}, ArenaStep
  PROVE  SideKept(fn) \/ EndEntry(fn) \/ (DropHead /\ running = fn)
<1>1. drops \in [Value -> Nat] /\ todo \in Seq(Value \cup {Garbage}) /\ None \notin DropFn
  BY TypeParts, TenantParts, TenantsAssumption
<1>2. CASE StartValue
  BY <1>2, SideOfEnter DEF StartValue, DropFn
<1>3. CASE DropArena \/ DropReturn \/ OpenNext \/ FinishChain \/ EndUnwind \/ DropPanic
  <2>1. /\ registered' = registered /\ drops' = drops /\ (unwinding => unwinding') /\ (phase' = "alive" => phase = "alive")
        /\ ~unwinding' => todo' = todo
        /\ running' = running \/ (running' = None /\ unwinding')
        /\ fault' = fault /\ (busy = None => busy' = None /\ unwinding' = unwinding)
    BY <1>3, TenantsAssumption DEF DropArena, DropReturn, OpenNext, FinishChain, EndUnwind,
       DropPanic, Panics
  <2> QED BY <1>1, <2>1 DEF SideKept, DropFn
<1>4. CASE DropOwn
  <2>1. /\ UNCHANGED <<phase, registered, running, todo, unwinding, fault>>
        /\ running # fn
        /\ \A v \in Value : drops'[v] = IF v = walks[Len(walks)].of THEN 1 ELSE drops[v]
        /\ Len(walks) \in Nat \ {0}
    BY <1>4, DropOwnValue DEF DropOwn, ControlInv
  <2>2. walks[Len(walks)].of \in Range(nodes) \cup Range(ListItems)
    BY <2>1 DEF WalksInv
  <2>3. \A v \in Mine(fn) : drops'[v] = drops[v]
    BY <2>1, <2>2, MineApart
  <2> QED BY <2>1, <2>3 DEF SideKept
<1>5. CASE DropHead /\ running # fn
  <2>1. UNCHANGED <<phase, registered, running, unwinding>> /\ fault = "none"
    BY <1>5 DEF DropHead, Inside
  <2>2. drops' = drops \/ (todo[1] \in Value /\ \A v \in Value : drops'[v] = IF v = todo[1] THEN drops[v] + 1 ELSE drops[v])
    BY <1>1, <1>5, DropHeadEffect
  <2>3. todo[1] \in Value => todo[1] \notin Mine(fn)
    BY <1>5, DropHeadSide
  <2>4. \A v \in Mine(fn) : drops'[v] = drops[v]
    BY <2>2, <2>3, MineApart
  <2> QED BY <1>5, <2>1, <2>4 DEF SideKept
<1>6. ASSUME NEW gn \in {"value", "table"}, EndEntry(gn), gn # fn PROVE SideKept(fn)
  <2>1. UNCHANGED <<registered, phase, unwinding, drops, fault, busy>> /\ running = gn /\ running' = None
    BY <1>6 DEF EndEntry
  <2> QED BY <1>1, <1>6, <2>1 DEF SideKept, DropFn
<1> QED BY <1>2, <1>3, <1>4, <1>5, <1>6 DEF ArenaStep

\* The steps that are one array's own.
LEMMA Sides ==
  ASSUME TypeOK, ControlInv, SegmentsInv, TableInv, PlaceInv, CellsInv, FixedInv, RegisteredInv, WalksInv,
         NEW fn \in {"table", "fixed"}, [Next]_vars
  PROVE  \/ SideKept(fn)
         \/ Register(fn, None)
         \/ ArrayStep /\ fn = "table"
         \/ FixedStep /\ fn = "fixed"
         \/ ArenaStep /\ (EndEntry(fn) \/ (DropHead /\ running = fn))
<1>1. CASE Call
  <2>1. /\ UNCHANGED <<phase, running, todo, unwinding, busy>> /\ \A v \in Value : v \notin outside => drops'[v] = drops[v]
        /\ fault = "garbage dropped" => fault' = fault
    BY <1>1 DEF Call
  <2>2. CASE registered' = registered
    BY <2>1, <2>2, SideOfCall
  <2>3. ASSUME NEW gn \in DropFn, NEW u \in Value \cup {None}, Register(gn, u), ~Register(fn, None)
        PROVE  SideKept(fn)
    <3>1. registered' = Append(registered, Entry(gn, u)) /\ Entry(fn, None) # Entry(gn, u)
      BY <2>3 DEF Register
    <3>2. registered \in Seq(Entries) /\ Entry(gn, u) \in Entries
      BY RegisteredRow DEF Entry, Entries
    <3>3. Range(registered') = Range(registered) \cup {Entry(gn, u)}
      BY ONLY <3>1, <3>2, RangeAppended
    <3>4. Entry(fn, None) \in Range(registered') <=> Entry(fn, None) \in Range(registered)
      BY ONLY <3>1, <3>3
    <3> QED BY <2>1, <3>4, MineApart DEF SideKept
  <2> QED BY <1>1, <2>2, <2>3 DEF Call
<1>2. CASE ArrayStep /\ CallPanics
  <2>1. /\ registered' = registered /\ phase' = phase /\ running' = running /\ unwinding' = TRUE
        /\ \A v \in Value : v \notin outside => drops'[v] = drops[v]
        /\ busy # None /\ fault' = fault
    BY <1>2 DEF CallPanics, Panics
  <2> QED BY <2>1, SideOfCall
<1>3. CASE ArrayStep /\ StartTable
  <2>1. fn # "table" => SideKept(fn)
    BY <1>3, SideOfEnter DEF StartTable, DropFn
  <2> QED BY <1>3, <2>1
<1>4. CASE FixedStep /\ StartFixed
  <2>1. fn # "fixed" => SideKept(fn)
    BY <1>4, SideOfEnter DEF StartFixed, DropFn
  <2> QED BY <1>4, <2>1
<1>5. CASE FixedStep /\ EndFixed
  <2>1. UNCHANGED <<registered, phase, unwinding, drops, fault, busy>> /\ running = "fixed" /\ running' = None
    BY <1>5 DEF EndFixed, EndEntry
  <2>2. fn # "fixed" => SideKept(fn)
    BY <2>1, TenantsAssumption DEF SideKept, DropFn
  <2> QED BY <1>5, <2>2
<1>6. CASE ArenaStep
  BY <1>6, SideOfArena
<1> QED BY <1>1, <1>2, <1>3, <1>4, <1>5, <1>6, CallKinds

-----------------------------------------------------------------------------
(* The table of a growable array                                           *)

\* The items of such a sequence by their places.
LEMMA Differ ==
  ASSUME NEW S, NEW s \in Seq(S)
  PROVE  IsInjective(s) <=> \A i, j \in 1..Len(s) : s[i] = s[j] => i = j
BY DEF IsInjective

\* The clauses of TableInv on the next state, from what the step does.
LEMMA TableStays ==
  ASSUME TypeOK, TableInv, SideKept("table"), arrStage' = arrStage, arrLen' = arrLen, ArrayItems' = ArrayItems,
         ptrs' = ptrs \/ (running # "table" /\ arrStage # "none"), \A i \in 1..arrLen : ptrs'[i] = ptrs[i]
  PROVE  TableInv'
<1>1. /\ TableWaits' <=> TableWaits
      /\ running' = "table" => running = "table"
      /\ running = "table" /\ ~unwinding' => running' = "table" /\ todo' = todo
      /\ unwinding => unwinding'
      /\ phase' = "alive" => phase = "alive"
      /\ \A v \in Range(ArrayItems) : drops'[v] = drops[v]
  BY DEF SideKept, TableWaits, Mine
<1>2. ArrayItems \in Seq(Value) /\ Len(ArrayItems) = arrLen /\ \A i \in 1..arrLen : ArrayItems[i] = ptrs[i]
  BY ArraySide
<1>3. \A i \in 1..arrLen : ptrs[i] \in Range(ArrayItems)
  BY ONLY <1>2, InRange
<1>4. \A i \in 1..arrLen : ptrs'[i] = ptrs[i] /\ drops'[ptrs[i]] = drops[ptrs[i]]
  BY ONLY <1>1, <1>3, \A i \in 1..arrLen : ptrs'[i] = ptrs[i]
<1> QED BY ONLY <1>1, <1>4, TableInv, arrStage' = arrStage, arrLen' = arrLen,
           ArrayItems' = ArrayItems,
           ptrs' = ptrs \/ (running # "table" /\ arrStage # "none") DEF TableInv

\* While the arena lives no drop function runs.
LEMMA TableAlive ==
  ASSUME ControlInv, IsAlive
  PROVE  running = None /\ running # "table" /\ running # "fixed" /\ ~unwinding /\ phase = "alive"
BY TenantsAssumption DEF ControlInv, IsAlive, DropFn

\* The steps of Array keep TableInv.
LEMMA TableKeptByArray ==
  ASSUME TypeOK, ControlInv, SegmentsInv, TableInv, PlaceInv, RegisteredInv, ArrayStep
  PROVE  TableInv'
<1>1. /\ ArrayItems \in Seq(Value) /\ Len(ArrayItems) = arrLen /\ arrLen \in Nat /\ drops \in [Value -> Nat]
      /\ \A i \in 1..arrLen : ArrayItems[i] = ptrs[i] /\ ptrs[i] \in Value
      /\ IsInjective(ArrayItems)
  BY ArraySide, TypeParts
<1>2. ASSUME NEW cap \in AskedCaps, NEW fits \in BOOLEAN, ArrayNew(cap, fits) PROVE TableInv'
  <2>1. /\ IsAlive /\ Register("table", None) /\ arrStage' # "none"
        /\ UNCHANGED <<phase, running, todo, unwinding, drops>>
    BY <1>2 DEF ArrayNew
  <2>2. arrLen' = 0 /\ ArrayItems' = <<>>
    BY <1>2, ArrayNewEffect
  <2>3. TableWaits'
    <3>1. registered \in Seq(Entries) /\ Entry("table", None) \in Entries
      BY RegisteredRow DEF Entry, Entries, DropFn
    <3>2. registered' = Append(registered, Entry("table", None))
      BY <2>1 DEF Register
    <3>3. Range(registered') = Range(registered) \cup {Entry("table", None)}
      BY ONLY <3>1, <3>2, RangeAppended
    <3> QED BY <3>3 DEF TableWaits
  <2>4. IsInjective(ArrayItems')
    BY <2>2 DEF IsInjective
  <2>5. running' # "table" /\ ~unwinding'
    BY <2>1, TableAlive
  <2> QED BY ONLY <2>1, <2>2, <2>3, <2>4, <2>5 DEF TableInv
<1>3. ASSUME NEW v \in Value, ArrayPush(v) PROVE TableInv'
  <2>1. /\ IsAlive /\ arrStage = "open" /\ v \in outside /\ drops' = drops
        /\ UNCHANGED <<phase, registered, running, todo, unwinding>>
    BY <1>3 DEF ArrayPush, Takes, arenaVars
  <2>2. /\ ArrayItems' = Append(ArrayItems, v) /\ arrLen' = arrLen + 1 /\ arrStage' = arrStage
        /\ (\A i \in 1..arrLen : ptrs'[i] = ptrs[i]) /\ ptrs'[arrLen + 1] = v
    BY <1>3, ArrayPushEffect
  <2>3. v \notin Range(ArrayItems) /\ drops[v] = 0
    BY <2>1 DEF PlaceInv, Apart, Disjoint
  <2>4. IsInjective(ArrayItems')
    BY ONLY <1>1, <2>2, <2>3, v \in Value, AppendFresh
  <2>5. TableWaits /\ running # "table" /\ ~unwinding
    BY <2>1, TableAlive DEF TableInv
  <2>6. TableWaits'
    BY <2>1, <2>5 DEF TableWaits
  <2>7. \A i \in 1..arrLen : drops[ptrs[i]] = 0
    BY <2>5 DEF TableInv
  <2>8. \A i \in 1..(arrLen + 1) : ptrs'[i] \in Value /\ drops[ptrs'[i]] = 0
    BY ONLY <1>1, <2>2, <2>3, <2>7, v \in Value
  <2> QED BY ONLY <2>1, <2>2, <2>4, <2>5, <2>6, <2>8 DEF TableInv
<1>4. ASSUME ArrayPop PROVE TableInv'
  <2>1. /\ IsAlive /\ arrStage = "open" /\ drops' = drops
        /\ UNCHANGED <<phase, registered, running, todo, unwinding>>
    BY <1>4 DEF ArrayPop, arenaVars
  <2>2. /\ ArrayItems' = Front(ArrayItems) /\ ArrayItems # <<>>
        /\ arrLen' = arrLen - 1 /\ UNCHANGED <<ptrs, arrStage>>
    BY <1>4, ArrayPopEffect
  <2>3. IsInjective(ArrayItems')
    BY ONLY <1>1, <2>2, FrontOfInjective
  <2>4. TableWaits /\ running # "table" /\ ~unwinding
    BY <2>1, TableAlive DEF TableInv
  <2>5. TableWaits'
    BY <2>1, <2>4 DEF TableWaits
  <2>6. \A i \in 1..arrLen : drops[ptrs[i]] = 0
    BY <2>4 DEF TableInv
  <2>7. \A i \in 1..(arrLen - 1) : ptrs[i] \in Value /\ drops[ptrs[i]] = 0
    BY ONLY <1>1, <2>6
  <2> QED BY ONLY <2>1, <2>2, <2>3, <2>4, <2>5, <2>7 DEF TableInv
<1>5. ASSUME NEW v \in Value, ArrayPushFails(v) PROVE TableInv'
  <2>1. IsAlive /\ arrStage = "open" /\ Refuses({v})
    BY <1>5 DEF ArrayPushFails
  <2>2. /\ ArrayItems' = ArrayItems /\ UNCHANGED <<arrStage, arrLen>>
        /\ \A i \in 1..arrLen : ptrs'[i] = ptrs[i]
    BY <1>5, ArrayPushFailsEffect
  <2>3. SideKept("table")
    <3>1. UNCHANGED <<phase, registered, running, todo, unwinding, busy, fault>> /\ DropsAll({v})
      BY <2>1 DEF Refuses, arenaVars
    <3> QED BY <3>1, RefusalKeeps, SideOfCall
  <2>4. running # "table"
    BY <2>1, TableAlive
  <2> QED BY <2>1, <2>2, <2>3, <2>4, TableStays
<1>6. ASSUME NEW v \in Value, ArrayPushDead(v) PROVE TableInv'
  <2>1. UNCHANGED arrVars
    BY <1>6 DEF ArrayPushDead
  <2>2. /\ UNCHANGED <<phase, registered, running, fault>> /\ (busy = None => busy' = None /\ unwinding' = unwinding)
        /\ (unwinding => unwinding') /\ (~unwinding' => todo' = todo)
        /\ DropsAll({v})
    BY <1>6 DEF ArrayPushDead, Refuses, Panics, arenaVars
  <2>3. SideKept("table")
    BY <2>2, RefusalKeeps, SideOfCall
  <2> QED BY <2>1, <2>3, ArrayUntouched, TableStays DEF arrVars
<1>7. ASSUME StartTable PROVE TableInv'
  <2>1. /\ registered # <<>> /\ Head(registered) = Entry("table", None) /\ registered' = Tail(registered)
        /\ running' = Entry("table", None).fn /\ todo' = SubSeq(ptrs, 1, arrLen)
        /\ phase = "dying" /\ UNCHANGED <<phase, unwinding, drops>> /\ UNCHANGED arrVars
    BY <1>7, Zenon DEF StartTable, Enter, Between
  <2>2. registered \in Seq(Entries) /\ IsInjective(registered)
    BY RegisteredRow DEF RegisteredInv
  <2>3. /\ Range(registered') = Range(registered) \ {registered[1]} /\ registered[1] = Head(registered)
        /\ registered[1] \in Range(registered)
    BY ONLY <2>1, <2>2, TailOfInjective
  <2>4. TableWaits /\ ~TableWaits'
    BY <2>1, <2>3 DEF TableWaits
  <2>5. running' = "table" /\ arrStage # "none"
    BY <2>1, <2>4 DEF Entry, TableInv
  <2>6. ArrayItems' = ArrayItems /\ UNCHANGED <<ptrs, arrLen, arrStage>>
    BY <2>1, ArrayUntouched DEF arrVars
  <2>7. Len(todo') = arrLen /\ arrLen - Len(todo') + 1 = 1
    <3>1. todo' = ArrayItems
      BY <2>1 DEF ArrayItems
    <3> QED BY ONLY <1>1, <3>1
  <2>8. \A i \in 1..arrLen : drops[ptrs[i]] = 0
    BY <2>4 DEF TableInv
  <2>9. \A i \in 1..arrLen : ~(i <= arrLen - Len(todo'))
    BY ONLY <1>1, <2>7
  <2>10. running' = "table" /\ ~unwinding' =>
       /\ Len(todo') <= arrLen
       /\ todo' = SubSeq(ptrs, arrLen - Len(todo') + 1, arrLen)
       /\ \A i \in 1..arrLen : drops[ptrs[i]] = IF i <= arrLen - Len(todo') THEN 1 ELSE 0
    BY ONLY <1>1, <2>1, <2>7, <2>8, <2>9
  <2> QED BY ONLY <1>1, <2>1, <2>4, <2>5, <2>6, <2>8, <2>10, TableInv DEF TableInv
<1> QED BY <1>2, <1>3, <1>4, <1>5, <1>6, <1>7 DEF ArrayStep

\* drop_growable_array goes on to the next item.
LEMMA TableAfterDrop ==
  ASSUME TypeOK, ControlInv, SegmentsInv, TableInv, CellsInv, FixedInv, DropHead, running = "table", UNCHANGED arrVars
  PROVE  TableInv'
<1>1. /\ ArrayItems \in Seq(Value) /\ Len(ArrayItems) = arrLen /\ arrLen \in Nat
      /\ \A i \in 1..arrLen : ArrayItems[i] = ptrs[i] /\ ptrs[i] \in Value
      /\ IsInjective(ArrayItems)
  BY ArraySide
<1> DEFINE k == arrLen - Len(todo) + 1
<1>2. /\ ~unwinding /\ Len(todo') \in Nat /\ Len(todo) \in Nat /\ Len(todo) <= arrLen
      /\ k \in 1..arrLen /\ todo[1] = ptrs[k] /\ arrLen - Len(todo') = k
      /\ todo' = SubSeq(ptrs, arrLen - Len(todo') + 1, arrLen)
      /\ drops \in [Value -> Nat] /\ todo \in Seq(Value \cup {Garbage})
  BY DropHeadPlace
<1>3. UNCHANGED <<registered, running, unwinding, phase>>
  BY DEF DropHead
<1>4. \A v \in Value : drops'[v] = IF v = ptrs[k] THEN drops[v] + 1 ELSE drops[v]
  <2>1. ptrs[k] \in Value
    BY <1>1, <1>2
  <2>2. todo[1] # Garbage
    BY <1>2, <2>1, TenantsAssumption
  <2> QED BY <1>2, <2>2, DropHeadEffect
<1>5. arrLen - Len(todo) = k - 1
  BY ONLY <1>1, <1>2
<1> HIDE DEF k
<1>6. \A i \in 1..arrLen : drops[ptrs[i]] = IF i <= k - 1 THEN 1 ELSE 0
  <2>1. \A i \in 1..arrLen : drops[ptrs[i]] = IF i <= arrLen - Len(todo) THEN 1 ELSE 0
    BY <1>2 DEF TableInv
  <2> QED BY ONLY <1>5, <2>1
<1>7. \A i \in 1..arrLen : ptrs[i] = ptrs[k] => i = k
  <2>1. \A i \in 1..arrLen : ArrayItems[i] = ArrayItems[k] => i = k
    BY ONLY <1>1, <1>2, Differ
  <2> QED BY ONLY <1>1, <1>2, <2>1
<1>8. \A i \in 1..arrLen : drops'[ptrs[i]] = IF i <= k THEN 1 ELSE 0
  BY ONLY <1>1, <1>2, <1>4, <1>6, <1>7
<1>9. \A i \in 1..arrLen : drops'[ptrs[i]] = IF i <= arrLen - Len(todo') THEN 1 ELSE 0
  BY ONLY <1>2, <1>8
<1>10. ~TableWaits /\ arrStage # "none"
  BY DEF TableInv
<1>11. ArrayItems' = ArrayItems /\ UNCHANGED <<ptrs, arrLen, arrStage>> /\ ~TableWaits'
  BY <1>3, <1>10, ArrayUntouched DEF arrVars, TableWaits
<1>12. Len(todo') <= arrLen
  BY ONLY <1>1, <1>2
<1>13. phase' # "alive"
  BY <1>3, TenantsAssumption DEF DropHead, Inside
<1>14. \A i \in 1..arrLen : ptrs[i] \in Value /\ drops'[ptrs[i]] \in {0, 1}
  BY ONLY <1>1, <1>8
<1> QED BY ONLY <1>1, <1>2, <1>3, <1>9, <1>10, <1>11, <1>12, <1>13, <1>14, running = "table"
           DEF TableInv

\* Every step does.
LEMMA TableKept ==
  ASSUME TypeOK, ControlInv, SegmentsInv, TableInv, PlaceInv, CellsInv, FixedInv, RegisteredInv, WalksInv,
         [Next]_vars
  PROVE  TableInv'
<1>1. CASE ArrayStep
  BY <1>1, TableKeptByArray
<1>2. CASE ~ArrayStep
  <2>1. UNCHANGED arrVars
    BY <1>2, StepKinds DEF NStep, OnlyN, ListStep, OnlyList, FixedStep, OnlyFixed, TextStep,
       OnlyText,
         ArenaStep, OnlyArena, vars
  <2>2. ArrayItems' = ArrayItems /\ UNCHANGED <<ptrs, arrLen, arrStage>>
    BY <2>1, ArrayUntouched DEF arrVars
  <2>3. ~Register("table", None)
    BY <1>2, Registers
  <2>4. CASE SideKept("table")
    BY <2>2, <2>4, TableStays
  <2>5. CASE DropHead /\ running = "table"
    BY <2>1, <2>5, TableAfterDrop
  <2>6. CASE EndEntry("table")
    <3>1. /\ phase = "dying" /\ running = "table" /\ todo = <<>> /\ ~unwinding /\ running' = None
          /\ UNCHANGED <<phase, registered, todo, unwinding, drops>>
      BY <2>6 DEF EndEntry, Inside
    <3>2. ~TableWaits /\ arrStage # "none" /\ ~TableWaits'
      BY <3>1 DEF TableInv, TableWaits
    <3>3. arrLen \in Nat /\ Len(todo) = 0
      BY <3>1, ArraySide
    <3>4. \A i \in 1..arrLen : drops[ptrs[i]] = IF i <= arrLen - Len(todo) THEN 1 ELSE 0
      BY <3>1 DEF TableInv
    <3>5. \A i \in 1..arrLen : drops[ptrs[i]] = 1
      BY ONLY <3>3, <3>4
    <3>6. running' # "table"
      BY <3>1, TenantsAssumption DEF DropFn
    <3> QED BY ONLY <2>2, <3>1, <3>2, <3>5, <3>6, TableInv DEF TableInv
  <2> QED BY <1>2, <2>3, <2>4, <2>5, <2>6, Sides
<1> QED BY <1>1, <1>2

-----------------------------------------------------------------------------
(* The region of a fixed array                                             *)

\* The values in the region, and what the drop counts of them depend on.
LEMMA RegionValues ==
  ASSUME TypeOK
  PROVE  /\ cells \in Seq(Value \cup {Garbage}) /\ Len(cells) \in Nat /\ initLen \in 0..Len(cells) /\ fixLen \in Nat
         /\ drops \in [Value -> Nat] /\ fixData \in BOOLEAN
         /\ \A k \in 1..Len(cells) : cells[k] \in Value => cells[k] \in Held
         /\ \A k \in 1..Len(cells) : cells[k] \in Value \/ cells[k] = Garbage
         /\ Count \in 0..Len(cells) /\ Garbage \notin Value
<1>1. /\ cells \in Seq(Value \cup {Garbage}) /\ Len(cells) \in Nat /\ initLen \in 0..Len(cells)
      /\ drops \in [Value -> Nat] /\ fixLen \in Nat /\ fixData \in BOOLEAN
  BY TypeParts DEF FixedTypeOK
<1>2. \A k \in 1..Len(cells) : cells[k] \in Value => cells[k] \in Held
  BY ONLY <1>1, HeldCells DEF Held
<1>3. \A k \in 1..Len(cells) : cells[k] \in Value \/ cells[k] = Garbage
  BY ONLY <1>1
<1>4. Count \in 0..Len(cells)
  BY ONLY <1>1 DEF Count, Room
<1> QED BY <1>1, <1>2, <1>3, <1>4, TenantsAssumption

\* A step that is none of the fixed array's keeps its two invariants.
LEMMA FixedStays ==
  ASSUME TypeOK, CellsInv, FixedInv, SideKept("fixed"), UNCHANGED fixVars
  PROVE  CellsInv' /\ FixedInv'
<1>1. /\ FixedWaits' <=> FixedWaits
      /\ running' = "fixed" => running = "fixed"
      /\ running = "fixed" /\ ~unwinding' => running' = "fixed" /\ todo' = todo
      /\ unwinding => unwinding'
      /\ phase' = "alive" => phase = "alive"
      /\ \A v \in Held : drops'[v] = drops[v]
      /\ running = "fixed" /\ busy = None => busy' = None /\ unwinding' = unwinding
      /\ fault = "garbage dropped" => fault' = fault
  BY DEF SideKept, FixedWaits, Mine
<1>2. UNCHANGED <<fixStage, fixBy, cells, fixLen, fixData, initLen, spilled>>
  BY DEF fixVars
<1>3. Room = Len(cells) /\ Room' = Room
  BY <1>2 DEF Room
<1>4. Base' = Base /\ ByHand' = ByHand /\ Sound' = Sound
  BY <1>2 DEF Base, ByHand, Sound
<1>5. Count' = Count
  BY <1>2, <1>3, <1>4 DEF Count
<1>6. \A k \in 1..Room : cells[k] \in Value => drops'[cells[k]] = drops[cells[k]]
  BY <1>1, <1>3, RegionValues
<1>7. \A k \in 1..Count : k \in 1..Room
  BY ONLY <1>3, TypeOK, RegionValues
<1>8. CellsInv'
  BY ONLY <1>2, <1>3, <1>4, <1>5, <1>6, CellsInv DEF CellsInv
<1>9. FixedWaits' =>
       /\ running' # "fixed"
       /\ fixData => fixLen = Count
       /\ ~fixData => cells = <<>> /\ fixStage # "uninit"
       /\ \A k \in 1..Room : cells[k] \in Value => drops'[cells[k]] = Base
  BY ONLY <1>1, <1>6, FixedInv DEF FixedInv
<1>10. running' = "fixed" /\ ~unwinding' =>
       /\ Len(todo') <= Count
       /\ todo' = SubSeq(cells, Count - Len(todo') + 1, Count)
       /\ fault' # "garbage dropped" => \A k \in 1..Count :
            IF k <= Count - Len(todo')
              THEN cells[k] \in Value /\ drops'[cells[k]] = Base + 1
              ELSE cells[k] \in Value => drops'[cells[k]] = Base
  <2> SUFFICES ASSUME running' = "fixed", ~unwinding' PROVE <1>10!2
    OBVIOUS
  <2>1. /\ Len(todo) <= Count
        /\ todo = SubSeq(cells, Count - Len(todo) + 1, Count)
        /\ fault # "garbage dropped" => \A k \in 1..Count :
             IF k <= Count - Len(todo)
               THEN cells[k] \in Value /\ drops[cells[k]] = Base + 1
               ELSE cells[k] \in Value => drops[cells[k]] = Base
    BY <1>1 DEF FixedInv
  <2>2. todo' = todo /\ (fault' # "garbage dropped" => fault # "garbage dropped")
    BY <1>1
  <2> QED BY ONLY <1>6, <1>7, <2>1, <2>2
<1>11. fixStage # "none" /\ ~FixedWaits' /\ running' # "fixed" /\ ~unwinding' =>
       \A k \in 1..Count : cells[k] \in Value /\ drops'[cells[k]] = Base + 1
  BY ONLY <1>1, <1>6, <1>7, FixedInv DEF FixedInv
<1>12. fixStage = "uninit" /\ running' = "fixed" => busy' = None /\ ~unwinding'
  BY ONLY <1>1, FixedInv DEF FixedInv
<1>13. fixStage = "uninit" /\ ~FixedWaits' /\ running' # "fixed" => ~fixData
  <2> SUFFICES ASSUME fixStage = "uninit", ~FixedWaits', running' # "fixed" PROVE ~fixData
    OBVIOUS
  <2>1. running = "fixed" => FALSE
    BY <1>1 DEF FixedInv
  <2> QED BY <1>1, <2>1 DEF FixedInv
<1>14. fixStage = "none" => ~FixedWaits' /\ running' # "fixed"
  BY ONLY <1>1, FixedInv DEF FixedInv
<1>15. phase' = "alive" /\ fixStage # "none" => FixedWaits'
  BY ONLY <1>1, FixedInv DEF FixedInv
<1>16. /\ fixData => fixLen <= Room
       /\ ~FixedWaits' => ~fixData \/ fixLen = 0
       /\ ~fixData /\ Sound => fixLen = 0
  BY ONLY <1>1, FixedInv DEF FixedInv
<1>17. FixedInv'
  BY ONLY <1>2, <1>3, <1>4, <1>5, <1>9, <1>10, <1>11, <1>12, <1>13, <1>14, <1>15, <1>16 DEF FixedInv
<1> QED BY <1>8, <1>17

\* Calls that fill the region are made while the array waits for its end.
LEMMA StillWaiting ==
  ASSUME TypeOK, ControlInv, FixedInv, Calling, fixStage = "uninit"
  PROVE  running # "fixed" /\ (fixData => FixedWaits)
<1>1. running # "fixed"
  <2> SUFFICES ASSUME running = "fixed" PROVE FALSE
    OBVIOUS
  <2>1. phase = "dying" /\ busy = None
    BY TableAlive, TenantParts, TypeParts, TenantsAssumption DEF ControlInv, FixedInv, DropFn
  <2> QED BY <2>1 DEF Calling
<1> QED BY <1>1 DEF FixedInv

\* The drop function of a new fixed array waits.
LEMMA FixedWaitsNow ==
  ASSUME TypeOK, ControlInv, IsAlive, Register("fixed", None), UNCHANGED <<phase, running, unwinding>>
  PROVE  FixedWaits' /\ running' # "fixed"
<1>1. registered \in Seq(Entries) /\ Entry("fixed", None) \in Entries
  BY RegisteredRow DEF Entry, Entries, DropFn
<1>2. registered' = Append(registered, Entry("fixed", None))
  BY DEF Register
<1>3. Range(registered') = Range(registered) \cup {Entry("fixed", None)}
  BY ONLY <1>1, <1>2, RangeAppended
<1>4. running' # "fixed"
  BY TableAlive
<1> QED BY <1>3, <1>4 DEF FixedWaits

\* FixedArray::with_capacity.
LEMMA FixedAfterReserve ==
  ASSUME TypeOK, ControlInv, CellsInv, FixedInv, NEW cap \in Regions, FixedReserve(cap)
  PROVE  CellsInv' /\ FixedInv'
<1>1. /\ IsAlive /\ fixStage = "none" /\ Register("fixed", None)
      /\ UNCHANGED <<phase, running, todo, unwinding, drops>> /\ UNCHANGED <<fixBy, fixLen, initLen, spilled>>
      /\ \/ fixStage' = "uninit" /\ cells' = Uninit(cap) /\ fixData' = TRUE
         \/ fixStage' = "failed" /\ UNCHANGED <<cells, fixData>>
  BY DEF FixedReserve
<1>2. fixBy = "none" /\ cells = <<>> /\ fixLen = 0 /\ ~fixData /\ initLen = 0
  BY <1>1 DEF CellsInv
<1>3. FixedWaits' /\ running' # "fixed"
  BY <1>1, FixedWaitsNow
<1>4. cap \in Nat
  BY FixedAssumption
<1>5. Room' \in Nat /\ \A k \in 1..Room' : cells'[k] = Garbage
  <2>1. Len(Uninit(cap)) = cap /\ \A k \in 1..cap : Uninit(cap)[k] = Garbage
    BY <1>4 DEF Uninit
  <2>2. CASE cells' = Uninit(cap)
    BY ONLY <1>4, <2>1, <2>2 DEF Room
  <2>3. CASE cells' = cells
    BY ONLY <1>2, <2>3 DEF Room
  <2> QED BY <1>1, <2>2, <2>3
<1>6. \A k \in 1..Room' : cells'[k] \notin Value /\ ~(k <= initLen')
  BY ONLY <1>1, <1>2, <1>5, TenantsAssumption
<1>7. Count' = 0 /\ ByHand' /\ fixLen' = 0
  BY ONLY <1>1, <1>2 DEF Count, ByHand
<1>8. CellsInv'
  BY ONLY <1>1, <1>2, <1>5, <1>6, <1>7 DEF CellsInv
<1>9. FixedInv'
  BY ONLY <1>1, <1>2, <1>3, <1>5, <1>6, <1>7 DEF FixedInv, Sound
<1> QED BY <1>8, <1>9

\* FixedArray::new.
LEMMA FixedAfterNew ==
  ASSUME TypeOK, ControlInv, PlaceInv, CellsInv, FixedInv, NEW src \in Sources, NEW vs \in Batches, FixedNew(src, vs)
  PROVE  CellsInv' /\ FixedInv'
<1> DEFINE ys == Yielded(src, vs)
           n == Announced(src, vs)
<1>1. /\ IsAlive /\ fixStage = "none" /\ Register("fixed", None)
      /\ UNCHANGED <<phase, running, todo, unwinding, drops>> /\ initLen' = initLen
      /\ fixStage' \in {"array", "failed"} /\ fixBy' = src /\ fixLen' = n /\ fixData' = TRUE
      /\ cells' = Written(n, ys) /\ Range(ys) \subseteq outside
  BY DEF FixedNew, Takes
<1>2. /\ n \in Nat /\ ys \in Seq(Value) /\ IsInjective(ys) /\ Len(ys) \in Nat
      /\ src = "exact" => n = Len(ys)
      /\ src = "fixed" => n = 0
  BY BatchTyped, IteratorKinds
<1>3. src \in {"exact", "fixed", "dying", "list", "panics"}
  BY FixedAssumption
<1> HIDE DEF n, ys
<1>4. /\ cells' \in Seq(Value \cup {Garbage}) /\ Len(cells') = n
      /\ \A k \in 1..n : cells'[k] = IF k <= Len(ys) THEN ys[k] ELSE Garbage
  BY <1>1, <1>2, WrittenRow
<1>5. FixedWaits' /\ running' # "fixed"
  BY <1>1, FixedWaitsNow
<1>6. Base' = 0 /\ ~ByHand' /\ Room' = n /\ Count' = n
  BY ONLY <1>1, <1>3, <1>4 DEF Base, ByHand, Room, Count
<1>7. \A k \in 1..n : cells'[k] # Garbage => k \in 1..Len(ys) /\ cells'[k] = ys[k]
  BY ONLY <1>2, <1>4
<1>8. \A k \in 1..Len(ys) : drops[ys[k]] = 0
  <2>1. \A k \in 1..Len(ys) : ys[k] \in Range(ys)
    BY ONLY <1>2, InRange
  <2> QED BY <1>1, <2>1 DEF PlaceInv
<1>9. \A k \in 1..n : cells'[k] \in Value => drops'[cells'[k]] = 0
  BY ONLY <1>1, <1>7, <1>8, TenantsAssumption
<1>10. \A i, j \in 1..n : cells'[i] = cells'[j] /\ cells'[i] # Garbage => i = j
  BY ONLY <1>2, <1>7, Differ
<1>11. src = "exact" => \A k \in 1..n : cells'[k] \in Value
  BY ONLY <1>2, <1>4
<1>12. src = "fixed" => cells' = <<>>
  BY ONLY <1>2, <1>4
<1>13. initLen = 0
  BY <1>1 DEF CellsInv
<1>14. CellsInv'
  BY ONLY <1>1, <1>3, <1>6, <1>9, <1>10, <1>11, <1>12, <1>13 DEF CellsInv
<1>15. n <= n
  BY ONLY <1>2
<1>16. FixedInv'
  BY ONLY <1>1, <1>5, <1>6, <1>9, <1>15 DEF FixedInv
<1> QED BY <1>14, <1>16

\* FixedArray::new, when the region does not fit.
LEMMA FixedAfterNewTooBig ==
  ASSUME TypeOK, ControlInv, CellsInv, FixedInv, NEW src, NEW vs, FixedNewTooBig(src, vs)
  PROVE  CellsInv' /\ FixedInv'
<1>1. /\ IsAlive /\ fixStage = "none" /\ Register("fixed", None)
      /\ UNCHANGED <<phase, running, todo, unwinding>>
      /\ fixStage' = "failed" /\ UNCHANGED <<fixBy, cells, fixData, initLen, spilled>>
  BY DEF FixedNewTooBig
<1>2. fixBy = "none" /\ cells = <<>> /\ ~fixData /\ initLen = 0
  BY <1>1 DEF CellsInv
<1>3. FixedWaits' /\ running' # "fixed"
  BY <1>1, FixedWaitsNow
<1>4. Room' = 0 /\ ByHand' /\ Count' = 0 /\ 1..Room' = {}
  BY ONLY <1>1, <1>2 DEF Room, ByHand, Count
<1>5. CellsInv'
  BY ONLY <1>1, <1>2, <1>4 DEF CellsInv
<1>6. FixedInv'
  BY ONLY <1>1, <1>2, <1>3, <1>4 DEF FixedInv, Sound
<1> QED BY <1>5, <1>6

\* ArrayInitializer::push: the item is in the region, and was dropped.
LEMMA FixedAfterPush ==
  ASSUME TypeOK, ControlInv, PlaceInv, CellsInv, FixedInv, NEW v \in Value, InitPush(v)
  PROVE  CellsInv' /\ FixedInv'
<1>1. /\ Calling /\ fixStage = "uninit" /\ fixBy \in {"none", "init"} /\ fixData
      /\ UNCHANGED <<phase, registered, running, todo, busy, unwinding, fault>>
      /\ initLen' = initLen + 1 /\ fixBy' = "init" /\ UNCHANGED <<fixStage, fixLen, fixData, spilled>>
  BY DEF InitPush, Initializing, Refuses, arenaVars
<1>2. running # "fixed" /\ FixedWaits
  BY <1>1, StillWaiting
<1>3. /\ v \in outside /\ initLen + 1 \in 1..Len(cells) /\ Len(cells') = Len(cells)
      /\ \A k \in 1..Len(cells) : cells'[k] = IF k = initLen + 1 THEN v ELSE cells[k]
      /\ cells[initLen + 1] = Garbage
      /\ \A u \in Value : drops'[u] = IF u = v THEN drops[u] + 1 ELSE drops[u]
  BY InitPushEffect
<1>4. Room = Len(cells) /\ Room' = Room /\ Len(cells) \in Nat /\ initLen \in Nat
  BY <1>3, RegionValues DEF Room
<1>5. \A k \in 1..Room : cells[k] \in Value => cells[k] # v
  <2>1. \A k \in 1..Room : cells[k] \in Value => cells[k] \in Held
    BY ONLY <1>4, TypeOK, RegionValues
  <2> QED BY <1>3, <2>1 DEF PlaceInv, Apart, Disjoint
<1>6. drops[v] = 0
  BY <1>3 DEF PlaceInv
<1>7. ByHand /\ ByHand' /\ Base' = 1 /\ Count' = 0
  BY ONLY <1>1 DEF ByHand, Base, Count
<1>8. \A k \in 1..Room : cells[k] \in Value <=> k <= initLen
  BY <1>7 DEF CellsInv
<1>9. \A k \in 1..Room : cells[k] \in Value => drops[cells[k]] = 1
  <2>1. CASE fixBy = "none"
    <3>1. initLen = 0
      BY <2>1 DEF CellsInv
    <3> QED BY ONLY <1>4, <1>8, <3>1
  <2>2. CASE fixBy = "init"
    BY <1>2, <2>2 DEF FixedInv, Base
  <2> QED BY <1>1, <2>1, <2>2
<1>10. \A k \in 1..Room : cells'[k] \in Value => drops'[cells'[k]] = 1
  BY ONLY <1>3, <1>4, <1>5, <1>6, <1>9, v \in Value
<1>11. \A k \in 1..Room : cells'[k] \in Value <=> k <= initLen'
  BY ONLY <1>1, <1>3, <1>4, <1>8, v \in Value
<1>12. \A i, j \in 1..Room : cells'[i] = cells'[j] /\ cells'[i] # Garbage => i = j
  <2>1. \A i, j \in 1..Room : cells[i] = cells[j] /\ cells[i] # Garbage => i = j
    BY DEF CellsInv
  <2>2. \A k \in 1..Room : cells[k] # v
    BY <1>5
  <2> QED BY ONLY <1>3, <1>4, <2>1, <2>2
<1>13. fixLen = 0
  BY <1>1 DEF CellsInv
<1>14. CellsInv'
  BY ONLY <1>1, <1>4, <1>7, <1>10, <1>11, <1>12, <1>13 DEF CellsInv
<1>15. FixedWaits'
  BY <1>1, <1>2 DEF FixedWaits
<1>16. FixedInv'
  BY ONLY <1>1, <1>2, <1>4, <1>7, <1>10, <1>13, <1>15 DEF FixedInv
<1> QED BY <1>14, <1>16

\* UninitArray::data_mut: foreign code fills the start of the region.
LEMMA FixedAfterFill ==
  ASSUME TypeOK, ControlInv, PlaceInv, CellsInv, FixedInv, NEW vs \in Batches, FillByC(vs)
  PROVE  CellsInv' /\ FixedInv'
<1>1. /\ Calling /\ fixStage = "uninit" /\ fixData
      /\ UNCHANGED <<phase, registered, running, todo, busy, unwinding, fault>>
      /\ initLen' = Len(vs) /\ fixBy' = "c" /\ UNCHANGED <<fixStage, fixLen, fixData, spilled>>
  BY DEF FillByC, arenaVars
<1>2. running # "fixed" /\ FixedWaits
  BY <1>1, StillWaiting
<1>3. /\ Range(vs) \subseteq outside /\ drops' = drops
      /\ vs \in Seq(Value) /\ IsInjective(vs) /\ Len(vs) \in Nat /\ Len(vs) <= Len(cells)
      /\ Len(cells') = Len(cells)
      /\ \A k \in 1..Len(cells) : cells'[k] = IF k <= Len(vs) THEN vs[k] ELSE Garbage
  BY FillEffect
<1>4. Room = Len(cells) /\ Room' = Room /\ Len(cells) \in Nat
  BY <1>3, RegionValues DEF Room
<1>5. ByHand' /\ Base' = 0 /\ Count' = 0
  BY ONLY <1>1 DEF ByHand, Base, Count
<1>6. \A k \in 1..Len(vs) : vs[k] \in Value /\ drops[vs[k]] = 0
  <2>1. \A k \in 1..Len(vs) : vs[k] \in Range(vs) /\ vs[k] \in Value
    BY ONLY <1>3, InRange
  <2> QED BY <1>3, <2>1 DEF PlaceInv
<1>7. \A k \in 1..Room : cells'[k] \in Value <=> k <= initLen'
  BY ONLY <1>1, <1>3, <1>4, <1>6, TenantsAssumption
<1>8. \A k \in 1..Room : cells'[k] \in Value => drops'[cells'[k]] = 0
  BY ONLY <1>3, <1>4, <1>6, TenantsAssumption
<1>9. \A i, j \in 1..Room : cells'[i] = cells'[j] /\ cells'[i] # Garbage => i = j
  BY ONLY <1>3, <1>4, Differ
<1>10. fixLen = 0
  BY <1>1 DEF CellsInv
<1>11. CellsInv'
  BY ONLY <1>1, <1>4, <1>5, <1>7, <1>8, <1>9, <1>10 DEF CellsInv
<1>12. FixedWaits'
  BY <1>1, <1>2 DEF FixedWaits
<1>13. FixedInv'
  BY ONLY <1>1, <1>2, <1>4, <1>5, <1>8, <1>10, <1>12 DEF FixedInv
<1> QED BY <1>11, <1>13

\* initialized, initialized_to_len.
LEMMA FixedAfterDone ==
  ASSUME TypeOK, ControlInv, CellsInv, FixedInv, FixedDone
  PROVE  CellsInv' /\ FixedInv'
<1>1. /\ Calling /\ fixStage = "uninit"
      /\ UNCHANGED <<phase, registered, running, todo, busy, unwinding, fault, drops>>
      /\ fixLen' = initLen /\ fixStage' = IF fixData THEN "array" ELSE "late"
      /\ UNCHANGED <<fixBy, cells, fixData, initLen, spilled>>
  BY DEF FixedDone, tenantVars, arenaVars
<1>2. running # "fixed" /\ (fixData => FixedWaits)
  BY <1>1, StillWaiting
<1>3. Room = Len(cells) /\ Room' = Room /\ Len(cells) \in Nat /\ initLen \in 0..Room /\ Base' = Base
  BY <1>1, RegionValues DEF Room, Base
<1>4. ByHand /\ ByHand'
  BY <1>1 DEF CellsInv, ByHand
<1>5. (fixData => Count' = initLen) /\ (~fixData => Count' = 0) /\ Count = 0
  BY ONLY <1>1, <1>4 DEF Count
<1>6. \A k \in 1..Room : cells[k] \in Value => drops[cells[k]] = Base
  <2>1. \A k \in 1..Room : k > Count
    BY ONLY <1>3, <1>5
  <2> QED BY ONLY <2>1, CellsInv DEF CellsInv
<1>7. CellsInv'
  BY ONLY <1>1, <1>3, <1>4, <1>5, <1>6, CellsInv DEF CellsInv
<1>8. FixedWaits' <=> FixedWaits
  BY <1>1 DEF FixedWaits
<1>9. ~fixData => ~Sound' /\ ~FixedWaits
  BY ONLY <1>1, FixedInv DEF Sound, FixedInv
<1>10. FixedWaits \/ 1..Count' = {}
  BY ONLY <1>2, <1>5
<1>11. FixedWaits' =>
       /\ running' # "fixed" /\ (fixData' => fixLen' = Count')
       /\ (~fixData' => cells' = <<>> /\ fixStage' # "uninit")
       /\ \A k \in 1..Room' : cells'[k] \in Value => drops'[cells'[k]] = Base'
  BY ONLY <1>1, <1>2, <1>3, <1>5, <1>6, <1>8, <1>9
<1>12. /\ fixData' => fixLen' <= Room'
       /\ ~FixedWaits' => ~fixData'
       /\ ~fixData' => ~Sound'
  BY ONLY <1>1, <1>2, <1>3, <1>8, <1>9
<1>13. fixStage' \in {"array", "late"} /\ (phase' = "alive" => FixedWaits')
  BY ONLY <1>1, <1>8, FixedInv DEF FixedInv
<1>14. FixedInv'
  BY ONLY <1>1, <1>2, <1>8, <1>10, <1>11, <1>12, <1>13 DEF FixedInv
<1> QED BY <1>7, <1>14

\* drop_array begins, with the length set to zero.
LEMMA FixedAfterStart ==
  ASSUME TypeOK, ControlInv, CellsInv, FixedInv, RegisteredInv, StartFixed
  PROVE  CellsInv' /\ FixedInv'
<1>1. /\ registered # <<>> /\ Head(registered) = Entry("fixed", None) /\ registered' = Tail(registered)
      /\ running' = Entry("fixed", None).fn
      /\ todo' = IF fixData THEN SubSeq(cells, 1, fixLen) ELSE <<>>
      /\ phase = "dying" /\ busy = None /\ ~unwinding /\ UNCHANGED <<phase, busy, unwinding, fault, drops>>
      /\ fixLen' = IF fixData THEN 0 ELSE fixLen
      /\ UNCHANGED <<fixStage, fixBy, cells, fixData, initLen, spilled>>
  BY Zenon DEF StartFixed, Enter, Between
<1>2. registered \in Seq(Entries) /\ IsInjective(registered)
  BY RegisteredRow DEF RegisteredInv
<1>3. /\ Range(registered') = Range(registered) \ {registered[1]} /\ registered[1] = Head(registered)
      /\ registered[1] \in Range(registered)
  BY ONLY <1>1, <1>2, TailOfInjective
<1>4. FixedWaits /\ ~FixedWaits'
  BY <1>1, <1>3 DEF FixedWaits
<1>5. running' = "fixed" /\ fixStage # "none"
  BY <1>1, <1>4 DEF Entry, FixedInv
<1>6. /\ Room = Len(cells) /\ Room' = Room /\ Len(cells) \in Nat /\ Base' = Base /\ ByHand' = ByHand /\ Sound' = Sound
      /\ cells \in Seq(Value \cup {Garbage}) /\ Count \in 0..Room
  BY <1>1, RegionValues DEF Room, Base, ByHand, Sound
<1>7. Count' = Count
  BY <1>1, <1>6 DEF Count
<1>8. /\ fixData => fixLen = Count
      /\ ~fixData => cells = <<>>
      /\ \A k \in 1..Room : cells[k] \in Value => drops[cells[k]] = Base
  BY ONLY <1>4, FixedInv DEF FixedInv
<1>9. todo' = SubSeq(cells, 1, Count)
  <2>1. CASE fixData
    BY <1>1, <1>8, <2>1
  <2>2. CASE ~fixData
    BY ONLY <1>1, <1>6, <1>8, <2>2
  <2> QED BY <2>1, <2>2
<1>10. Len(todo') = Count /\ Count - Len(todo') = 0 /\ Count - Len(todo') + 1 = 1
  BY ONLY <1>6, <1>9, PartOf
<1>11. todo' = SubSeq(cells, Count - Len(todo') + 1, Count)
  BY ONLY <1>9, <1>10
<1>12. \A k \in 1..Count : ~(k <= Count - Len(todo')) /\ k \in 1..Room
  BY ONLY <1>6, <1>10
<1>13. CellsInv'
  <2>1. (fixStage = "none" \/ fixStage = "uninit") => fixLen' = 0
    BY ONLY <1>1, CellsInv DEF CellsInv
  <2> QED BY ONLY <1>1, <1>6, <1>7, <2>1, CellsInv DEF CellsInv
<1>14. Len(todo') <= Count /\ 0 <= Room
  BY ONLY <1>6, <1>10
<1>15. ~fixData /\ Sound => fixLen = 0
  BY DEF FixedInv
<1>16. running' = "fixed" /\ ~unwinding' =>
       /\ Len(todo') <= Count'
       /\ todo' = SubSeq(cells', Count' - Len(todo') + 1, Count')
       /\ \A k \in 1..Count' :
            IF k <= Count' - Len(todo')
              THEN cells'[k] \in Value /\ drops'[cells'[k]] = Base' + 1
              ELSE cells'[k] \in Value => drops'[cells'[k]] = Base'
  BY ONLY <1>1, <1>6, <1>7, <1>8, <1>11, <1>12, <1>14
<1>17. FixedInv'
  BY ONLY <1>1, <1>4, <1>5, <1>6, <1>14, <1>15, <1>16 DEF FixedInv
<1> QED BY <1>13, <1>17

\* drop_array is done, and the pointer is null.
LEMMA FixedAfterEnd ==
  ASSUME TypeOK, ControlInv, CellsInv, FixedInv, EndFixed
  PROVE  CellsInv' /\ FixedInv'
<1>1. /\ phase = "dying" /\ fault = "none" /\ running = "fixed" /\ todo = <<>> /\ ~unwinding /\ running' = None
      /\ UNCHANGED <<phase, registered, todo, busy, unwinding, fault, drops>>
      /\ fixData' = FALSE /\ UNCHANGED <<fixStage, fixBy, cells, fixLen, initLen, spilled>>
  BY DEF EndFixed, EndEntry, Inside
<1>2. /\ Room = Len(cells) /\ Room' = Room /\ Len(cells) \in Nat /\ Base' = Base /\ ByHand' = ByHand /\ Sound' = Sound
      /\ Count \in 0..Room
  BY <1>1, RegionValues DEF Room, Base, ByHand, Sound
<1>3. Count' = Count
  BY <1>1, <1>2 DEF Count
<1>4. ~FixedWaits /\ fixStage # "none" /\ ~FixedWaits'
  BY <1>1 DEF FixedInv, FixedWaits
<1>5. Count - Len(todo) = Count
  BY ONLY <1>1, <1>2
<1>6. \A k \in 1..Count : IF k <= Count - Len(todo)
                            THEN cells[k] \in Value /\ drops[cells[k]] = Base + 1
                            ELSE cells[k] \in Value => drops[cells[k]] = Base
  BY <1>1 DEF FixedInv
<1>7. \A k \in 1..Count : cells[k] \in Value /\ drops[cells[k]] = Base + 1
  BY ONLY <1>2, <1>5, <1>6
<1>8. Sound => fixLen = 0
  BY ONLY <1>4, FixedInv DEF FixedInv
<1>9. CellsInv'
  BY ONLY <1>1, <1>2, <1>3, CellsInv DEF CellsInv
<1>10. running' # "fixed"
  BY <1>1, TenantsAssumption DEF DropFn
<1>11. FixedInv'
  BY ONLY <1>1, <1>2, <1>3, <1>4, <1>7, <1>8, <1>10 DEF FixedInv
<1> QED BY <1>9, <1>11

\* drop_array goes on to the next item.
LEMMA FixedAfterDrop ==
  ASSUME TypeOK, ControlInv, TableInv, CellsInv, FixedInv, DropHead, running = "fixed", UNCHANGED fixVars
  PROVE  CellsInv' /\ FixedInv'
<1> DEFINE k == Count - Len(todo) + 1
<1>1. /\ Len(todo') \in Nat /\ Len(todo) \in Nat /\ Len(todo) <= Count /\ Count <= Len(cells)
      /\ k \in 1..Count /\ todo[1] = cells[k] /\ Count - Len(todo') = k
      /\ todo' = SubSeq(cells, Count - Len(todo') + 1, Count)
      /\ drops \in [Value -> Nat] /\ todo \in Seq(Value \cup {Garbage}) /\ ~unwinding
  BY DropHeadPlace
<1>2. /\ phase = "dying" /\ fault = "none" /\ UNCHANGED <<phase, registered, running, unwinding>>
      /\ \/ todo[1] = Garbage /\ fault' = "garbage dropped" /\ UNCHANGED <<busy, drops>>
         \/ /\ todo[1] \in Value
            /\ \A v \in Value : drops'[v] = IF v = todo[1] THEN drops[v] + 1 ELSE drops[v]
  BY <1>1, DropHeadEffect
<1>3. Count - Len(todo) = k - 1 /\ Count \in Nat
  BY ONLY <1>1, TypeOK, RegionValues
<1> HIDE DEF k
<1>4. UNCHANGED <<fixStage, fixBy, cells, fixLen, fixData, initLen, spilled>>
  BY DEF fixVars
<1>5. /\ Room = Len(cells) /\ Room' = Room /\ Len(cells) \in Nat /\ Base' = Base /\ ByHand' = ByHand /\ Sound' = Sound
      /\ Base \in Nat
  BY <1>4, RegionValues DEF Room, Base, ByHand, Sound
<1>6. Count' = Count
  BY <1>4, <1>5 DEF Count
<1>7. \A i \in 1..Count : IF i <= k - 1
                            THEN cells[i] \in Value /\ drops[cells[i]] = Base + 1
                            ELSE cells[i] \in Value => drops[cells[i]] = Base
  <2>1. \A i \in 1..Count : IF i <= Count - Len(todo)
                            THEN cells[i] \in Value /\ drops[cells[i]] = Base + 1
                            ELSE cells[i] \in Value => drops[cells[i]] = Base
    BY <1>1, <1>2 DEF FixedInv
  <2> QED BY ONLY <1>3, <2>1
<1>8. \A i \in 1..Room : cells[i] = cells[k] /\ cells[i] # Garbage => i = k
  <2>1. k \in 1..Room
    BY ONLY <1>1, <1>3, <1>5
  <2> QED BY ONLY <2>1, CellsInv DEF CellsInv
<1>9. \A i \in 1..Room : cells[i] \in Value =>
        drops'[cells[i]] = IF i = k THEN drops[cells[i]] + 1 ELSE drops[cells[i]]
  BY ONLY <1>1, <1>2, <1>8, TenantsAssumption
<1>10. \A i \in 1..Room : cells[i] \in Value =>
         drops[cells[i]] \in {Base, Base + 1} /\ (i > Count => drops[cells[i]] = Base)
  BY DEF CellsInv
<1>11. cells[k] = Garbage \/ (cells[k] \in Value /\ drops'[cells[k]] = Base + 1)
  <2>1. cells[k] \in Value => drops[cells[k]] = Base
    BY ONLY <1>1, <1>3, <1>7
  <2> QED BY ONLY <1>1, <1>2, <2>1
<1>12. \A i \in 1..Room : cells[i] \in Value =>
         drops'[cells[i]] \in {Base, Base + 1} /\ (i > Count => drops'[cells[i]] = Base)
  BY ONLY <1>1, <1>3, <1>5, <1>9, <1>10, <1>11, TenantsAssumption
<1>13. CellsInv'
  BY ONLY <1>4, <1>5, <1>6, <1>12, CellsInv DEF CellsInv
<1>14. fault' # "garbage dropped" => \A i \in 1..Count :
         IF i <= Count - Len(todo')
           THEN cells[i] \in Value /\ drops'[cells[i]] = Base + 1
           ELSE cells[i] \in Value => drops'[cells[i]] = Base
  <2> SUFFICES ASSUME fault' # "garbage dropped", NEW i \in 1..Count
               PROVE  IF i <= Count - Len(todo')
                        THEN cells[i] \in Value /\ drops'[cells[i]] = Base + 1
                        ELSE cells[i] \in Value => drops'[cells[i]] = Base
    OBVIOUS
  <2>1. cells[k] \in Value /\ Count - Len(todo') = k
    BY <1>1, <1>2
  <2>2. i \in 1..Room
    BY ONLY i \in 1..Count, <1>1, <1>3, <1>5
  <2>3. CASE i = k
    BY ONLY <1>11, <2>1, <2>3, k \in 1..Count, <1>3, TenantsAssumption
  <2>4. CASE i # k
    BY ONLY <1>1, <1>3, <1>7, <1>9, <2>1, <2>2, <2>4, i \in 1..Count
  <2> QED BY <2>3, <2>4
<1>15. ~FixedWaits /\ ~FixedWaits' /\ fixStage # "none" /\ phase' # "alive"
  BY <1>2 DEF FixedInv, FixedWaits
<1>16. fixStage # "uninit"
  <2>1. fixStage = "uninit" => Count = 0
    BY DEF Count
  <2> QED BY ONLY <1>1, <2>1
<1>17. Len(todo') <= Count
  BY ONLY <1>1, <1>3
<1>18. /\ running' = "fixed"
       /\ fixData => fixLen <= Room
       /\ ~fixData \/ fixLen = 0
       /\ ~fixData /\ Sound => fixLen = 0
  BY ONLY <1>2, <1>15, running = "fixed", FixedInv DEF FixedInv
<1>19. todo' = SubSeq(cells', Count' - Len(todo') + 1, Count')
  BY ONLY <1>1, <1>4, <1>6
<1>20. FixedInv'
  BY ONLY <1>4, <1>5, <1>6, <1>14, <1>15, <1>16, <1>17, <1>18, <1>19 DEF FixedInv
<1> QED BY <1>13, <1>20

\* Each step of the fixed array's own.
LEMMA FixedKeptByFixed ==
  ASSUME TypeOK, ControlInv, SegmentsInv, TableInv, PlaceInv, CellsInv, FixedInv, RegisteredInv, FixedStep
  PROVE  CellsInv' /\ FixedInv'
<1>1. ASSUME NEW v \in Value, InitPushIgnored(v) PROVE CellsInv' /\ FixedInv'
  <2>1. UNCHANGED fixVars /\ DropsAll({v}) /\ UNCHANGED <<phase, registered, running, todo, busy, unwinding, fault>>
    BY <1>1 DEF InitPushIgnored, Refuses, arenaVars
  <2>2. SideKept("fixed")
    BY <2>1, RefusalKeeps, SideOfCall
  <2> QED BY <2>1, <2>2, FixedStays
<1>2. CASE WriteNull
  <2>1. UNCHANGED fixVars /\ UNCHANGED <<phase, registered, running, todo, busy, unwinding, drops>> /\ fault = "none"
    BY <1>2 DEF WriteNull, Calling
  <2>2. SideKept("fixed")
    BY <2>1, SideOfCall
  <2> QED BY <2>1, <2>2, FixedStays
<1> QED BY <1>1, <1>2, FixedAfterReserve, FixedAfterNew, FixedAfterNewTooBig, FixedAfterPush,
           FixedAfterFill,
           FixedAfterDone, FixedAfterStart, FixedAfterEnd DEF FixedStep

\* Every step keeps them.
LEMMA FixedKept ==
  ASSUME TypeOK, ControlInv, SegmentsInv, TableInv, PlaceInv, CellsInv, FixedInv, RegisteredInv, WalksInv,
         [Next]_vars
  PROVE  CellsInv' /\ FixedInv'
<1>1. CASE FixedStep
  BY <1>1, FixedKeptByFixed
<1>2. CASE ~FixedStep
  <2>1. UNCHANGED fixVars
    BY <1>2, StepKinds DEF NStep, OnlyN, ListStep, OnlyList, ArrayStep, OnlyArray, TextStep,
       OnlyText,
         ArenaStep, OnlyArena, vars
  <2>2. ~Register("fixed", None)
    BY <1>2, Registers
  <2>3. CASE SideKept("fixed")
    BY <2>1, <2>3, FixedStays
  <2>4. CASE DropHead /\ running = "fixed"
    BY <2>1, <2>4, FixedAfterDrop
  <2>5. CASE ArenaStep /\ EndEntry("fixed")
    <3>1. running = "fixed" /\ phase' = phase /\ phase = "dying" /\ fault = "none" /\ busy = None /\ todo = <<>>
          /\ walks = <<>> /\ ~unwinding /\ running' = None /\ unwinding' = unwinding /\ registered' = registered
          /\ UNCHANGED <<busy, drops, fault, walks, todo>>
      BY <2>5 DEF EndEntry, Inside
    <3> QED BY <2>5, <3>1, TenantsAssumption DEF ArenaStep, DropArena, IsAlive, StartValue, Enter,
               Between, OpenNext, DropOwn,
           DropHead, DropReturn, DropPanic, Panics, EndEntry, EndUnwind, FinishChain, DropFn
  <2> QED BY <1>2, <2>2, <2>3, <2>4, <2>5, Sides
<1> QED BY <1>1, <1>2

-----------------------------------------------------------------------------
(* The invariant                                                           *)

\* Undefined behaviour ends the program: no step follows it.
LEMMA NoStepAfterFault ==
  ASSUME Next
  PROVE  fault = "none"
<1>1. CASE Asking
  BY <1>1, Zenon DEF Asking, DropArena, ArrayPop, FixedDone, WriteNull, ListNew, ArrayNew,
     FixedReserve, UStrNew,
     NNew, NRefused, NOutlives, ListPush, ListPushTooBig, ListPushDead, ArrayPush, ArrayPushFails, ArrayPushDead,
     InitPush, InitPushIgnored, Initializing, FillByC, FixedNew, FixedNewTooBig, Calling
<1>2. CASE Dropping
  BY <1>2, Zenon DEF Dropping, StartValue, StartTable, StartFixed, Enter, Between, OpenNext,
     DropOwn, DropHead,
     DropReturn, DropPanic, Panics, EndEntry, EndFixed, EndUnwind, FinishChain, Inside
<1> QED BY <1>1, <1>2 DEF Next

\* What the drop of bytes that are no value tells of the array.
LEMMA GarbageDropped ==
  ASSUME TypeOK, ControlInv, TableInv, CellsInv, FixedInv, DropHead, todo[1] = Garbage
  PROVE  fixBy \in {"dying", "list", "panics"}
<1>1. CASE running = "table"
  <2>1. \E k \in 1..arrLen : todo[1] = ptrs[k]
    BY <1>1, DropHeadPlace
  <2> QED BY <2>1, TenantsAssumption DEF TableInv
<1>2. CASE running = "fixed"
  <2>1. PICK k \in 1..Count : cells[k] = Garbage
    BY <1>2, DropHeadPlace
  <2>2. Count \in 0..Room /\ Room = Len(cells) /\ Room \in Nat
    BY RegionValues DEF Room
  <2>3. k \in 1..Room
    BY ONLY <2>2, k \in 1..Count
  <2>4. cells[k] \notin Value
    BY <2>1, TenantsAssumption
  <2>5. ~ByHand
    <3>1. ByHand => (k <= initLen <=> cells[k] \in Value)
      BY ONLY <2>3, CellsInv DEF CellsInv
    <3>2. ByHand => k <= initLen
      BY ONLY <2>2, k \in 1..Count DEF Count
    <3> QED BY ONLY <2>4, <3>1, <3>2
  <2>6. fixBy # "exact"
    BY ONLY <2>3, <2>4, CellsInv DEF CellsInv
  <2>7. fixBy # "fixed"
    <3>1. cells # <<>>
      BY ONLY <2>2, <2>3
    <3> QED BY <3>1 DEF CellsInv
  <2> QED BY <2>5, <2>6, <2>7, TypeParts DEF FixedTypeOK, ByHand
<1> QED BY <1>1, <1>2, DropHeadPlace

\* Every step keeps what explains a fault.
LEMMA FaultsKept ==
  ASSUME TypeOK, ControlInv, TableInv, CellsInv, FixedInv, FaultsExplained, [Next]_vars
  PROVE  FaultsExplained'
<1>1. CASE UNCHANGED vars
  BY <1>1 DEF vars, tenantVars, arenaVars, fixVars, FaultsExplained, IsAlive
<1>2. CASE Next /\ fault' = fault
  BY <1>2, NoStepAfterFault DEF FaultsExplained
<1>3. CASE FixedStep /\ WriteNull
  <2>1. /\ fixStage = "uninit" /\ ~fixData /\ fault' = "null write" /\ phase' = phase /\ fixStage' = fixStage
    BY <1>3 DEF WriteNull, fixVars
  <2>2. ~IsAlive
    BY <2>1 DEF IsAlive, FixedInv
  <2> QED BY <2>1, <2>2 DEF FaultsExplained, IsAlive
<1>4. CASE ArenaStep /\ DropHead
  <2>1. \/ todo[1] = Garbage /\ fault' = "garbage dropped"
        \/ fault' = fault /\ fault = "none"
    BY <1>4, DropHeadEffect, TypeParts, TenantParts
  <2>2. fixBy' = fixBy
    BY <1>4 DEF ArenaStep, OnlyArena, fixVars
  <2> QED BY <1>4, <2>1, <2>2, GarbageDropped DEF FaultsExplained
<1>5. ASSUME NEW src \in Sources, NEW vs \in Batches, FixedNew(src, vs), fault' = "overrun"
      PROVE  FaultsExplained'
  <2> DEFINE n == Announced(src, vs)
             ys == Yielded(src, vs)
  <2>1. /\ fault = "none" /\ fixBy' = src /\ cells' = Written(n, ys)
        /\ spilled' = { v \in Range(ys) : v \notin Range(cells') }
    BY <1>5 DEF FixedNew, Calling
  <2>2. Len(ys) > n
    BY <1>5, <2>1 DEF FixedNew, WritesOn
  <2>3. n \in Nat /\ ys \in Seq(Value) /\ (src = "fixed" => n = 0) /\ (src # "fixed" => Len(ys) <= n)
    BY BatchTyped, IteratorKinds
  <2> HIDE DEF n, ys
  <2>4. src = "fixed" /\ n = 0
    BY ONLY <2>2, <2>3
  <2>5. cells' = <<>> /\ Range(<<>>) = {}
    BY <2>1, <2>4, NoElements DEF Written
  <2>6. ys[1] \in Range(ys)
    BY ONLY <2>2, <2>3, <2>4, InRange
  <2>7. spilled' # {}
    BY ONLY <2>1, <2>5, <2>6
  <2> QED BY <1>5, <2>1, <2>4, <2>7 DEF FaultsExplained
<1>6. \/ fault' = fault \/ (FixedStep /\ WriteNull) \/ (ArenaStep /\ DropHead)
      \/ fault' = "overrun" /\ \E src \in Sources, vs \in Batches : FixedNew(src, vs)
  <2>1. CASE Call
    BY <2>1 DEF Call
  <2>2. CASE ArrayStep /\ CallPanics
    BY <2>2 DEF CallPanics, Panics
  <2>3. CASE (ArrayStep /\ StartTable) \/ (FixedStep /\ StartFixed)
    BY <2>3, Zenon DEF StartTable, StartFixed, Enter
  <2>4. CASE FixedStep /\ EndFixed
    BY <2>4 DEF EndFixed, EndEntry
  <2>5. CASE ArenaStep
    BY <2>5, Zenon DEF ArenaStep, DropArena, StartValue, Enter, OpenNext, DropOwn, DropReturn,
       DropPanic, Panics,
       EndEntry, EndUnwind, FinishChain
  <2> QED BY <2>1, <2>2, <2>3, <2>4, <2>5, CallKinds
<1> QED BY <1>1, <1>2, <1>3, <1>4, <1>5, <1>6

\* Every step keeps the invariant.
LEMMA InvariantStep ==
  ASSUME IInv, [Next]_vars
  PROVE  IInv'
<1>1. TypeOK'
  BY TypeKept DEF IInv
<1>2. SegmentsInv'
  BY ListStepEffect DEF IInv
<1>3. ControlInv' /\ PlaceInv'
  BY ControlKept, PlaceKept DEF IInv
<1>4. RegisteredInv' /\ NodesInv' /\ WalksInv' /\ OrderInv' /\ ListInv'
  BY <1>1, ValueInvsKept DEF IInv
<1>5. TableInv' /\ CellsInv' /\ FixedInv'
  BY TableKept, FixedKept DEF IInv
<1>6. FaultsExplained'
  BY FaultsKept DEF IInv
<1> QED BY <1>1, <1>2, <1>3, <1>4, <1>5, <1>6 DEF IInv

\* A set of numbers that has a member has a least one.
LEMMA LeastOf ==
  ASSUME NEW T, T \subseteq Nat, T # {}
  PROVE  \E m \in T : \A k \in T : m <= k
<1> DEFINE R == OpToRel(<, Nat)
<1>1. IsWellFoundedOn(R, Nat)
  BY NatLessThanWellFounded
<1>2. \A x, y \in Nat : <<x, y>> \in R <=> x < y
  BY DEF OpToRel
<1> HIDE DEF R
<1>3. PICK m \in T : \A k \in T : ~(<<k, m>> \in R)
  BY <1>1, WFMin, Zenon
<1>4. ASSUME NEW k \in T PROVE m <= k
  <2>1. k \in Nat /\ m \in Nat
    OBVIOUS
  <2>2. ~(<<k, m>> \in R)
    BY <1>3
  <2>3. ~(k < m)
    BY ONLY <1>2, <2>1, <2>2
  <2> QED BY <2>1, <2>3
<1> QED BY <1>4

\* At the start every collection is empty and nothing was dropped.
LEMMA InvariantInit ==
  ASSUME Init
  PROVE  IInv
<1>1. /\ phase = "alive" /\ registered = <<>> /\ running = None /\ todo = <<>>
      /\ walks = <<>> /\ busy = None /\ unwinding = FALSE
      /\ drops = [v \in Value |-> 0] /\ outside = Value /\ largest \in Largest /\ fault = "none"
      /\ nodes = <<>> /\ owned = [v \in Value |-> <<>>]
      /\ listOpen = FALSE /\ listFits = TRUE /\ segments = <<>> /\ usedSlots = 0 /\ listLen = 0
      /\ arrStage = "none" /\ arrFits = TRUE /\ ptrs = <<>> /\ arrLen = 0
      /\ fixStage = "none" /\ fixBy = "none"
      /\ cells = <<>> /\ fixLen = 0 /\ fixData = FALSE /\ initLen = 0 /\ spilled = {}
      /\ text = NoText
  BY DEF Init, TenantsInit, OutlivesInit, ListInit, ArrayInit, FixedInit, UStrInit
<1>2. Len(segments) = 0 /\ Len(nodes) = 0 /\ Len(walks) = 0 /\ Len(registered) = 0 /\ Room = 0
  BY ONLY <1>1 DEF Room
<1>3. ListItems = <<>> /\ ArrayItems = <<>> /\ Held = {} /\ Range(nodes) = {} /\ Range(registered) = {}
      /\ Range(ListItems) = {} /\ Range(ArrayItems) = {}
  <2>1. ListItems = <<>>
    BY ONLY <1>1 DEF ListItems
  <2>2. ArrayItems = <<>>
    BY ONLY <1>1 DEF ArrayItems
  <2>3. Range(cells) = {}
    BY ONLY <1>1, NoElements, Zenon
  <2>4. Range(nodes) = {} /\ Range(registered) = {} /\ Range(ListItems) = {} /\ Range(ArrayItems) = {}
    BY ONLY <1>1, <2>1, <2>2, NoElements, Zenon
  <2> QED BY <2>1, <2>2, <2>3, <2>4 DEF Held
<1>4. \A v \in Value : owned[v] = <<>> /\ Len(owned[v]) = 0 /\ drops[v] = 0
  BY ONLY <1>1
<1>5. Hung = {} /\ Direct = {} /\ Walked = {}
  BY ONLY <1>2, <1>3, <1>4, NoElements DEF Hung, Direct, Walked
<1>6. \A S : <<>> \in Seq(S)
  OBVIOUS
<1>7. TenantsTypeOK
  <2>1. drops \in [Value -> Nat]
    BY ONLY <1>1
  <2> QED BY ONLY <1>1, <1>6, <2>1 DEF TenantsTypeOK
<1>8. OutlivesTypeOK /\ ListTypeOK /\ ArrayTypeOK /\ FixedTypeOK /\ UStrTypeOK
  <2>1. OutlivesTypeOK
    BY ONLY <1>1, <1>6 DEF OutlivesTypeOK
  <2>2. ListTypeOK
    <3>1. segments \in Seq(Row)
      BY <1>1, <1>6
    <3>2. listOpen \in BOOLEAN /\ listFits \in BOOLEAN
      BY <1>1, Zenon
    <3>3. 0 \in 0..SegMax /\ 0 \in Nat
      BY SegMaxAssumption
    <3>4. usedSlots \in 0..SegMax /\ listLen \in Nat
      BY <1>1, <3>3, Zenon
    <3> QED BY <3>1, <3>2, <3>4, Zenon DEF ListTypeOK, Row
  <2>3. ArrayTypeOK
    BY ONLY <1>1, <1>6 DEF ArrayTypeOK, ArrCap
  <2>4. FixedTypeOK
    <3>1. cells \in Seq(Value \cup {Garbage}) /\ initLen \in 0..Room /\ spilled \in SUBSET Value
      BY ONLY <1>1, <1>2, <1>6
    <3> QED BY ONLY <1>1, <3>1 DEF FixedTypeOK
  <2>5. UStrTypeOK
    <3>1. NoText.bytes \in Seq(Byte) /\ NoText.given \in Seq(Byte)
      BY <1>6 DEF NoText
    <3> QED BY <1>1, UStrAssumption DEF UStrTypeOK, NoText
  <2> QED BY <2>1, <2>2, <2>3, <2>4, <2>5
<1>9. TypeOK
  BY <1>7, <1>8 DEF TypeOK
<1>10. ControlInv
  BY ONLY <1>1 DEF ControlInv
<1>11. PlaceInv
  BY ONLY <1>1, <1>3, <1>4 DEF PlaceInv, Apart, Disjoint, Homeless
<1>12. SegmentsInv
  BY ONLY <1>1, <1>2 DEF SegmentsInv
<1>13. RegisteredInv
  BY ONLY <1>1, <1>3, <1>5 DEF RegisteredInv, IsInjective
<1>14. NodesInv
  BY ONLY <1>1, <1>2, <1>3, <1>4, <1>5 DEF NodesInv, IsInjective
<1>15. WalksInv /\ OrderInv
  BY ONLY <1>2, <1>4 DEF WalksInv, OrderInv
<1>16. ListInv
  BY ONLY <1>2, <1>3 DEF ListInv, IsInjective
<1>17. TableInv
  BY ONLY <1>1, <1>3, TenantsAssumption DEF TableInv, TableWaits, IsInjective, DropFn
<1>18. CellsInv
  BY ONLY <1>1, <1>2 DEF CellsInv, ByHand
<1>19. FixedInv
  BY ONLY <1>1, <1>2, <1>3, TenantsAssumption DEF FixedInv, FixedWaits, DropFn, Sound
<1>20. FaultsExplained
  BY ONLY <1>1 DEF FaultsExplained
<1> QED BY <1>9, <1>10, <1>11, <1>12, <1>13, <1>14, <1>15, <1>16, <1>17, <1>18, <1>19, <1>20
           DEF IInv

\* The invariant holds in every state the program can reach.
THEOREM Invariance == Spec => []IInv
<1>1. Init => IInv
  BY InvariantInit
<1>2. IInv /\ [Next]_vars => IInv'
  BY InvariantStep
<1> QED BY <1>1, <1>2, PTL DEF Spec

-----------------------------------------------------------------------------
(* What follows from it                                                    *)

\* Every variable keeps its type.
THEOREM TypeCorrect == Spec => []TypeOK
<1>1. IInv => TypeOK
  BY DEF IInv
<1> QED BY <1>1, Invariance, PTL

\* A fixed array made in time never leads to a dropped value: all of its items
\* are there and undropped, or its length is zero.
LEMMA FixedReadsLive ==
  ASSUME TypeOK, CellsInv, FixedInv, Sound
  PROVE  Live(FixedSlice) /\ Live(FixedView)
<1>1. /\ cells \in Seq(Value \cup {Garbage}) /\ Room = Len(cells) /\ Room \in Nat /\ Count \in 0..Room
      /\ fixLen \in Nat /\ fixData \in BOOLEAN
  BY RegionValues DEF Room
<1>2. FixedSlice = <<>> \/ (fixData /\ FixedWaits /\ fixLen = Count /\ FixedSlice = SubSeq(cells, 1, Count))
  <2>1. CASE ~fixData
    <3>1. fixLen = 0
      BY <2>1 DEF FixedInv
    <3>2. Uninit(0) = <<>>
      BY DEF Uninit
    <3> QED BY <2>1, <3>1, <3>2 DEF FixedSlice
  <2>2. CASE fixData /\ ~FixedWaits
    <3>1. fixLen = 0
      BY <2>2 DEF FixedInv
    <3>2. SubSeq(cells, 1, 0) = <<>>
      BY ONLY <1>1
    <3> QED BY <2>2, <3>1, <3>2 DEF FixedSlice
  <2>3. CASE fixData /\ FixedWaits
    BY <2>3 DEF FixedInv, FixedSlice
  <2> QED BY <2>1, <2>2, <2>3
<1>3. ASSUME FixedWaits PROVE \A k \in 1..Count : cells[k] \in Value /\ drops[cells[k]] = 0
  <2>1. \A k \in 1..Room : cells[k] \in Value => drops[cells[k]] = 0
    BY <1>3 DEF FixedInv, Base, Sound
  <2>2. \A k \in 1..Count : k \in 1..Room
    BY ONLY <1>1
  <2>3. \A k \in 1..Count : cells[k] \in Value
    <3>1. CASE fixBy = "exact"
      BY <2>2, <3>1 DEF CellsInv
    <3>2. CASE fixBy # "exact"
      <4>1. ByHand /\ Count = initLen
        BY <3>2 DEF Sound, ByHand, Count
      <4>2. \A k \in 1..Count : k <= initLen
        BY ONLY <1>1, <4>1
      <4> QED BY <2>2, <4>1, <4>2 DEF CellsInv
    <3> QED BY <3>1, <3>2
  <2> QED BY <2>1, <2>2, <2>3
<1>4. Live(FixedSlice)
  <2>1. CASE FixedSlice = <<>>
    BY ONLY <2>1 DEF Live
  <2>2. CASE FixedWaits /\ FixedSlice = SubSeq(cells, 1, Count)
    <3>1. Len(FixedSlice) = Count /\ \A k \in 1..Count : FixedSlice[k] = cells[k]
      BY ONLY <1>1, <2>2, FirstOf
    <3> QED BY <1>3, <2>2, <3>1 DEF Live
  <2> QED BY <1>2, <2>1, <2>2
<1>5. Live(<<>>)
  BY DEF Live
<1> QED BY <1>4, <1>5 DEF FixedView, EmptyIfDeadItems

\* What a handle on a living arena reads was put there and was not dropped, a
\* list's iterator yields what it announces, and a fixed array can be read at
\* any time.
LEMMA ReadsLiveHolds ==
  ASSUME IInv
  PROVE  ReadsLive
<1>1. TypeOK /\ ControlInv /\ PlaceInv /\ SegmentsInv /\ TableInv /\ CellsInv /\ FixedInv
  BY DEF IInv
<1>2. /\ ListItems \in Seq(Value) /\ Len(ListItems) = listLen
      /\ ArrayItems \in Seq(Value) /\ Len(ArrayItems) = arrLen /\ \A i \in 1..arrLen : ArrayItems[i] = ptrs[i]
  BY <1>1, ListSide, ArraySide
<1>3. Live(<<>>) /\ Len(<<>>) = 0
  BY DEF Live
<1>4. Live(ListView) /\ Len(ListView) = ListViewLen
  <2>1. CASE IsAlive
    <3>1. \A k \in 1..Len(ListItems) : ListItems[k] \in Value /\ ListItems[k] \in Range(ListItems)
      BY ONLY <1>2, InRange
    <3>2. \A k \in 1..Len(ListItems) : drops[ListItems[k]] = 0
      BY <1>1, <2>1, <3>1 DEF PlaceInv, IsAlive
    <3> QED BY <1>2, <2>1, <3>1, <3>2 DEF Live, ListView, ListViewLen
  <2> QED BY <1>3, <2>1 DEF ListView, ListViewLen
<1>5. Live(ArrayView)
  <2>1. CASE IsAlive
    <3>1. \A k \in 1..arrLen : drops[ptrs[k]] = 0
      <4>1. CASE arrStage = "none"
        BY <1>1, <4>1 DEF TableInv
      <4>2. CASE arrStage # "none"
        BY <1>1, <2>1, <4>2 DEF TableInv, IsAlive
      <4> QED BY <4>1, <4>2
    <3>2. \A k \in 1..Len(ArrayItems) : ArrayItems[k] \in Value
      BY ONLY <1>2
    <3> QED BY <1>2, <2>1, <3>1, <3>2 DEF Live, ArrayView
  <2> QED BY <1>3, <2>1 DEF ArrayView
<1>6. \A v \in Range(nodes) : NView(v) # None => drops[v] = 0
  BY <1>1 DEF PlaceInv, NView, IsAlive
<1>7. Sound => Live(FixedView) /\ Live(FixedSlice)
  BY <1>1, FixedReadsLive
<1> QED BY <1>4, <1>5, <1>6, <1>7 DEF ReadsLive

\* In every state, what a handle on a living arena reads was put there and not
\* dropped (list.rs:195, array.rs:190, array_fixed.rs:240).
THEOREM ReadsOnlyLive == Spec => []ReadsLive
<1>1. IInv => ReadsLive
  BY ReadsLiveHolds
<1> QED BY <1>1, Invariance, PTL

\* A value is dropped after all that was tied to it, the one tied last first.
LEMMA OutlivesOrderHolds ==
  ASSUME IInv
  PROVE  OutlivesOrder
<1>1. TypeOK /\ NodesInv /\ OrderInv /\ nodes \in Seq(Value) /\ owned \in [Value -> Seq(Value)]
  BY TypeParts DEF IInv
<1> SUFFICES ASSUME NEW p \in Range(nodes)
             PROVE  /\ drops[p] > 0 /\ ~unwinding => \A v \in Range(owned[p]) : drops[v] > 0
                    /\ \A k \in 1..Len(nodes) : \A j \in 1..k :
                         {nodes[j], nodes[k]} \subseteq Range(owned[p]) =>
                           (drops[nodes[j]] > 0 => drops[nodes[k]] > 0)
  BY Zenon DEF OutlivesOrder
<1>2. p \in Value /\ owned[p] \in Seq(Value)
  <2>1. \E i \in 1..Len(nodes) : nodes[i] = p
    BY ONLY <1>1, p \in Range(nodes), InRange
  <2> QED BY <1>1, <2>1
<1>3. \A v : v \in Range(owned[p]) <=> \E i \in 1..Len(owned[p]) : owned[p][i] = v
  BY ONLY <1>2, InRange
<1>4. drops[p] > 0 /\ ~unwinding => \A v \in Range(owned[p]) : drops[v] > 0
  BY <1>1, <1>2, <1>3 DEF OrderInv
<1>5. ASSUME NEW k \in 1..Len(nodes), NEW j \in 1..k, {nodes[j], nodes[k]} \subseteq Range(owned[p]),
             drops[nodes[j]] > 0
      PROVE  drops[nodes[k]] > 0
  <2>1. CASE j = k
    BY <1>5, <2>1
  <2>2. CASE j < k
    <3>1. j \in 1..Len(nodes) /\ Len(nodes) \in Nat
      BY ONLY <1>1, k \in 1..Len(nodes), j \in 1..k
    <3>2. PICK i \in 1..Len(owned[p]) : owned[p][i] = nodes[j]
      BY <1>3, <1>5
    <3>3. PICK h \in 1..Len(owned[p]) : owned[p][h] = nodes[k]
      BY <1>3, <1>5
    <3>4. h < i
      BY <1>1, <1>2, <2>2, <3>1, <3>2, <3>3 DEF NodesInv
    <3>5. h \in 1..(i - 1) /\ Touched(owned[p][i])
      BY <1>2, <1>5, <3>2, <3>4 DEF Touched
    <3> QED BY <1>1, <1>2, <3>3, <3>5 DEF OrderInv
  <2> QED BY <2>1, <2>2
<1> QED BY <1>4, <1>5

\* In every state, a value that was dropped was dropped after all that was tied
\* to it with outlives, the one tied last first (n.rs:23).
THEOREM DropsInOrder == Spec => []OutlivesOrder
<1>1. IInv => OutlivesOrder
  BY OutlivesOrderHolds
<1> QED BY <1>1, Invariance, PTL

\* Undefined behaviour is met only where the iterator or the initializer leads
\* to it.
THEOREM FaultsAreExplained == Spec => []FaultsExplained
<1>1. IInv => FaultsExplained
  BY DEF IInv
<1> QED BY <1>1, Invariance, PTL

\* In an arena that died without a panic, every value an N holds was dropped:
\* the one that was not and was placed first would hang on another such value,
\* placed before it.
LEMMA NodesDropped ==
  ASSUME IInv, phase = "dead", ~unwinding, NEW v \in Range(nodes)
  PROVE  drops[v] = 1
<1>1. /\ TypeOK /\ ControlInv /\ PlaceInv /\ RegisteredInv /\ NodesInv /\ OrderInv
      /\ nodes \in Seq(Value) /\ owned \in [Value -> Seq(Value)] /\ Len(nodes) \in Nat
  BY TypeParts DEF IInv
<1>2. registered = <<>> /\ walks = <<>>
  BY <1>1 DEF ControlInv
<1>3. Range(registered) = {} /\ Walked = {}
  <2>1. Len(walks) = 0
    BY ONLY <1>2
  <2> QED BY ONLY <1>2, <2>1, NoElements DEF Walked
<1>4. \A k \in 1..Len(nodes) : nodes[k] \in Range(nodes) /\ nodes[k] \in Value
  BY ONLY <1>1, InRange
<1>5. \A k \in 1..Len(nodes) : drops[nodes[k]] \in {0, 1}
  BY <1>1, <1>4 DEF PlaceInv
<1> DEFINE Left == { k \in 1..Len(nodes) : drops[nodes[k]] = 0 }
<1>6. Left = {}
  <2> SUFFICES ASSUME Left # {} PROVE FALSE
    OBVIOUS
  <2>1. Left \subseteq Nat
    OBVIOUS
  <2>2. PICK m \in Left : \A k \in Left : m <= k
    BY <2>1, LeastOf
  <2>3. m \in 1..Len(nodes) /\ drops[nodes[m]] = 0
    OBVIOUS
  <2>4. \A k \in 1..Len(nodes) : drops[nodes[k]] = 0 => m <= k
    BY <2>2
  <2> HIDE DEF Left
  <2>5. nodes[m] \in Hung
    BY <1>1, <1>3, <1>4, <2>3 DEF RegisteredInv, Direct, Touched
  <2>6. PICK p \in Value : nodes[m] \in Range(owned[p])
    BY <2>5 DEF Hung
  <2>7. PICK i \in 1..Len(owned[p]) : owned[p][i] = nodes[m]
    <3>1. owned[p] \in Seq(Value)
      BY ONLY <1>1, p \in Value
    <3> QED BY ONLY <2>6, <3>1, InRange
  <2>8. p \in Range(nodes)
    BY <1>1, <2>7, Hanging
  <2>9. PICK a \in 1..Len(nodes) : nodes[a] = p
    BY ONLY <1>1, <2>8, InRange
  <2>10. a < m
    BY <1>1, <2>3, <2>6, <2>9 DEF NodesInv
  <2>11. drops[p] = 1
    BY ONLY <1>5, <2>3, <2>4, <2>9, <2>10, a \in 1..Len(nodes)
  <2>12. drops[owned[p][i]] > 0
    <3>1. drops[p] > 0
      BY <2>11
    <3> QED BY <1>1, <3>1 DEF OrderInv
  <2> QED BY <2>3, <2>7, <2>12
<1>7. \E k \in 1..Len(nodes) : nodes[k] = v
  BY ONLY <1>1, v \in Range(nodes), InRange
<1> QED BY <1>5, <1>6, <1>7

\* Where a value can be, and how often it was dropped there, in an arena that
\* died without a panic.
LEMMA DroppedExactlyHolds ==
  ASSUME IInv
  PROVE  DroppedExactly
<1> SUFFICES ASSUME phase = "dead", ~unwinding, NEW v \in Value
             PROVE  drops[v] = (IF v \in outside THEN 0 ELSE 1)
                                 + (IF v \in Extra THEN 1 ELSE 0) - (IF v \in Lost THEN 1 ELSE 0)
  BY DEF DroppedExactly
<1>1. TypeOK /\ ControlInv /\ PlaceInv /\ SegmentsInv /\ RegisteredInv /\ TableInv /\ CellsInv /\ FixedInv
  BY DEF IInv
<1>2. /\ Disjoint(outside, Range(nodes), Range(ListItems), Range(ArrayItems), Held, spilled)
      /\ cells \in Seq(Value \cup {Garbage}) /\ v # Garbage
      /\ running # "table" /\ running # "fixed" /\ Range(registered) = {} /\ Walked = {}
  <2>1. Len(walks) = 0 /\ registered = <<>> /\ running = None
    BY <1>1 DEF ControlInv
  <2> QED BY <1>1, <2>1, TypeParts, NoElements, TenantsAssumption DEF PlaceInv, Apart, Walked,
             DropFn
<1>3. /\ v \in Extra <=> v \in Held /\ fixStage = "array" /\ fixBy = "init"
      /\ v \in Lost <=> v \in spilled \/ (v \in Held /\ fixStage # "array" /\ fixBy = "c")
  BY <1>2 DEF Extra, Lost, Held
<1>4. CASE v \in outside
  <2>1. drops[v] = 0
    BY <1>1, <1>4 DEF PlaceInv
  <2>2. v \notin Extra /\ v \notin Lost
    BY <1>2, <1>3, <1>4 DEF Disjoint
  <2> QED BY <1>4, <2>1, <2>2
<1>5. CASE v \in spilled
  <2>1. drops[v] = 0
    BY <1>1, <1>5 DEF PlaceInv
  <2>2. v \notin Extra /\ v \in Lost /\ v \notin outside
    BY <1>2, <1>3, <1>5 DEF Disjoint
  <2> QED BY <2>1, <2>2
<1>6. CASE v \notin outside /\ v \notin spilled /\ v \notin Held
  <2>1. v \notin Extra /\ v \notin Lost
    BY <1>3, <1>6
  <2>2. drops[v] = 1
    <3>1. CASE v \in Range(nodes)
      BY <3>1, NodesDropped
    <3>2. CASE v \in Range(ListItems)
      BY <1>1, <1>2, <3>2 DEF RegisteredInv, Direct, Touched, PlaceInv
    <3>3. CASE v \in Range(ArrayItems)
      <4>1. /\ ArrayItems \in Seq(Value) /\ Len(ArrayItems) = arrLen
            /\ \A i \in 1..arrLen : ArrayItems[i] = ptrs[i]
        BY <1>1, ArraySide
      <4>2. PICK i \in 1..arrLen : ptrs[i] = v
        BY ONLY <3>3, <4>1, InRange
      <4>3. arrStage # "none"
        BY <1>1, <4>2 DEF TableInv
      <4>4. ~TableWaits
        BY <1>2 DEF TableWaits
      <4> QED BY <1>1, <1>2, <4>2, <4>3, <4>4 DEF TableInv
    <3>4. CASE v \in Homeless
      BY <1>1, <3>4 DEF PlaceInv
    <3> QED BY <1>6, <3>1, <3>2, <3>3, <3>4 DEF Homeless
  <2> QED BY <1>6, <2>1, <2>2
<1>7. CASE v \in Held
  <2>1. v \notin outside /\ v \notin spilled
    BY <1>2, <1>7 DEF Disjoint
  <2>2. PICK k \in 1..Len(cells) : cells[k] = v
    BY ONLY <1>2, <1>7, HeldCells DEF Held
  <2>3. /\ Room = Len(cells) /\ Count \in 0..Room /\ Room \in Nat
        /\ fixBy \in {"none", "exact", "fixed", "dying", "list", "panics", "c", "init"}
        /\ fixStage \in {"none", "failed", "uninit", "array", "late"}
    BY <1>1, RegionValues, TypeParts DEF Room, FixedTypeOK
  <2>4. fixStage # "none"
    BY <1>1, <2>2 DEF CellsInv
  <2>5. ~FixedWaits
    BY <1>2 DEF FixedWaits
  <2>6. \A i \in 1..Count : cells[i] \in Value /\ drops[cells[i]] = Base + 1
    BY <1>1, <1>2, <2>4, <2>5 DEF FixedInv
  <2>7. drops[v] = IF k <= Count THEN Base + 1 ELSE Base
    <3>1. CASE k <= Count
      BY ONLY <2>2, <2>3, <2>6, <3>1, k \in 1..Len(cells)
    <3>2. CASE k > Count
      BY <1>1, <2>2, <2>3, <3>2 DEF CellsInv
    <3> QED BY ONLY <2>2, <2>3, <3>1, <3>2, k \in 1..Len(cells)
  <2>8. ByHand => k <= initLen
    BY <1>1, <2>2, <2>3 DEF CellsInv
  <2>9. ~ByHand => fixStage \in {"array", "failed"}
    BY <1>1 DEF CellsInv
  <2>10. k <= Count <=> fixStage \in {"array", "failed"}
    BY ONLY <2>2, <2>3, <2>8, <2>9, k \in 1..Len(cells) DEF Count
  <2>11. fixBy # "none" /\ (fixStage = "failed" => ~ByHand)
    <3>1. ByHand => initLen # 0
      BY ONLY <2>2, <2>8, k \in 1..Len(cells), <2>3
    <3> QED BY <1>1, <3>1 DEF CellsInv, ByHand
  <2>12. CASE fixBy = "init"
    BY <1>3, <1>7, <2>1, <2>3, <2>7, <2>10, <2>11, <2>12 DEF Base, ByHand
  <2>13. CASE fixBy = "c"
    BY <1>3, <1>7, <2>1, <2>3, <2>7, <2>10, <2>11, <2>13 DEF Base, ByHand
  <2>14. CASE ~ByHand
    BY <1>3, <1>7, <2>1, <2>7, <2>9, <2>10, <2>14 DEF Base, ByHand
  <2> QED BY <2>3, <2>11, <2>12, <2>13, <2>14 DEF ByHand
<1> QED BY <1>4, <1>5, <1>6, <1>7

\* Every value a collection took or refused is dropped once when the arena has
\* died without a panic, an initializer's once more, and one written past the
\* end of a region or finished too late not at all.
THEOREM AllDroppedExactly == Spec => []DroppedExactly
<1>1. IInv => DroppedExactly
  BY DroppedExactlyHolds
<1> QED BY <1>1, Invariance, PTL

-----------------------------------------------------------------------------
(* The list implements an owned sequence                                   *)

\* The items of s that were dropped, when the drops are counted by d.
DroppedBy(s, d) == { v \in Range(s) : v \in Value /\ d[v] > 0 }

\* The dropped items of the abstract sequence, in both states.
LEMMA DroppedAs ==
  ASSUME NEW s, NEW s1
  PROVE  /\ Dropped(s) = DroppedBy(s, drops)
         /\ { v \in Range(s1) : v \in Value /\ drops'[v] > 0 } = DroppedBy(s1, drops')
BY DEF Dropped, DroppedBy

\* It is what the counts of these items say.
LEMMA SameDropped ==
  ASSUME NEW s, NEW d, NEW e, \A v \in Range(s) : e[v] = d[v]
  PROVE  DroppedBy(s, e) = DroppedBy(s, d)
BY DEF DroppedBy

\* Before the first drop none is among them.
LEMMA NothingDropped ==
  ASSUME NEW s, NEW d, \A v \in Range(s) : d[v] = 0
  PROVE  DroppedBy(s, d) = {}
BY DEF DroppedBy

\* When the first k - 1 were dropped, and now the next one is.
LEMMA NextDropped ==
  ASSUME NEW s \in Seq(Value), NEW d, NEW e, NEW k \in 1..Len(s),
         \A i \in 1..Len(s) : (d[s[i]] > 0 <=> i < k) /\ (e[s[i]] > 0 <=> i <= k)
  PROVE  /\ DroppedBy(s, d) = Range(SubSeq(s, 1, k - 1))
         /\ DroppedBy(s, e) = DroppedBy(s, d) \cup {s[k]}
<1>1. /\ SubSeq(s, 1, k - 1) \in Seq(Value) /\ Len(SubSeq(s, 1, k - 1)) = k - 1
      /\ \A i \in 1..(k - 1) : SubSeq(s, 1, k - 1)[i] = s[i]
  <2>1. k - 1 \in 0..Len(s)
    OBVIOUS
  <2> QED BY <2>1, FirstOf
<1>2. \A v : v \in Range(SubSeq(s, 1, k - 1)) <=> \E i \in 1..(k - 1) : s[i] = v
  <2> DEFINE t == SubSeq(s, 1, k - 1)
  <2> HIDE DEF t
  <2>1. t \in Seq(Value) /\ Len(t) = k - 1 /\ \A i \in 1..(k - 1) : t[i] = s[i]
    BY <1>1 DEF t
  <2>2. \A v : v \in Range(t) <=> \E i \in 1..Len(t) : t[i] = v
    BY ONLY <2>1, InRange
  <2>3. \A v : v \in Range(t) <=> \E i \in 1..(k - 1) : s[i] = v
    BY ONLY <2>1, <2>2
  <2> QED BY <2>3 DEF t
<1>3. \A v : v \in Range(s) <=> \E i \in 1..Len(s) : s[i] = v
  BY ONLY s \in Seq(Value), InRange
<1>4. \A i \in 1..Len(s) : s[i] \in Value
  OBVIOUS
<1>5. DroppedBy(s, d) = Range(SubSeq(s, 1, k - 1))
  <2>1. \A v : v \in DroppedBy(s, d) <=> \E i \in 1..Len(s) : s[i] = v /\ d[s[i]] > 0
    BY <1>3, <1>4 DEF DroppedBy
  <2>2. \A i : (i \in 1..Len(s) /\ i < k) <=> i \in 1..(k - 1)
    OBVIOUS
  <2> QED BY <1>2, <2>1, <2>2
<1>6. DroppedBy(s, e) = DroppedBy(s, d) \cup {s[k]}
  <2>1. \A v : v \in DroppedBy(s, d) <=> \E i \in 1..Len(s) : s[i] = v /\ d[s[i]] > 0
    BY <1>3, <1>4 DEF DroppedBy
  <2>2. \A v : v \in DroppedBy(s, e) <=> \E i \in 1..Len(s) : s[i] = v /\ e[s[i]] > 0
    BY <1>3, <1>4 DEF DroppedBy
  <2>3. \A i \in 1..Len(s) : i <= k <=> (i < k \/ i = k)
    OBVIOUS
  <2> QED BY <2>1, <2>2, <2>3
<1> QED BY <1>5, <1>6

\* An arena never comes back to life.
LEMMA NeverRevived ==
  ASSUME TypeOK, [Next]_vars
  PROVE  IsAlive' => IsAlive
<1>1. CASE Call \/ (ArrayStep /\ CallPanics)
  BY <1>1 DEF Call, CallPanics, Panics, IsAlive
<1>2. CASE (ArrayStep /\ StartTable) \/ (FixedStep /\ StartFixed)
  BY <1>2, Zenon DEF StartTable, StartFixed, Enter, IsAlive
<1>3. CASE FixedStep /\ EndFixed
  BY <1>3 DEF EndFixed, EndEntry, IsAlive
<1>4. CASE ArenaStep
  BY <1>4, Zenon DEF ArenaStep, DropArena, StartValue, Enter, OpenNext, DropOwn, DropHead,
     DropReturn, DropPanic,
     Panics, EndEntry, EndUnwind, FinishChain, IsAlive
<1> QED BY <1>1, <1>2, <1>3, <1>4, CallKinds

\* When an item was added behind the others, they are a prefix.
LEMMA PrefixOf ==
  ASSUME NEW S, NEW s \in Seq(S), NEW v \in S
  PROVE  IsPrefix(s, Append(s, v))
<1>1. Append(s, v) \in Seq(S) /\ Len(Append(s, v)) = Len(s) + 1 /\ \A i \in 1..Len(s) : Append(s, v)[i] = s[i]
  BY Pushed
<1>2. /\ SubSeq(s, 1, Len(s)) \in Seq(S) /\ Len(SubSeq(s, 1, Len(s))) = Len(s)
      /\ \A i \in 1..Len(s) : SubSeq(s, 1, Len(s))[i] = s[i]
  BY FirstOf
<1>3. /\ SubSeq(Append(s, v), 1, Len(s)) \in Seq(S) /\ Len(SubSeq(Append(s, v), 1, Len(s))) = Len(s)
      /\ \A i \in 1..Len(s) : SubSeq(Append(s, v), 1, Len(s))[i] = Append(s, v)[i]
  BY <1>1, FirstOf
<1> DEFINE a == SubSeq(s, 1, Len(s))
           b == SubSeq(Append(s, v), 1, Len(s))
<1>4. a \in Seq(S) /\ b \in Seq(S) /\ Len(a) = Len(s) /\ Len(b) = Len(s) /\ \A i \in 1..Len(s) : a[i] = b[i]
  BY <1>1, <1>2, <1>3
<1> HIDE DEF a, b
<1>5. a = b
  BY ONLY <1>4, SameSequence
<1> QED BY <1>1, <1>5 DEF a, b, IsPrefix

\* The list between two steps, seen from outside.
LEMMA ListStarts ==
  ASSUME Init
  PROVE  ListSequence!Init
<1>1. ListItems = <<>> /\ phase = "alive"
  BY DEF Init, ListInit, TenantsInit, ListItems
<1>2. Dropped(<<>>) = {}
  BY NoElements DEF Dropped
<1> QED BY <1>1, <1>2 DEF ListSequence!Init, IsAlive

\* List::push gives an item to the sequence.
LEMMA ListGives ==
  ASSUME IInv, IInv', NEW v \in Value, ListPush(v), ListItems' = Append(ListItems, v)
  PROVE  ListSequence!Give
<1>1. IsAlive /\ IsAlive' /\ drops' = drops
  BY DEF ListPush, Takes, arenaVars, IsAlive
<1>2. ListItems \in Seq(Value) /\ ListItems' \in Seq(Value) /\ IsInjective(ListItems')
  <2>1. ListItems \in Seq(Value)
    BY ListSide DEF IInv
  <2> QED BY <2>1, Pushed DEF IInv, ListInv
<1>3. IsPrefix(ListItems, ListItems')
  BY ONLY <1>2, ListItems' = Append(ListItems, v), v \in Value, PrefixOf
<1>4. \A u \in Range(ListItems) : drops[u] = 0
  BY <1>1 DEF IInv, PlaceInv, IsAlive
<1>5. \A u \in Range(ListItems') : drops'[u] = 0
  BY <1>1 DEF IInv, PlaceInv, IsAlive
<1>6. Dropped(ListItems) = {} /\ Dropped(ListItems)' = {}
  BY <1>4, <1>5 DEF Dropped
<1>7. ListSequence!IsInjective(ListItems') /\ ListSequence!IsPrefix(ListItems, ListItems')
  BY <1>2, <1>3, Zenon DEF IsInjective, IsPrefix, ListSequence!IsInjective, ListSequence!IsPrefix
<1>8. UNCHANGED <<IsAlive, Dropped(ListItems)>>
  BY <1>1, <1>6
<1> QED BY <1>1, <1>2, <1>7, <1>8 DEF ListSequence!Give

\* The list's next item is dropped: it is the one whose drop function runs, all
\* before it were dropped, none behind it was begun with.
LEMMA ListDrops ==
  ASSUME IInv, ArenaStep, DropOwn, walks[Len(walks)].of \in Range(ListItems)
  PROVE  ListSequence!DropNext
<1> DEFINE x == walks[Len(walks)].of
<1>1. /\ TypeOK /\ WalksInv /\ ListInv /\ SegmentsInv /\ ControlInv
      /\ drops \in [Value -> Nat] /\ ListItems \in Seq(Value) /\ Len(ListItems) \in Nat
  BY ListSide, TypeParts DEF IInv
<1>2. /\ x \in Value /\ drops[x] = 0 /\ x \in Walked
      /\ \A v \in Value : drops'[v] = IF v = x THEN 1 ELSE drops[v]
  BY <1>1, DropOwnValue
<1>3. x \in Range(ListItems)
  OBVIOUS
<1> HIDE DEF x
<1>4. PICK k \in 1..Len(ListItems) : ListItems[k] = x
  BY ONLY <1>1, <1>3, InRange
<1>5. \A i \in 1..Len(ListItems) : i < k => drops[ListItems[i]] > 0
  <2>1. Touched(ListItems[k])
    BY <1>2, <1>4 DEF Touched
  <2>2. \A i \in 1..(k - 1) : drops[ListItems[i]] > 0
    BY <1>1, <2>1 DEF ListInv
  <2> QED BY ONLY <1>1, <2>2, k \in 1..Len(ListItems)
<1>6. \A i \in 1..Len(ListItems) : i > k => ~(drops[ListItems[i]] > 0)
  <2> SUFFICES ASSUME NEW i \in 1..Len(ListItems), i > k, drops[ListItems[i]] > 0 PROVE FALSE
    OBVIOUS
  <2>1. Touched(ListItems[i]) /\ k \in 1..(i - 1)
    BY DEF Touched
  <2>2. drops[ListItems[k]] > 0
    BY <1>1, <2>1 DEF ListInv
  <2> QED BY <1>2, <1>4, <2>2
<1>7. \A i \in 1..Len(ListItems) : ListItems[i] \in Value /\ drops[ListItems[i]] \in Nat
                                   /\ (ListItems[i] = x => i = k)
  <2>1. \A i, j \in 1..Len(ListItems) : ListItems[i] = ListItems[j] => i = j
    BY <1>1, Differ DEF ListInv
  <2>2. \A i \in 1..Len(ListItems) : ListItems[i] \in Value
    BY ONLY <1>1
  <2> QED BY ONLY <1>1, <1>4, <2>1, <2>2, k \in 1..Len(ListItems)
<1>8. \A i \in 1..Len(ListItems) : (drops[ListItems[i]] > 0 <=> i < k) /\ (drops'[ListItems[i]] > 0 <=> i <= k)
  <2> SUFFICES ASSUME NEW i \in 1..Len(ListItems)
               PROVE  (drops[ListItems[i]] > 0 <=> i < k) /\ (drops'[ListItems[i]] > 0 <=> i <= k)
    OBVIOUS
  <2>1. CASE i = k
    BY ONLY <1>2, <1>4, <2>1, k \in 1..Len(ListItems)
  <2>2. CASE i # k
    <3>1. drops'[ListItems[i]] = drops[ListItems[i]]
      BY ONLY <1>2, <1>7, <2>2, i \in 1..Len(ListItems)
    <3> QED BY ONLY <1>5, <1>6, <2>2, <3>1, i \in 1..Len(ListItems), k \in 1..Len(ListItems)
  <2> QED BY <2>1, <2>2
<1>9. ListItems' = ListItems
  BY ArenaLeaves
<1>10. /\ Dropped(ListItems) = Range(SubSeq(ListItems, 1, k - 1))
       /\ Dropped(ListItems)' = Dropped(ListItems) \cup {ListItems[k]}
  <2>1. /\ DroppedBy(ListItems, drops) = Range(SubSeq(ListItems, 1, k - 1))
        /\ DroppedBy(ListItems, drops') = DroppedBy(ListItems, drops) \cup {ListItems[k]}
    BY ONLY <1>1, <1>8, k \in 1..Len(ListItems), NextDropped
  <2> QED BY <1>9, <2>1 DEF Dropped, DroppedBy
<1>11. ~IsAlive /\ phase' = phase
  BY DEF DropOwn, Inside, IsAlive
<1>12. UNCHANGED <<IsAlive, ListItems>>
  BY <1>9, <1>11 DEF IsAlive
<1>13. ListSequence!Range(SubSeq(ListItems, 1, k - 1)) = Range(SubSeq(ListItems, 1, k - 1))
  BY DEF ListSequence!Range, Range
<1> QED BY <1>10, <1>11, <1>12, <1>13 DEF ListSequence!DropNext

\* Nothing of the list changes, except that its arena may die.
LEMMA ListKept ==
  ASSUME IsAlive' => IsAlive, ListItems' = ListItems, \A v \in Range(ListItems) : drops'[v] = drops[v]
  PROVE  ListSequence!Close \/ UNCHANGED ListSequence!sequenceVars
<1>1. Dropped(ListItems)' = Dropped(ListItems)
  BY DEF Dropped
<1>2. CASE IsAlive' <=> IsAlive
  BY <1>1, <1>2 DEF ListSequence!sequenceVars
<1>3. CASE ~IsAlive'
  BY <1>1, <1>3 DEF ListSequence!Close
<1> QED BY <1>2, <1>3

\* Every step is one of the sequence's, or changes nothing of it.
LEMMA ListSteps ==
  ASSUME IInv, IInv', [Next]_vars
  PROVE  [ListSequence!Next]_ListSequence!sequenceVars
<1>1. /\ TypeOK /\ ControlInv /\ SegmentsInv /\ TableInv /\ PlaceInv /\ CellsInv /\ FixedInv /\ WalksInv
      /\ ListItems \in Seq(Value)
  BY ListSide DEF IInv
<1>2. IsAlive' => IsAlive
  BY <1>1, NeverRevived
<1>3. CASE ValuesKept
  BY <1>2, <1>3, ListKept DEF ListSequence!Next, ValuesKept
<1>4. ASSUME NEW v \in Value, NStep, NNew(v) \/ \E p \in Value : NOutlives(p, v) PROVE UNCHANGED ListSequence!sequenceVars
  <2>1. drops' = drops /\ UNCHANGED listVars /\ phase' = phase
    BY <1>4 DEF NStep, OnlyN, NNew, NOutlives, Takes, arenaVars
  <2> QED BY <2>1, ListUntouched DEF ListSequence!sequenceVars, Dropped, IsAlive
<1>5. ASSUME NEW v \in Value, ListPush(v), ListItems' = Append(ListItems, v) PROVE ListSequence!Next
  BY <1>5, ListGives DEF ListSequence!Next
<1>6. CASE ArenaStep /\ (StartValue \/ OpenNext)
  <2>1. drops' = drops /\ phase' = phase
    BY <1>6, Zenon DEF StartValue, Enter, OpenNext
  <2> QED BY <1>6, <2>1, ArenaLeaves DEF ListSequence!sequenceVars, Dropped, IsAlive
<1>7. CASE ArenaStep /\ DropOwn
  <2>1. CASE walks[Len(walks)].of \in Range(ListItems)
    BY <1>7, <2>1, ListDrops DEF ListSequence!Next
  <2>2. CASE walks[Len(walks)].of \notin Range(ListItems)
    <3>1. \A v \in Value : drops'[v] = IF v = walks[Len(walks)].of THEN 1 ELSE drops[v]
      BY <1>1, <1>7, DropOwnValue
    <3>2. \A v \in Range(ListItems) : v \in Value
      BY <1>1, PlacesTyped
    <3>3. \A v \in Range(ListItems) : drops'[v] = drops[v]
      BY <2>2, <3>1, <3>2
    <3> QED BY <1>2, <1>7, <3>3, ArenaLeaves, ListKept DEF ListSequence!Next
  <2> QED BY <2>1, <2>2
<1> QED BY <1>1, <1>3, <1>4, <1>5, <1>6, <1>7, ValueSteps

\* The segments implement the owned sequence.
THEOREM ListRefines == Spec => ListImplements
<1>1. Init => ListSequence!Init
  BY ListStarts
<1>2. IInv /\ IInv' /\ [Next]_vars => [ListSequence!Next]_ListSequence!sequenceVars
  BY ListSteps
<1> QED BY <1>1, <1>2, Invariance, PTL DEF Spec, ListImplements, ListSequence!Spec

-----------------------------------------------------------------------------
(* So does the array                                                       *)

\* At the start the array is the empty sequence.
LEMMA ArrayStarts ==
  ASSUME Init
  PROVE  ArraySequence!Init
<1>1. ptrs = <<>> /\ arrLen = 0 /\ phase = "alive"
  BY DEF Init, ArrayInit, TenantsInit
<1>2. ArrayItems = <<>>
  BY ONLY <1>1 DEF ArrayItems
<1>3. Dropped(<<>>) = {}
  BY NoElements DEF Dropped
<1> QED BY <1>1, <1>2, <1>3 DEF ArraySequence!Init, IsAlive

\* No item of a living array was dropped.
LEMMA ArrayUndropped ==
  ASSUME IInv, IsAlive
  PROVE  /\ ArrayItems \in Seq(Value) /\ \A v \in Range(ArrayItems) : drops[v] = 0
         /\ Dropped(ArrayItems) = {}
<1>1. /\ TableInv /\ ArrayItems \in Seq(Value) /\ Len(ArrayItems) = arrLen
      /\ \A i \in 1..arrLen : ArrayItems[i] = ptrs[i]
  BY ArraySide DEF IInv
<1>2. \A i \in 1..arrLen : drops[ptrs[i]] = 0
  <2>1. CASE arrStage = "none"
    BY <1>1, <2>1 DEF TableInv
  <2>2. CASE arrStage # "none"
    BY <1>1, <2>2 DEF TableInv, IsAlive
  <2> QED BY <2>1, <2>2
<1>3. \A v \in Range(ArrayItems) : drops[v] = 0
  <2>1. \A v \in Range(ArrayItems) : \E i \in 1..Len(ArrayItems) : ArrayItems[i] = v
    BY ONLY <1>1, InRange
  <2> QED BY ONLY <1>1, <1>2, <2>1
<1> QED BY <1>1, <1>3 DEF Dropped

\* Nothing of the array changes, except that its arena may die.
LEMMA ArrayKept ==
  ASSUME IsAlive' => IsAlive, ArrayItems' = ArrayItems, \A v \in Range(ArrayItems) : drops'[v] = drops[v]
  PROVE  ArraySequence!Close \/ UNCHANGED ArraySequence!sequenceVars
<1>1. Dropped(ArrayItems)' = Dropped(ArrayItems)
  BY DEF Dropped
<1>2. CASE IsAlive' <=> IsAlive
  BY <1>1, <1>2 DEF ArraySequence!sequenceVars
<1>3. CASE ~IsAlive'
  BY <1>1, <1>3 DEF ArraySequence!Close
<1> QED BY <1>2, <1>3

\* Array::push gives an item to the sequence.
LEMMA ArrayGives ==
  ASSUME IInv, NEW v \in Value, ArrayPush(v)
  PROVE  ArraySequence!Give
<1>1. IsAlive /\ phase' = phase /\ drops' = drops /\ v \in outside
  BY DEF ArrayPush, Takes, arenaVars
<1>2. ArrayItems' = Append(ArrayItems, v)
  BY ArrayPushEffect DEF IInv
<1>3. /\ ArrayItems \in Seq(Value) /\ IsInjective(ArrayItems) /\ Dropped(ArrayItems) = {}
      /\ \A u \in Range(ArrayItems) : drops[u] = 0
  BY <1>1, ArrayUndropped, ArraySide DEF IInv
<1>4. v \notin Range(ArrayItems) /\ drops[v] = 0
  BY <1>1 DEF IInv, PlaceInv, Apart, Disjoint
<1>5. ArrayItems' \in Seq(Value) /\ IsInjective(ArrayItems') /\ Range(ArrayItems') = Range(ArrayItems) \cup {v}
  BY ONLY <1>2, <1>3, <1>4, v \in Value, Pushed, AppendFresh
<1>6. IsPrefix(ArrayItems, ArrayItems')
  BY ONLY <1>2, <1>3, v \in Value, PrefixOf
<1>7. Dropped(ArrayItems)' = {}
  BY <1>1, <1>3, <1>4, <1>5 DEF Dropped
<1>8. ArraySequence!IsInjective(ArrayItems') /\ ArraySequence!IsPrefix(ArrayItems, ArrayItems')
  BY <1>5, <1>6, Zenon DEF IsInjective, IsPrefix, ArraySequence!IsInjective, ArraySequence!IsPrefix
<1>9. UNCHANGED <<IsAlive, Dropped(ArrayItems)>>
  BY <1>1, <1>3, <1>7 DEF IsAlive
<1> QED BY <1>1, <1>5, <1>8, <1>9 DEF ArraySequence!Give

\* Array::pop takes one back.
LEMMA ArrayTakesBack ==
  ASSUME IInv, ArrayPop
  PROVE  ArraySequence!TakeBack
<1>1. IsAlive /\ phase' = phase /\ drops' = drops
  BY DEF ArrayPop, arenaVars
<1>2. ArrayItems' = Front(ArrayItems) /\ ArrayItems # <<>>
  BY ArrayPopEffect DEF IInv
<1>3. /\ ArrayItems \in Seq(Value) /\ IsInjective(ArrayItems) /\ Dropped(ArrayItems) = {}
      /\ \A u \in Range(ArrayItems) : drops[u] = 0
  BY <1>1, ArrayUndropped, ArraySide DEF IInv
<1>4. Range(ArrayItems') \subseteq Range(ArrayItems)
  BY ONLY <1>2, <1>3, FrontOfInjective
<1>5. Dropped(ArrayItems)' = {}
  BY <1>1, <1>3, <1>4 DEF Dropped
<1>6. UNCHANGED <<IsAlive, Dropped(ArrayItems)>>
  BY <1>1, <1>3, <1>5 DEF IsAlive
<1> QED BY <1>1, <1>2, <1>6 DEF ArraySequence!TakeBack, ArraySequence!Front, Front

\* drop_growable_array drops the next item.
LEMMA ArrayDrops ==
  ASSUME IInv, DropHead, running = "table", UNCHANGED arrVars
  PROVE  ArraySequence!DropNext
<1> DEFINE k == arrLen - Len(todo) + 1
<1>1. TypeOK /\ ControlInv /\ SegmentsInv /\ TableInv /\ CellsInv /\ FixedInv
  BY DEF IInv
<1>2. /\ ArrayItems \in Seq(Value) /\ Len(ArrayItems) = arrLen /\ arrLen \in Nat
      /\ \A i \in 1..arrLen : ArrayItems[i] = ptrs[i] /\ ptrs[i] \in Value
      /\ IsInjective(ArrayItems)
  BY <1>1, ArraySide
<1>3. /\ ~unwinding /\ Len(todo) \in Nat /\ Len(todo) <= arrLen /\ k \in 1..arrLen /\ todo[1] = ptrs[k]
      /\ drops \in [Value -> Nat] /\ todo \in Seq(Value \cup {Garbage})
      /\ arrLen - Len(todo') = k
  BY <1>1, DropHeadPlace
<1>4. arrLen - Len(todo) = k - 1
  BY ONLY <1>2, <1>3
<1> HIDE DEF k
<1>5. UNCHANGED <<ptrs, arrLen>> /\ ArrayItems' = ArrayItems
  BY ArrayUntouched DEF arrVars
<1>6. TableInv' /\ UNCHANGED <<running, unwinding, phase>> /\ phase = "dying"
  BY <1>1, TableAfterDrop DEF DropHead, Inside
<1>7. \A i \in 1..arrLen : drops[ptrs[i]] = IF i <= k - 1 THEN 1 ELSE 0
  <2>1. \A i \in 1..arrLen : drops[ptrs[i]] = IF i <= arrLen - Len(todo) THEN 1 ELSE 0
    BY <1>1, <1>3 DEF TableInv
  <2> QED BY ONLY <1>4, <2>1
<1>8. \A i \in 1..arrLen : drops'[ptrs[i]] = IF i <= k THEN 1 ELSE 0
  <2>1. running' = "table" /\ ~unwinding'
    BY <1>3, <1>6
  <2>2. \A i \in 1..arrLen : drops'[ptrs[i]] = IF i <= arrLen - Len(todo') THEN 1 ELSE 0
    BY ONLY <1>5, <1>6, <2>1 DEF TableInv
  <2> QED BY ONLY <1>3, <2>2
<1>9. \A i \in 1..Len(ArrayItems) : (drops[ArrayItems[i]] > 0 <=> i < k) /\ (drops'[ArrayItems[i]] > 0 <=> i <= k)
  <2> SUFFICES ASSUME NEW i \in 1..Len(ArrayItems)
               PROVE  (drops[ArrayItems[i]] > 0 <=> i < k) /\ (drops'[ArrayItems[i]] > 0 <=> i <= k)
    OBVIOUS
  <2>1. i \in 1..arrLen /\ ArrayItems[i] = ptrs[i]
    BY <1>2
  <2>2. i <= k - 1 <=> i < k
    BY ONLY <1>2, <1>3, <2>1
  <2>3. drops[ArrayItems[i]] = IF i < k THEN 1 ELSE 0
    BY ONLY <1>7, <2>1, <2>2
  <2>4. drops'[ArrayItems[i]] = IF i <= k THEN 1 ELSE 0
    BY ONLY <1>8, <2>1
  <2> QED BY ONLY <2>3, <2>4
<1>10. k \in 1..Len(ArrayItems)
  BY <1>2, <1>3
<1>11. /\ Dropped(ArrayItems) = Range(SubSeq(ArrayItems, 1, k - 1))
       /\ Dropped(ArrayItems)' = Dropped(ArrayItems) \cup {ArrayItems[k]}
  <2>1. /\ DroppedBy(ArrayItems, drops) = Range(SubSeq(ArrayItems, 1, k - 1))
        /\ DroppedBy(ArrayItems, drops') = DroppedBy(ArrayItems, drops) \cup {ArrayItems[k]}
    <3>1. ArrayItems \in Seq(Value)
      BY <1>2
    <3> QED BY ONLY <1>9, <1>10, <3>1, NextDropped, Zenon
  <2> QED BY <1>5, <2>1 DEF Dropped, DroppedBy
<1>12. ~IsAlive /\ UNCHANGED <<IsAlive, ArrayItems>>
  BY <1>5, <1>6 DEF IsAlive
<1>13. ArraySequence!Range(SubSeq(ArrayItems, 1, k - 1)) = Range(SubSeq(ArrayItems, 1, k - 1))
  BY DEF ArraySequence!Range, Range
<1> QED BY <1>10, <1>11, <1>12, <1>13 DEF ArraySequence!DropNext

\* Every step is one of the sequence's, or changes nothing of it.
LEMMA ArraySteps ==
  ASSUME IInv, [Next]_vars
  PROVE  [ArraySequence!Next]_ArraySequence!sequenceVars
<1>1. /\ TypeOK /\ ControlInv /\ SegmentsInv /\ TableInv /\ PlaceInv /\ CellsInv /\ FixedInv /\ RegisteredInv
      /\ WalksInv
  BY DEF IInv
<1>2. IsAlive' => IsAlive
  BY <1>1, NeverRevived
<1>3. ASSUME ArrayItems' = ArrayItems, \A v \in Range(ArrayItems) : drops'[v] = drops[v]
      PROVE  [ArraySequence!Next]_ArraySequence!sequenceVars
  BY <1>2, <1>3, ArrayKept DEF ArraySequence!Next
<1>4. CASE ~ArrayStep
  <2>1. UNCHANGED arrVars
    BY <1>4, StepKinds DEF NStep, OnlyN, ListStep, OnlyList, FixedStep, OnlyFixed, TextStep,
       OnlyText,
         ArenaStep, OnlyArena, vars
  <2>2. ArrayItems' = ArrayItems
    BY <2>1, ArrayUntouched
  <2>3. ~Register("table", None)
    BY <1>1, <1>4, Registers
  <2>4. CASE SideKept("table")
    BY <1>3, <2>2, <2>4 DEF SideKept, Mine
  <2>5. CASE DropHead /\ running = "table"
    BY <2>1, <2>5, ArrayDrops DEF ArraySequence!Next
  <2>6. CASE EndEntry("table")
    BY <1>3, <2>2, <2>6 DEF EndEntry
  <2> QED BY <1>1, <1>4, <2>3, <2>4, <2>5, <2>6, Sides
<1>5. ASSUME NEW v \in Value, ArrayPush(v) PROVE ArraySequence!Next
  BY <1>5, ArrayGives DEF ArraySequence!Next
<1>6. ASSUME ArrayPop PROVE ArraySequence!Next
  BY <1>6, ArrayTakesBack DEF ArraySequence!Next
<1>7. ASSUME NEW cap \in AskedCaps, NEW fits \in BOOLEAN, ArrayNew(cap, fits)
      PROVE  [ArraySequence!Next]_ArraySequence!sequenceVars
  <2>1. drops' = drops
    BY <1>7 DEF ArrayNew
  <2> QED BY <1>1, <1>3, <1>7, <2>1, ArrayNewEffect
<1>8. ASSUME NEW v \in Value, ArrayPushFails(v) \/ ArrayPushDead(v)
      PROVE  [ArraySequence!Next]_ArraySequence!sequenceVars
  <2>1. DropsAll({v})
    BY <1>8 DEF ArrayPushFails, ArrayPushDead, Refuses
  <2>2. ArrayItems' = ArrayItems
    BY <1>1, <1>8, ArrayPushFailsEffect, ArrayUntouched DEF ArrayPushDead
  <2>3. \A u \in Range(ArrayItems) : u \in Value /\ u \notin outside
    BY <1>1, PlacesTyped DEF PlaceInv, Apart, Disjoint
  <2> QED BY <1>1, <1>3, <2>1, <2>2, <2>3, RefusalKeeps
<1>9. CASE StartTable
  <2>1. drops' = drops /\ UNCHANGED arrVars
    BY <1>9, Zenon DEF StartTable, Enter
  <2> QED BY <1>3, <2>1, ArrayUntouched
<1> QED BY <1>4, <1>5, <1>6, <1>7, <1>8, <1>9 DEF ArrayStep

\* The table of pointers implements the owned sequence.
THEOREM ArrayRefines == Spec => ArrayImplements
<1>1. Init => ArraySequence!Init
  BY ArrayStarts
<1>2. IInv /\ [Next]_vars => [ArraySequence!Next]_ArraySequence!sequenceVars
  BY ArraySteps
<1> QED BY <1>1, <1>2, Invariance, PTL DEF Spec, ArrayImplements, ArraySequence!Spec

-----------------------------------------------------------------------------
(* So does the fixed array                                                 *)

\* The fixed array is open while its arena lives and its drop function waits.
FixedOpen == IsAlive \/ Contains(registered, Entry("fixed", None))

\* FixedOpen is what the refinement mapping calls open, in both states.
LEMMA OpenWhile ==
  ASSUME TypeOK, TypeOK'
  PROVE  /\ FixedOpen <=> IsAlive \/ FixedWaits
         /\ FixedOpen' <=> IsAlive' \/ FixedWaits'
<1>1. registered \in Seq(Entries) /\ registered' \in Seq(Entries)
  BY Zenon DEF TypeOK, TenantsTypeOK, Entries
<1>2. ASSUME NEW r \in Seq(Entries), NEW e PROVE Contains(r, e) <=> e \in Range(r)
  BY <1>2, InRange DEF Contains
<1> QED BY <1>1, <1>2 DEF FixedOpen, FixedWaits

\* The first n cells, when all of them are values.
LEMMA ItemsRow ==
  ASSUME NEW c \in Seq(Value \cup {Garbage}), NEW n \in 0..Len(c), \A i \in 1..n : c[i] \in Value,
         \A i, j \in 1..Len(c) : c[i] = c[j] /\ c[i] # Garbage => i = j
  PROVE  /\ SubSeq(c, 1, n) \in Seq(Value) /\ Len(SubSeq(c, 1, n)) = n
         /\ \A i \in 1..n : SubSeq(c, 1, n)[i] = c[i]
         /\ IsInjective(SubSeq(c, 1, n))
<1> DEFINE s == SubSeq(c, 1, n)
<1>1. s \in Seq(Value \cup {Garbage}) /\ Len(s) = n /\ \A i \in 1..n : s[i] = c[i]
  BY FirstOf
<1> HIDE DEF s
<1>2. s \in Seq(Value)
  BY ONLY <1>1, \A i \in 1..n : c[i] \in Value, Refined
<1>3. \A i, j \in 1..n : s[i] = s[j] => i = j
  <2> SUFFICES ASSUME NEW i \in 1..n, NEW j \in 1..n, s[i] = s[j] PROVE i = j
    OBVIOUS
  <2>1. c[i] = c[j] /\ c[i] # Garbage
    BY <1>1, TenantsAssumption
  <2>2. i \in 1..Len(c) /\ j \in 1..Len(c)
    OBVIOUS
  <2> QED BY <2>1, <2>2
<1>4. IsInjective(s)
  BY ONLY <1>1, <1>2, <1>3, Differ
<1> QED BY <1>1, <1>2, <1>4 DEF s

\* A fixed array made in time holds its first Count items, all of them values.
LEMMA ItemsNow ==
  ASSUME TypeOK, CellsInv, Sound
  PROVE  /\ FixedItems \in Seq(Value) /\ Len(FixedItems) = Count /\ Count \in Nat
         /\ \A i \in 1..Count : FixedItems[i] = cells[i]
         /\ IsInjective(FixedItems)
         /\ \A v \in Range(FixedItems) : v \in Held
<1>1. /\ cells \in Seq(Value \cup {Garbage}) /\ Room = Len(cells) /\ Count \in 0..Len(cells)
      /\ FixedItems = SubSeq(cells, 1, Count) /\ initLen \in 0..Len(cells)
  BY RegionValues DEF Room, FixedItems, Count, ByHand, Sound
<1>2. \A i \in 1..Count : cells[i] \in Value
  <2>1. CASE fixBy = "exact"
    BY <1>1, <2>1 DEF CellsInv
  <2>2. CASE fixBy # "exact"
    <3>1. ByHand /\ Count = initLen
      BY <2>2 DEF Sound, ByHand, Count
    <3>2. \A i \in 1..Count : i \in 1..Room /\ i <= initLen
      BY ONLY <1>1, <3>1
    <3> QED BY <3>1, <3>2 DEF CellsInv
  <2> QED BY <2>1, <2>2
<1>3. \A i, j \in 1..Len(cells) : cells[i] = cells[j] /\ cells[i] # Garbage => i = j
  BY <1>1 DEF CellsInv
<1>4. /\ FixedItems \in Seq(Value) /\ Len(FixedItems) = Count
      /\ \A i \in 1..Count : FixedItems[i] = cells[i]
      /\ IsInjective(FixedItems)
  BY ONLY <1>1, <1>2, <1>3, ItemsRow
<1>5. \A v \in Range(FixedItems) : v \in Held
  <2>1. \A v \in Range(FixedItems) : \E i \in 1..Len(FixedItems) : FixedItems[i] = v
    BY ONLY <1>4, InRange
  <2>2. \A i \in 1..Count : i \in 1..Len(cells)
    BY ONLY <1>1
  <2>3. \A v \in Range(FixedItems) : v \in Value /\ \E i \in 1..Len(cells) : cells[i] = v
    BY ONLY <1>2, <1>4, <2>1, <2>2
  <2> QED BY ONLY <1>1, <2>3, HeldCells DEF Held
<1> QED BY <1>1, <1>4, <1>5

\* At the start the fixed array is the empty sequence.
LEMMA FixedStarts ==
  ASSUME Init
  PROVE  FixedSequence!Init
<1>1. phase = "alive" /\ FixedItems = <<>>
  BY DEF Init, TenantsInit, FixedInit, FixedItems, Sound
<1>2. Dropped(<<>>) = {}
  BY NoElements DEF Dropped
<1> QED BY <1>1, <1>2 DEF FixedSequence!Init, IsAlive

\* Nothing of the fixed array changes, except that it may be closed.
LEMMA FixedSeqKept ==
  ASSUME FixedOpen' => FixedOpen, FixedItems' = FixedItems, \A v \in Range(FixedItems) : drops'[v] = drops[v]
  PROVE  FixedSequence!Close \/ UNCHANGED FixedSequence!sequenceVars
<1>1. Dropped(FixedItems)' = Dropped(FixedItems)
  BY DEF Dropped
<1>2. CASE FixedOpen' <=> FixedOpen
  BY <1>1, <1>2 DEF FixedSequence!sequenceVars, FixedOpen
<1>3. CASE ~FixedOpen'
  BY <1>1, <1>3 DEF FixedSequence!Close, FixedOpen
<1> QED BY <1>2, <1>3

\* Its items are given to it all at once.
LEMMA FixedGives ==
  ASSUME TypeOK', CellsInv', FixedInv', FixedItems = <<>>, FixedOpen, FixedOpen', FixedWaits', Sound'
  PROVE  FixedSequence!Give
<1>1. /\ cells' \in Seq(Value \cup {Garbage}) /\ initLen' \in 0..Len(cells')
      /\ fixBy' \in {"none", "exact", "c"} /\ fixStage' = "array"
  BY Zenon DEF TypeOK, FixedTypeOK, Room, Sound
<1> DEFINE n == IF fixBy' = "exact" THEN Len(cells') ELSE initLen'
<1>2. n \in 0..Len(cells') /\ FixedItems' = SubSeq(cells', 1, n)
  <2>1. FixedItems' = SubSeq(cells', 1, n)
    BY DEF FixedItems, Room
  <2>2. n \in 0..Len(cells')
    BY ONLY <1>1 DEF n
  <2> QED BY <2>1, <2>2
<1>3. \A i \in 1..n : cells'[i] \in Value /\ drops'[cells'[i]] = 0
  <2>1. \A i \in 1..Len(cells') : cells'[i] \in Value => drops'[cells'[i]] = 0
    BY <1>1 DEF FixedInv, Base, Room
  <2>2. CASE fixBy' = "exact"
    BY <1>1, <2>1, <2>2 DEF CellsInv, Room
  <2>3. CASE fixBy' # "exact"
    <3>1. \A i \in 1..Len(cells') : cells'[i] \in Value <=> i <= initLen'
      BY <1>1, <2>3 DEF CellsInv, Room, ByHand
    <3> QED BY <1>1, <2>1, <2>3, <3>1
  <2> QED BY <2>2, <2>3
<1>4. \A i, j \in 1..Len(cells') : cells'[i] = cells'[j] /\ cells'[i] # Garbage => i = j
  BY DEF CellsInv, Room
<1> HIDE DEF n
<1>5. /\ FixedItems' \in Seq(Value) /\ Len(FixedItems') = n /\ \A i \in 1..n : FixedItems'[i] = cells'[i]
      /\ IsInjective(FixedItems')
  BY ONLY <1>1, <1>2, <1>3, <1>4, ItemsRow
<1>6. IsPrefix(FixedItems, FixedItems')
  <2>1. FixedItems = <<>>
    OBVIOUS
  <2>2. SubSeq(<<>>, 1, 0) = <<>> /\ SubSeq(FixedItems', 1, 0) = <<>> /\ Len(<<>>) = 0 /\ 0 <= n
    BY ONLY <1>1, <1>2, <1>5
  <2> QED BY ONLY <1>5, <2>1, <2>2 DEF IsPrefix
<1>7. Dropped(FixedItems) = {}
  BY NoElements DEF Dropped
<1>8. Dropped(FixedItems)' = {}
  <2>1. \A v \in Range(FixedItems') : \E i \in 1..Len(FixedItems') : FixedItems'[i] = v
    BY ONLY <1>5, InRange
  <2>2. \A v \in Range(FixedItems') : drops'[v] = 0
    BY ONLY <1>3, <1>5, <2>1
  <2> QED BY <2>2 DEF Dropped
<1>9. FixedSequence!IsInjective(FixedItems') /\ FixedSequence!IsPrefix(FixedItems, FixedItems')
  BY <1>5, <1>6, Zenon DEF IsInjective, IsPrefix, FixedSequence!IsInjective, FixedSequence!IsPrefix
<1> QED BY <1>5, <1>7, <1>8, <1>9 DEF FixedSequence!Give, FixedOpen

\* drop_array drops the next item.
LEMMA FixedDrops ==
  ASSUME IInv, DropHead, running = "fixed", UNCHANGED fixVars, Sound
  PROVE  FixedSequence!DropNext
<1> DEFINE k == Count - Len(todo) + 1
<1>1. TypeOK /\ ControlInv /\ SegmentsInv /\ TableInv /\ CellsInv /\ FixedInv
  BY DEF IInv
<1>2. /\ FixedItems \in Seq(Value) /\ Len(FixedItems) = Count /\ Count \in Nat
      /\ \A i \in 1..Count : FixedItems[i] = cells[i]
  BY <1>1, ItemsNow
<1>3. /\ Len(todo) \in Nat /\ Len(todo) <= Count /\ k \in 1..Count /\ Count - Len(todo') = k /\ ~unwinding
      /\ todo[1] = cells[k]
  BY <1>1, DropHeadPlace
<1>4. Count - Len(todo) = k - 1
  BY ONLY <1>2, <1>3
<1> HIDE DEF k
<1>5. /\ UNCHANGED <<phase, registered, running, unwinding>> /\ phase = "dying" /\ fault = "none" /\ fault' # "garbage dropped"
  <2>1. UNCHANGED <<phase, registered, running, unwinding>> /\ phase = "dying" /\ fault = "none"
    BY DEF DropHead, Inside
  <2>2. todo[1] # Garbage
    BY <1>1, GarbageDropped DEF Sound
  <2>3. fault' = fault
    BY <2>2, HeadAndTail, <1>1, TypeParts, TenantParts, DropHeadEffect
  <2> QED BY <2>1, <2>3
<1>6. UNCHANGED <<fixStage, fixBy, cells, fixLen, fixData, initLen, spilled>>
  BY DEF fixVars
<1>7. FixedItems' = FixedItems /\ Base = 0 /\ Base' = 0 /\ Count' = Count
  BY <1>6 DEF FixedItems, Base, Sound, Count, ByHand, Room
<1>8. CellsInv' /\ FixedInv'
  BY <1>1, FixedAfterDrop
<1>9. \A i \in 1..Count : IF i <= k - 1 THEN drops[cells[i]] = 1 ELSE cells[i] \in Value => drops[cells[i]] = 0
  <2>1. \A i \in 1..Count : IF i <= Count - Len(todo)
                              THEN cells[i] \in Value /\ drops[cells[i]] = Base + 1
                              ELSE cells[i] \in Value => drops[cells[i]] = Base
    BY <1>1, <1>3, <1>5 DEF FixedInv
  <2> QED BY ONLY <1>4, <1>7, <2>1
<1>10. \A i \in 1..Count : IF i <= k THEN drops'[cells[i]] = 1 ELSE cells[i] \in Value => drops'[cells[i]] = 0
  <2>1. running' = "fixed" /\ ~unwinding'
    BY <1>3, <1>5
  <2>2. \A i \in 1..Count : IF i <= Count - Len(todo')
                              THEN cells[i] \in Value /\ drops'[cells[i]] = Base' + 1
                              ELSE cells[i] \in Value => drops'[cells[i]] = Base'
    BY ONLY <1>5, <1>6, <1>7, <1>8, <2>1 DEF FixedInv
  <2> QED BY ONLY <1>3, <1>7, <2>2
<1>11. \A i \in 1..Len(FixedItems) : (drops[FixedItems[i]] > 0 <=> i < k) /\ (drops'[FixedItems[i]] > 0 <=> i <= k)
  <2> SUFFICES ASSUME NEW i \in 1..Len(FixedItems)
               PROVE  (drops[FixedItems[i]] > 0 <=> i < k) /\ (drops'[FixedItems[i]] > 0 <=> i <= k)
    OBVIOUS
  <2>1. i \in 1..Count /\ FixedItems[i] = cells[i] /\ cells[i] \in Value
    BY <1>2
  <2>2. i <= k - 1 <=> i < k
    BY ONLY <1>2, <1>3, <2>1
  <2>3. drops[FixedItems[i]] = IF i < k THEN 1 ELSE 0
    BY ONLY <1>9, <2>1, <2>2
  <2>4. drops'[FixedItems[i]] = IF i <= k THEN 1 ELSE 0
    BY ONLY <1>10, <2>1
  <2> QED BY ONLY <2>3, <2>4
<1>12. k \in 1..Len(FixedItems)
  BY <1>2, <1>3
<1>13. /\ Dropped(FixedItems) = Range(SubSeq(FixedItems, 1, k - 1))
       /\ Dropped(FixedItems)' = Dropped(FixedItems) \cup {FixedItems[k]}
  <2>1. /\ DroppedBy(FixedItems, drops) = Range(SubSeq(FixedItems, 1, k - 1))
        /\ DroppedBy(FixedItems, drops') = DroppedBy(FixedItems, drops) \cup {FixedItems[k]}
    <3>1. FixedItems \in Seq(Value)
      BY <1>2
    <3> QED BY ONLY <1>11, <1>12, <3>1, NextDropped, Zenon
  <2> QED BY <1>7, <2>1 DEF Dropped, DroppedBy
<1>14. ~FixedOpen
  <2>1. ~FixedWaits
    BY <1>1 DEF FixedInv
  <2>2. registered \in Seq(Entries)
    BY <1>1, RegisteredRow
  <2>3. ~Contains(registered, Entry("fixed", None))
    BY <2>1, <2>2, InRange DEF Contains, FixedWaits
  <2> QED BY <1>5, <2>3 DEF FixedOpen, IsAlive
<1>15. UNCHANGED <<FixedOpen, FixedItems>>
  BY <1>5, <1>7 DEF FixedOpen, IsAlive
<1>16. FixedSequence!Range(SubSeq(FixedItems, 1, k - 1)) = Range(SubSeq(FixedItems, 1, k - 1))
  BY DEF FixedSequence!Range, Range
<1> QED BY <1>12, <1>13, <1>14, <1>15, <1>16 DEF FixedSequence!DropNext, FixedOpen

\* A step of the fixed array's own.
LEMMA FixedNextByFixed ==
  ASSUME IInv, IInv', FixedStep
  PROVE  [FixedSequence!Next]_FixedSequence!sequenceVars
<1>1. /\ TypeOK /\ ControlInv /\ SegmentsInv /\ TableInv /\ PlaceInv /\ CellsInv /\ FixedInv /\ RegisteredInv
      /\ TypeOK' /\ CellsInv' /\ FixedInv'
  BY DEF IInv
<1>2. /\ FixedOpen <=> IsAlive \/ FixedWaits
      /\ FixedOpen' <=> IsAlive' \/ FixedWaits'
  BY <1>1, OpenWhile
<1>3. ASSUME FixedOpen' => FixedOpen, FixedItems' = FixedItems, \A v \in Range(FixedItems) : drops'[v] = drops[v]
      PROVE  [FixedSequence!Next]_FixedSequence!sequenceVars
  BY <1>3, FixedSeqKept DEF FixedSequence!Next
<1>4. ASSUME FixedOpen' => FixedOpen, FixedItems = <<>>, FixedItems' = <<>>
      PROVE  [FixedSequence!Next]_FixedSequence!sequenceVars
  <2>1. \A v \in Range(FixedItems) : drops'[v] = drops[v]
    BY <1>4, NoElements
  <2> QED BY <1>3, <1>4, <2>1
<1>5. (~Sound => FixedItems = <<>>) /\ (~Sound' => FixedItems' = <<>>)
  BY DEF FixedItems
<1>6. ASSUME FixedOpen, ~Sound, Sound' => FixedOpen' /\ FixedWaits'
      PROVE  [FixedSequence!Next]_FixedSequence!sequenceVars
  <2>1. CASE Sound'
    BY <1>1, <1>5, <1>6, <2>1, FixedGives DEF FixedSequence!Next
  <2>2. CASE ~Sound'
    BY <1>4, <1>5, <1>6, <2>2
  <2> QED BY <2>1, <2>2
<1>7. ASSUME ~Sound, ~Sound', UNCHANGED <<phase, registered>>
      PROVE  [FixedSequence!Next]_FixedSequence!sequenceVars
  <2>1. FixedOpen' => FixedOpen
    BY <1>7 DEF FixedOpen, IsAlive
  <2> QED BY <1>4, <1>5, <1>7, <2>1
<1>8. ASSUME IsAlive, fixStage = "none", Register("fixed", None), UNCHANGED <<phase, running, unwinding>>
      PROVE  [FixedSequence!Next]_FixedSequence!sequenceVars
  <2>1. FixedWaits'
    BY <1>1, <1>8, FixedWaitsNow
  <2>2. ~Sound
    BY <1>8 DEF Sound
  <2> QED BY <1>2, <1>6, <1>8, <2>1, <2>2
<1>9. ASSUME NEW cap \in Regions, FixedReserve(cap) PROVE [FixedSequence!Next]_FixedSequence!sequenceVars
  BY <1>8, <1>9 DEF FixedReserve
<1>10. ASSUME NEW src \in Sources, NEW vs \in Batches, FixedNew(src, vs) \/ FixedNewTooBig(src, vs)
       PROVE  [FixedSequence!Next]_FixedSequence!sequenceVars
  BY <1>8, <1>10 DEF FixedNew, FixedNewTooBig
<1>11. ASSUME NEW v \in Value, InitPush(v) PROVE [FixedSequence!Next]_FixedSequence!sequenceVars
  <2>1. fixStage = "uninit" /\ fixStage' = fixStage /\ UNCHANGED <<phase, registered>>
    BY <1>11 DEF InitPush, Initializing, Refuses, arenaVars
  <2> QED BY <1>7, <2>1 DEF Sound
<1>12. ASSUME NEW vs \in Batches, FillByC(vs) PROVE [FixedSequence!Next]_FixedSequence!sequenceVars
  <2>1. fixStage = "uninit" /\ fixStage' = fixStage /\ UNCHANGED <<phase, registered>>
    BY <1>12 DEF FillByC, arenaVars
  <2> QED BY <1>7, <2>1 DEF Sound
<1>13. ASSUME NEW v \in Value, InitPushIgnored(v) PROVE [FixedSequence!Next]_FixedSequence!sequenceVars
  <2>1. fixStage = "uninit" /\ UNCHANGED fixVars /\ UNCHANGED <<phase, registered>>
    BY <1>13 DEF InitPushIgnored, Initializing, Refuses, arenaVars
  <2> QED BY <1>7, <2>1 DEF Sound, fixVars
<1>14. ASSUME WriteNull PROVE [FixedSequence!Next]_FixedSequence!sequenceVars
  <2>1. fixStage = "uninit" /\ UNCHANGED fixVars /\ UNCHANGED <<phase, registered>>
    BY <1>14 DEF WriteNull
  <2> QED BY <1>7, <2>1 DEF Sound, fixVars
<1>15. ASSUME FixedDone PROVE [FixedSequence!Next]_FixedSequence!sequenceVars
  <2>1. /\ Calling /\ fixStage = "uninit" /\ fixStage' = (IF fixData THEN "array" ELSE "late")
        /\ UNCHANGED <<phase, registered>>
    BY <1>15 DEF FixedDone, tenantVars, arenaVars
  <2>2. CASE fixData
    <3>1. FixedWaits
      BY <1>1, <2>1, <2>2, StillWaiting
    <3>2. FixedWaits' /\ ~Sound
      BY <2>1, <3>1 DEF FixedWaits, Sound
    <3> QED BY <1>2, <1>6, <3>1, <3>2
  <2>3. CASE ~fixData
    BY <1>7, <2>1, <2>3 DEF Sound
  <2> QED BY <2>2, <2>3
<1>16. ASSUME StartFixed PROVE [FixedSequence!Next]_FixedSequence!sequenceVars
  <2>1. /\ registered # <<>> /\ Head(registered) = Entry("fixed", None)
        /\ drops' = drops /\ UNCHANGED <<fixStage, fixBy, cells, initLen>>
    BY <1>16, Zenon DEF StartFixed, Enter
  <2>2. FixedOpen
    <3>1. registered \in Seq(Entries)
      BY <1>1, RegisteredRow
    <3>2. Head(registered) = registered[1] /\ 1 \in 1..Len(registered)
      BY ONLY <2>1, <3>1
    <3> QED BY <2>1, <3>2 DEF FixedOpen, Contains
  <2>3. FixedItems' = FixedItems
    BY <2>1 DEF FixedItems, Sound, Room
  <2> QED BY <1>3, <2>1, <2>2, <2>3
<1>17. ASSUME EndFixed PROVE [FixedSequence!Next]_FixedSequence!sequenceVars
  <2>1. UNCHANGED <<fixStage, fixBy, cells, initLen, phase, registered, drops>>
    BY <1>17 DEF EndFixed, EndEntry
  <2>2. FixedItems' = FixedItems
    BY <2>1 DEF FixedItems, Sound, Room
  <2>3. FixedOpen' => FixedOpen
    BY <2>1 DEF FixedOpen, IsAlive
  <2> QED BY <1>3, <2>1, <2>2, <2>3
<1> QED BY <1>9, <1>10, <1>11, <1>12, <1>13, <1>14, <1>15, <1>16, <1>17 DEF FixedStep

\* Every step is one of the sequence's, or changes nothing of it.
LEMMA FixedSteps ==
  ASSUME IInv, IInv', [Next]_vars
  PROVE  [FixedSequence!Next]_FixedSequence!sequenceVars
<1>1. /\ TypeOK /\ ControlInv /\ SegmentsInv /\ TableInv /\ PlaceInv /\ CellsInv /\ FixedInv /\ RegisteredInv
      /\ WalksInv /\ TypeOK'
  BY DEF IInv
<1>2. CASE FixedStep
  BY <1>2, FixedNextByFixed
<1>3. CASE ~FixedStep
  <2>1. UNCHANGED fixVars
    BY <1>3, StepKinds DEF NStep, OnlyN, ListStep, OnlyList, ArrayStep, OnlyArray, TextStep,
       OnlyText,
         ArenaStep, OnlyArena, vars
  <2>2. FixedItems' = FixedItems
    BY <2>1 DEF FixedItems, Sound, Room, fixVars
  <2>3. ~Register("fixed", None)
    BY <1>1, <1>3, Registers
  <2>4. CASE SideKept("fixed")
    <3>1. FixedOpen' => FixedOpen
      BY <1>1, <2>4, OpenWhile DEF SideKept, FixedWaits, IsAlive
    <3>2. \A v \in Range(FixedItems) : drops'[v] = drops[v]
      <4>1. CASE Sound
        BY <1>1, <2>4, <4>1, ItemsNow DEF SideKept, Mine
      <4>2. CASE ~Sound
        <5>1. FixedItems = <<>>
          BY <4>2 DEF FixedItems
        <5> QED BY <5>1, NoElements
      <4> QED BY <4>1, <4>2
    <3> QED BY <2>2, <3>1, <3>2, FixedSeqKept DEF FixedSequence!Next
  <2>5. CASE DropHead /\ running = "fixed"
    <3>1. CASE Sound
      BY <2>1, <2>5, <3>1, FixedDrops DEF FixedSequence!Next
    <3>2. CASE ~Sound
      <4>1. FixedItems = <<>>
        BY <3>2 DEF FixedItems
      <4>2. \A v \in Range(FixedItems) : drops'[v] = drops[v]
        BY <4>1, NoElements
      <4>3. FixedOpen' => FixedOpen
        BY <2>5 DEF DropHead, FixedOpen, IsAlive
      <4> QED BY <2>2, <4>2, <4>3, FixedSeqKept DEF FixedSequence!Next
    <3> QED BY <3>1, <3>2
  <2>6. CASE ArenaStep /\ EndEntry("fixed")
    <3>1. UNCHANGED <<phase, registered, drops>>
      BY <2>6 DEF EndEntry
    <3>2. FixedOpen' => FixedOpen
      BY <3>1 DEF FixedOpen, IsAlive
    <3> QED BY <2>2, <3>1, <3>2, FixedSeqKept DEF FixedSequence!Next
  <2> QED BY <1>1, <1>3, <2>3, <2>4, <2>5, <2>6, Sides
<1> QED BY <1>2, <1>3

\* The region implements the owned sequence, when it is made in time from an
\* iterator that keeps its word or by foreign code.
THEOREM FixedRefines == Spec => FixedImplements
<1>1. Init => FixedSequence!Init
  BY FixedStarts
<1>2. IInv /\ IInv' /\ [Next]_vars => [FixedSequence!Next]_FixedSequence!sequenceVars
  BY FixedSteps
<1> QED BY <1>1, <1>2, Invariance, PTL DEF Spec, FixedImplements, FixedSequence!Spec

-----------------------------------------------------------------------------
(* Strings                                                                 *)

\* A string in the arena is one that some constructor accepted.
Accepted(s) == s \in Seq(Byte) /\ Len(s) <= MaxUStr /\ ~Contains(s, "nul")

StrInv == text # NoText => Accepted(text.given) /\ text = UStrOf(text.given)

\* What from_str and from_cstr let through has no nul and fits into the count.
LEMMA Constructed ==
  ASSUME NEW s, UStrNew(s)
  PROVE  StrInv'
<1>1. /\ text' = UStrOf(s)
      /\ (s \in Strs /\ AcceptsStr(s)) \/ (s \in CStrs /\ AcceptsCStr(s))
  BY DEF UStrNew
<1>2. UStrOf(s).given = s
  BY DEF UStrOf
<1>3. CASE s \in Strs /\ AcceptsStr(s)
  <2>1. s \in Seq(Byte)
    BY <1>3 DEF Strs, SeqOf, Byte
  <2> QED BY <1>1, <1>2, <1>3, <2>1 DEF AcceptsStr, Accepted, StrInv
<1>4. CASE s \in CStrs /\ AcceptsCStr(s)
  <2>1. s \in Seq({"char", "stray"})
    BY <1>4 DEF CStrs, SeqOf
  <2>2. s \in Seq(Byte) /\ ~Contains(s, "nul")
    BY <2>1 DEF Byte, Contains
  <2> QED BY <1>1, <1>2, <1>4, <2>2 DEF AcceptsCStr, Accepted, StrInv
<1> QED BY <1>1, <1>3, <1>4

\* The bytes up to the count, and those up to the first nul, are the string.
LEMMA BothViews ==
  ASSUME NEW s, Accepted(s), text = UStrOf(s)
  PROVE  StrView = s /\ CStrView = s
<1> DEFINE b == Append(s, "nul")
<1>1. /\ s \in Seq(Byte) /\ Len(s) \in Nat /\ Len(s) < CountMax /\ CountMax \in Nat \ {0}
      /\ \A i \in 1..Len(s) : s[i] # "nul"
  BY UStrAssumption DEF Accepted, MaxUStr, Contains
<1>2. Len(s) % CountMax = Len(s)
  BY <1>1
<1>3. text.bytes = b /\ text.count = Len(s)
  BY <1>2 DEF UStrOf
<1>4. /\ b \in Seq(Byte) /\ Len(b) = Len(s) + 1 /\ b[Len(s) + 1] = "nul"
      /\ \A i \in 1..Len(s) : b[i] = s[i]
  BY <1>1 DEF Byte
<1> HIDE DEF b
<1>5. SubSeq(b, 1, Len(s)) = s
  BY <1>1, <1>4
<1>6. { i \in 1..Len(b) : b[i] = "nul" } = {Len(s) + 1}
  BY <1>1, <1>4
<1>7. SelectInSeq(b, LAMBDA x : x = "nul") = Len(s) + 1
  <2>1. Min({Len(s) + 1}) = Len(s) + 1
    BY <1>1 DEF Min
  <2> QED BY <1>6, <2>1 DEF SelectInSeq
<1>8. CStrView = s
  BY <1>1, <1>3, <1>5, <1>7 DEF CStrView
<1> QED BY <1>3, <1>5, <1>8 DEF StrView

\* No step but a string's construction touches a string: it has no drop
\* function, and the arena's death leaves its bytes alone.
LEMMA TextKept ==
  ASSUME [Next]_vars
  PROVE  text' = text \/ \E s \in Strs \cup CStrs : UStrNew(s)
<1>1. OnlyArena \/ OnlyN \/ OnlyList \/ OnlyArray \/ OnlyFixed => text' = text
  BY DEF OnlyArena, OnlyN, OnlyList, OnlyArray, OnlyFixed
<1>2. CASE Asking
  BY <1>1, <1>2, Zenon DEF Asking
<1>3. CASE Dropping
  BY <1>1, <1>3, Zenon DEF Dropping
<1>4. CASE UNCHANGED vars
  BY <1>4 DEF vars
<1> QED BY <1>2, <1>3, <1>4 DEF Next

\* However wide the count, a string is read as it was given, either way, while
\* the arena lives and after its death (ustr.rs:35-42, :137-149, :157-172).
THEOREM StringsFaithful == Spec => []TextFaithful
<1>1. Init => StrInv
  BY DEF Init, UStrInit, StrInv
<1>2. StrInv /\ [Next]_vars => StrInv'
  <2> SUFFICES ASSUME StrInv, [Next]_vars PROVE StrInv'
    OBVIOUS
  <2>1. CASE text' = text
    BY <2>1 DEF StrInv
  <2>2. ASSUME NEW s \in Strs \cup CStrs, UStrNew(s) PROVE StrInv'
    BY <2>2, Constructed
  <2> QED BY <2>1, <2>2, TextKept
<1>3. StrInv => TextFaithful
  BY BothViews DEF StrInv, TextFaithful
<1> QED BY <1>1, <1>2, <1>3, PTL DEF Spec
=============================================================================
