----------------------------- MODULE ArenaProofs -----------------------------
(***************************************************************************)
(* Theorems about the arenas of Arena, for any number of arenas, threads,  *)
(* blocks, items and handles, and for any program that uses them: what the *)
(* drop functions do, and which handles the items hold, is left open.      *)
(* First the call stacks: how calls nest when drop functions re-enter this *)
(* code, and how each step enters, leaves or unwinds a call; then the      *)
(* handles, the chains and the end of the arenas.  ArenaMemory uses both.  *)
(***************************************************************************)
EXTENDS Arena, SequenceFacts

-----------------------------------------------------------------------------
(* The call stacks                                                         *)

FrameOf == [at : Step, arena : Arena, item : Item \cup {None}]

\* A call that goes on when another one is entered: the walk of a drop chain
\* and the drop function it is in.
Pausing == {"exec", "user", "unwind"}
InsideDrop == {"user", "unwind"}

Building(a) == stack[Owner[a]] = <<Frame("new", a, None)>>

\* An arena is used on its owner's thread, and its construction calls nothing
\* that comes back to this code.
FrameOwned(t, k) ==
  /\ Owner[stack[t][k].arena] = t
  /\ Born(stack[t][k].arena)
  /\ stack[t][k].at = "new" => stack[t] = <<Frame("new", stack[t][k].arena, None)>>

\* Under every call but the last, a walk is in a drop function, which was
\* called from a walk of the same arena.
FrameNested(t, k) ==
  /\ k < Len(stack[t]) => stack[t][k].at \in Pausing
  /\ k < Len(stack[t]) /\ stack[t][k].at = "exec" => stack[t][k + 1].at \in InsideDrop
  /\ stack[t][k].at \in InsideDrop =>
       /\ k > 1
       /\ stack[t][k - 1].at = "exec"
       /\ stack[t][k - 1].arena = stack[t][k].arena

\* The item whose drop function a thread is in.
FrameItem(t, k) ==
  stack[t][k].at \in InsideDrop =>
    /\ stack[t][k].item \in Item
    /\ home[stack[t][k].item] = stack[t][k].arena
    /\ dropped[stack[t][k].item] > 0

Nesting ==
  \A t \in Thread : \A k \in 1..Len(stack[t]) :
    FrameOwned(t, k) /\ FrameNested(t, k) /\ FrameItem(t, k)

-----------------------------------------------------------------------------
(* The inductive invariant                                                 *)

\* The Arc behind the pool counts the program's Memory and one clone in the
\* metadata of every arena that was created.
MemoryCount == arcs = memRefs + Cardinality({a \in Arena : Born(a)})

\* A handle is a value: it exists once, and it is in one place.
HandlesApart ==
  /\ \A a \in Arena : strongs[a] \cap weaks[a] = {}
  /\ \A a, b \in Arena : a # b => Refs(a) \cap Refs(b) = {}
  /\ \A i, j \in Item : i # j => inside[i] \cap inside[j] = {}

\* Handles in an item are on arenas that its own may hold handles on, and so
\* on the thread that drops the item.
HeldHere ==
  \A i \in Item : \A h \in inside[i] :
    /\ home[i] \in Arena
    /\ \E a \in Arena : h \in Refs(a) /\ <<home[i], a>> \in MayHold

\* Nobody has seen an arena that does not exist yet.
Unseen ==
  \A a \in Arena : ~Born(a) \/ Building(a) =>
    /\ Refs(a) = {} /\ queue[a] = <<>>
    /\ \A i \in Item : home[i] # a

\* A walk starts when no strong handle is left, the memory is returned when
\* no handle is.
Dying ==
  \A t \in Thread : \A k \in 1..Len(stack[t]) :
    /\ stack[t][k].at \in Pausing => strongs[stack[t][k].arena] = {}
    /\ stack[t][k].at = "reclaim" => Refs(stack[t][k].arena) = {}

\* A chain is empty or starts with the block of the metadata.
ChainStarts ==
  \A a \in Arena : chain[a] # <<>> => Born(a) /\ chain[a][1] = meta[a]

\* An upload that brings a new drop list is through a handle.
Linking ==
  \A t \in Thread : At(t, "next") => Refs(Last(stack[t]).arena) # {}

HasMemoryWhileUsed ==
  \A a \in Arena : Refs(a) # {} \/ Building(a) => HasMemory(a)

Structure ==
  /\ TypeOK /\ blockRoom > 0 /\ LastListNotFull /\ MemoryCount
  /\ Nesting
  /\ HandlesApart /\ HeldHere /\ Unseen
  /\ RefCounts /\ Dying
  /\ ChainStarts /\ Linking /\ HasMemoryWhileUsed

\* Items of an arena wait in its queue, once, or were dropped, once.
Queued ==
  /\ \A a \in Arena : IsInjective(queue[a])
  /\ \A a \in Arena : \A i \in Range(queue[a]) : home[i] = a /\ dropped[i] = 0
  /\ \A i \in Item : home[i] = None => dropped[i] = 0
  /\ \A i \in Item : home[i] # None /\ dropped[i] = 0 => i \in Range(queue[home[i]])

IInv == Structure /\ Queued

-----------------------------------------------------------------------------
(* What a step does to a call stack                                        *)

\* A panic leaves the last two calls and is noticed by the one before them.
LEMMA UnwoundCalls ==
  ASSUME NEW s \in Seq(FrameOf), Len(s) >= 2
  PROVE  /\ Unwound(s) \in Seq(FrameOf)
         /\ Len(Unwound(s)) = Len(s) - 2
         /\ \A i \in 1..(Len(s) - 3) : Unwound(s)[i] = s[i]
         /\ Len(s) > 2 =>
              Unwound(s)[Len(s) - 2] = [s[Len(s) - 2] EXCEPT !.at = "unwind"]
<1> DEFINE r == Front(Front(s))
<1>0. Len(s) \in Nat /\ s # <<>>
  OBVIOUS
<1>1. /\ Front(s) \in Seq(FrameOf) /\ Len(Front(s)) = Len(s) - 1
      /\ \A i \in 1..(Len(s) - 1) : Front(s)[i] = s[i]
  BY ONLY <1>0, Popped
<1>2. Front(s) # <<>>
  BY <1>0, <1>1
<1>3. /\ r \in Seq(FrameOf) /\ Len(r) = Len(s) - 2
      /\ \A i \in 1..(Len(s) - 2) : r[i] = s[i]
  <2>1. /\ r \in Seq(FrameOf) /\ Len(r) = Len(Front(s)) - 1
        /\ \A i \in 1..(Len(Front(s)) - 1) : r[i] = Front(s)[i]
    BY ONLY <1>1, <1>2, Popped
  <2> HIDE DEF r
  <2> QED BY ONLY <1>0, <1>1, <2>1
<1>u. Unwound(s) = IF r = <<>> THEN <<>>
                   ELSE Append(Front(r), [Last(r) EXCEPT !.at = "unwind"])
  BY DEF Unwound
<1> HIDE DEF r
<1>4. CASE r = <<>>
  <2>1. Len(s) = 2 /\ Unwound(s) = <<>>
    BY <1>0, <1>3, <1>4, <1>u
  <2> QED BY <2>1
<1>5. CASE r # <<>>
  <2> DEFINE f == [Last(r) EXCEPT !.at = "unwind"]
  <2>1. /\ Len(r) \in Nat \ {0} /\ Last(r) \in FrameOf /\ Last(r) = r[Len(r)]
        /\ Front(r) \in Seq(FrameOf) /\ Len(Front(r)) = Len(r) - 1
        /\ \A i \in 1..(Len(r) - 1) : Front(r)[i] = r[i]
    BY ONLY <1>3, <1>5, Popped
  <2>2. f \in FrameOf
    BY <2>1 DEF FrameOf, Step
  <2>3. Unwound(s) = Append(Front(r), f)
    BY <1>5, <1>u
  <2>4. f = [s[Len(s) - 2] EXCEPT !.at = "unwind"]
    <3>1. Last(r) = s[Len(s) - 2]
      BY <1>0, <1>3, <2>1
    <3> QED BY <3>1
  <2> HIDE DEF f
  <2> QED BY <1>0, <1>3, <2>1, <2>2, <2>3, <2>4
<1> QED BY <1>4, <1>5

-----------------------------------------------------------------------------
(* The steps by what they are about                                        *)

Births ==
  \/ \E a \in Arena : ArenaNew(a)
  \/ \E t \in Thread : NewFails(t) \/ \E h \in Handle : NewDone(t, h)

Handling ==
  \/ \E a \in Arena, h \in Handle :
       DropHandle(a, h) \/ \E new \in Handle : \/ CloneArena(a, h, new)
                                               \/ NewWeak(a, h, new)
                                               \/ Upgrade(a, h, new)
  \/ \E t \in Thread, h \in Handle : DropField(t, h)

Uploading ==
  \E a \in Arena, h \in Handle, i \in Item :
    \/ RegisterDropFn(a, h, i)
    \/ \E moved \in SUBSET Handle : Upload(a, h, i, moved)

Storing ==
  \/ DropMemory
  \/ \E a \in Arena, h \in Handle : UploadNoDrop(a, h)
  \/ \E t \in Thread : NextList(t) \/ ReclaimBlock(t)

Walking ==
  \E t \in Thread : ExecNext(t) \/ ExecDone(t) \/ UserReturn(t) \/ Unwind(t)

\* Every step is of one of these kinds.
LEMMA Kinds ==
  [Next]_vars => Births \/ Handling \/ Uploading \/ Storing \/ Walking \/ UNCHANGED vars
BY DEF Next, Calling, Running, Births, Handling, Uploading, Storing, Walking

\* What the steps on handles leave alone.
LEMMA HandlingLeaves ==
  Handling => UNCHANGED <<pool, storage, queue, items>>
BY DEF Handling, DropHandle, CloneArena, NewWeak, Upgrade, DropField,
   pool, storage, items

\* What uploads leave alone.
LEMMA UploadingLeaves ==
  Uploading => UNCHANGED <<blockRoom, memRefs, arcs, meta, counters, strongs, weaks, dropped>>
BY DEF Uploading, Upload, RegisterDropFn, Register, pool, counters, handles

\* What the other steps on blocks leave alone.
LEMMA StoringLeaves ==
  Storing => UNCHANGED <<blockRoom, meta, queue, counters, handles, items>>
BY DEF Storing, DropMemory, UploadNoDrop, NextList, ReclaimBlock, PlaceUnit,
   storage, counters, handles, items

\* What the walk over the drop functions leaves alone.
LEMMA WalkingLeaves ==
  Walking => UNCHANGED <<pool, storage, counters, handles, home>>
BY DEF Walking, ExecNext, ExecDone, UserReturn, Unwind,
   pool, storage, counters, handles, items

-----------------------------------------------------------------------------
(* What a step does to the calls of a thread                               *)

\* Where a thread may ask for something: outside of this code, or in a drop
\* function.
Asks(t) == Idle(t) \/ At(t, "user") \/ At(t, "unwind")

\* Thread t enters the call f.
Enters(t, f) ==
  /\ stack' = [stack EXCEPT ![t] = Append(@, f)]
  /\ Owner[f.arena] = t /\ Born(f.arena)'
  /\ \/ f = Frame("new", f.arena, None) /\ Idle(t) /\ ~Born(f.arena)
     \/ /\ f.at \in {"next", "exec", "reclaim"} /\ Asks(t)
        /\ Refs(f.arena) # {}
        /\ ~Idle(t) => inside[User(t)] \cap Refs(f.arena) # {}
        /\ f.at = "exec" => strong'[f.arena] = 0 /\ strongs[f.arena] # {}
        /\ f.at = "reclaim" => rc'[f.arena] = 0
        /\ f.at = "next" => strongs'[f.arena] \cup weaks'[f.arena] # {}
     \/ /\ f.at = "user" /\ At(t, "exec") /\ f.arena = Last(stack[t]).arena
        /\ f.item \in Item /\ home[f.item] = f.arena /\ dropped'[f.item] > 0

\* It leaves its last call, perhaps for the one after it in Drop for Arena.
Leaves(t) ==
  /\ ~Idle(t)
  /\ Last(stack[t]).at = "next" => used'[Last(stack[t]).arena] = 0
  /\ Last(stack[t]).at = "exec" => queue[Last(stack[t]).arena] = <<>>
  /\ stack' = [stack EXCEPT ![t] = Front(@)]

GoesOn(t) ==
  /\ At(t, "exec")
  /\ queue[Last(stack[t]).arena] = <<>> /\ rc[Last(stack[t]).arena] = 0
  /\ stack' = [stack EXCEPT ![t] =
                 Append(Front(@), Frame("reclaim", Last(stack[t]).arena, None))]

\* A panic unwinds it.
IsUnwound(t) ==
  /\ At(t, "unwind") \/ (At(t, "user") /\ User(t) \in MayPanic)
  /\ stack' = [stack EXCEPT ![t] = Unwound(@)]

\* The last call of a thread.
LEMMA Top ==
  ASSUME TypeOK, NEW t \in Thread, ~Idle(t)
  PROVE  /\ Len(stack[t]) \in 1..Len(stack[t])
         /\ Last(stack[t]) = stack[t][Len(stack[t])]
         /\ Last(stack[t]) \in FrameOf
         /\ Front(stack[t]) \in Seq(FrameOf)
         /\ Len(Front(stack[t])) = Len(stack[t]) - 1
         /\ \A k \in 1..(Len(stack[t]) - 1) : Front(stack[t])[k] = stack[t][k]
<1>1. stack[t] \in Seq(FrameOf) /\ stack[t] # <<>>
  BY DEF TypeOK, FrameOf, Idle
<1>2. /\ Len(stack[t]) \in Nat \ {0}
      /\ Last(stack[t]) \in FrameOf /\ Last(stack[t]) = stack[t][Len(stack[t])]
      /\ Front(stack[t]) \in Seq(FrameOf)
      /\ Len(Front(stack[t])) = Len(stack[t]) - 1
      /\ \A k \in 1..(Len(stack[t]) - 1) : Front(stack[t])[k] = stack[t][k]
  BY ONLY <1>1, Popped
<1> QED BY <1>2

\* The walk enters the drop function of the queue's head.
LEMMA EntersDrop ==
  ASSUME TypeOK, NEW t \in Thread, ExecNext(t)
  PROVE  \E a \in Arena, i \in Item :
           /\ ~Idle(t) /\ Last(stack[t]).at = "exec" /\ Last(stack[t]).arena = a
           /\ HasMemory(a) /\ queue[a] # <<>> /\ i = queue[a][1]
           /\ queue' = [queue EXCEPT ![a] = Tail(@)]
           /\ dropped' = [dropped EXCEPT ![i] = @ + 1]
           /\ stack' = [stack EXCEPT ![t] = Append(@, Frame("user", a, i))]
<1>1. ~Idle(t) /\ Last(stack[t]).at = "exec"
  BY DEF ExecNext, At
<1>2. Last(stack[t]).arena \in Arena
  BY <1>1, Top DEF FrameOf
<1>3. ASSUME NEW a \in Arena, queue[a] # <<>>
      PROVE  Head(queue[a]) = queue[a][1] /\ queue[a][1] \in Item
  BY <1>3 DEF TypeOK
<1> QED BY <1>1, <1>2, <1>3 DEF ExecNext

\* A drop function is never undone, an item stays where it was uploaded, and
\* an arena goes only if it cannot be completed.
LEMMA Lasting ==
  ASSUME TypeOK, [Next]_vars
  PROVE  /\ \A i \in Item : home[i] # None => home'[i] = home[i]
         /\ \A i \in Item : dropped[i] > 0 => dropped'[i] > 0
         /\ \A a \in Arena : Born(a) =>
              Born(a)' \/ \E t \in Thread : NewFails(t) /\ a = Last(stack[t]).arena
<1>1. CASE UNCHANGED vars
  BY <1>1 DEF TypeOK, vars, storage, items, Born
<1>2. CASE Births
  <2>1. ASSUME NEW a \in Arena, ArenaNew(a)
        PROVE  items' = items /\ \A b \in Arena : Born(b) => Born(b)'
    BY <2>1, ArenaAssumption DEF ArenaNew, TypeOK, Born
  <2>2. ASSUME NEW t \in Thread, NewFails(t)
        PROVE  /\ items' = items
               /\ \A b \in Arena : Born(b) => Born(b)' \/ b = Last(stack[t]).arena
    BY <2>2 DEF NewFails, TypeOK, Born
  <2>3. ASSUME NEW t \in Thread, NEW h \in Handle, NewDone(t, h)
        PROVE  items' = items /\ meta' = meta
    BY <2>3 DEF NewDone
  <2>4. items' = items /\ \A b \in Arena : Born(b) =>
          Born(b)' \/ \E t \in Thread : NewFails(t) /\ b = Last(stack[t]).arena
    BY <1>2, <2>1, <2>2, <2>3 DEF Births, Born
  <2> QED BY <2>4 DEF TypeOK, items
<1>3. CASE Handling
  BY <1>3, HandlingLeaves DEF TypeOK, storage, items, Born
<1>4. CASE Uploading
  <2>1. home' = home \/ \E a \in Arena, i \in Item : home[i] = None /\ home' = [home EXCEPT ![i] = a]
    BY <1>4 DEF Uploading, Upload, RegisterDropFn, Register
  <2> QED BY <1>4, <2>1, UploadingLeaves DEF TypeOK, Born
<1>5. CASE Storing
  BY <1>5, StoringLeaves DEF TypeOK, items, Born
<1>6. CASE Walking
  <2>1. dropped' = dropped \/ \E i \in Item : dropped' = [dropped EXCEPT ![i] = @ + 1]
    <3>1. ASSUME NEW t \in Thread, ExecNext(t)
          PROVE  \E i \in Item : dropped' = [dropped EXCEPT ![i] = @ + 1]
      BY <3>1, EntersDrop
    <3>2. ASSUME NEW t \in Thread, ExecDone(t) \/ UserReturn(t) \/ Unwind(t)
          PROVE  dropped' = dropped
      BY <3>2 DEF ExecDone, UserReturn, Unwind, items
    <3> QED BY <1>6, <3>1, <3>2 DEF Walking
  <2>2. \A i \in Item : dropped[i] > 0 => dropped'[i] > 0
    <3>1. dropped \in [Item -> Nat]
      BY DEF TypeOK
    <3> QED BY ONLY <2>1, <3>1
  <2>3. home' = home /\ meta' = meta
    BY <1>6, WalkingLeaves DEF storage
  <2> QED BY <2>2, <2>3 DEF Born
<1> QED BY <1>1, <1>2, <1>3, <1>4, <1>5, <1>6, Kinds

\* Whoever holds a handle on an arena is on its thread and not in the middle
\* of this code.
LEMMA HoldersAsk ==
  ASSUME IInv, NEW a \in Arena, NEW h \in Handle, Usable(h, a)
  PROVE  /\ Owner[a] \in Thread /\ Born(a) /\ ~Building(a)
         /\ h \in Refs(a) /\ h \in InHand(Owner[a])
         /\ Idle(Owner[a]) \/ Using(Owner[a])
         /\ Asks(Owner[a])
BY ArenaAssumption DEF Usable, InHand, Asks, Using, IInv, Structure, Unseen

\* The item a drop function belongs to, and the arenas of its handles.
LEMMA DropsOwn ==
  ASSUME IInv, NEW t \in Thread, At(t, "user") \/ At(t, "unwind")
  PROVE  /\ User(t) \in Item /\ home[User(t)] = Last(stack[t]).arena
         /\ Last(stack[t]).arena \in Arena /\ Owner[Last(stack[t]).arena] = t
         /\ dropped[User(t)] > 0
         /\ \A a \in Arena, h \in Handle :
              h \in inside[User(t)] /\ h \in Refs(a) => Owner[a] = t /\ Born(a) /\ ~Building(a)
<1> DEFINE n == Len(stack[t])
<1>1. n \in 1..n /\ Last(stack[t]) = stack[t][n] /\ Last(stack[t]) \in FrameOf
  BY Top DEF At, IInv, Structure
<1>2. stack[t][n].at \in InsideDrop
  BY <1>1 DEF At, InsideDrop
<1>3. FrameOwned(t, n) /\ FrameItem(t, n)
  BY <1>1 DEF IInv, Structure, Nesting
<1>4. /\ User(t) \in Item /\ home[User(t)] = Last(stack[t]).arena
      /\ Last(stack[t]).arena \in Arena /\ Owner[Last(stack[t]).arena] = t
      /\ dropped[User(t)] > 0
  BY <1>1, <1>2, <1>3 DEF FrameOwned, FrameItem, User, FrameOf
<1>5. ASSUME NEW a \in Arena, NEW h \in Handle, h \in inside[User(t)], h \in Refs(a)
      PROVE  Owner[a] = t /\ Born(a) /\ ~Building(a)
  <2>1. PICK b \in Arena : h \in Refs(b) /\ Owner[home[User(t)]] = Owner[b]
    <3>1. PICK b \in Arena : h \in Refs(b) /\ <<home[User(t)], b>> \in MayHold
      BY <1>4, <1>5 DEF IInv, Structure, HeldHere
    <3> QED BY <3>1, ArenaAssumption
  <2>2. b = a
    BY <1>5, <2>1 DEF IInv, Structure, HandlesApart
  <2> QED BY <1>4, <1>5, <2>1, <2>2 DEF IInv, Structure, Unseen
<1> QED BY <1>4, <1>5

\* What dropping a handle calls.
LEMMA DropCalls ==
  ASSUME TypeOK, NEW t \in Thread, NEW a \in Arena, NEW h \in Handle,
         DropStrong(t, a, h) \/ DropWeak(t, a, h)
  PROVE  \/ stack' = stack
         \/ \E at \in {"exec", "reclaim"} :
              /\ stack' = [stack EXCEPT ![t] = Append(@, Frame(at, a, None))]
              /\ at = "exec" => strong'[a] = 0 /\ strongs[a] # {}
              /\ at = "reclaim" => rc'[a] = 0
<1>1. \A s \in Seq(FrameOf) : s \o <<>> = s
  OBVIOUS
<1>2. \A s \in Seq(FrameOf), f \in FrameOf : s \o <<f>> = Append(s, f)
  OBVIOUS
<1>3. stack \in [Thread -> Seq(FrameOf)]
  BY DEF TypeOK, FrameOf
<1>4. \A at \in {"exec", "reclaim"} : Frame(at, a, None) \in FrameOf
  BY DEF Frame, FrameOf, Step
<1>5. \/ stack' = [stack EXCEPT ![t] = @ \o <<>>]
      \/ \E at \in {"exec", "reclaim"} :
          /\ stack' = [stack EXCEPT ![t] = @ \o <<Frame(at, a, None)>>]
          /\ at = "exec" => strong'[a] = 0 /\ strongs[a] # {}
          /\ at = "reclaim" => rc'[a] = 0
  BY DEF TypeOK, DropStrong, DropWeak, StrongDropCalls, WeakDropCalls
<1>6. CASE stack' = [stack EXCEPT ![t] = @ \o <<>>]
  BY <1>1, <1>3, <1>6
<1>7. ASSUME NEW at \in {"exec", "reclaim"}, stack' = [stack EXCEPT ![t] = @ \o <<Frame(at, a, None)>>]
      PROVE  stack' = [stack EXCEPT ![t] = Append(@, Frame(at, a, None))]
  BY <1>2, <1>3, <1>4, <1>7
<1> QED BY <1>5, <1>6, <1>7

\* What registering a drop function calls.
LEMMA RegisterCalls ==
  ASSUME TypeOK, NEW a \in Arena, NEW i \in Item, Register(a, i)
  PROVE  \/ stack' = stack /\ used[a] + 1 # ListMax
         \/ /\ used[a] + 1 = ListMax
            /\ stack' = [stack EXCEPT ![Owner[a]] = Append(@, Frame("next", a, None))]
<1>1. \A s \in Seq(FrameOf) : s \o <<>> = s
  OBVIOUS
<1>2. \A s \in Seq(FrameOf), f \in FrameOf : s \o <<f>> = Append(s, f)
  OBVIOUS
<1>3. stack \in [Thread -> Seq(FrameOf)] /\ Owner[a] \in Thread
  BY ArenaAssumption DEF TypeOK, FrameOf
<1>4. Frame("next", a, None) \in FrameOf
  BY DEF Frame, FrameOf, Step
<1>5. CASE used[a] + 1 = ListMax
  <2>1. stack' = [stack EXCEPT ![Owner[a]] = @ \o <<Frame("next", a, None)>>]
    BY <1>5 DEF Register
  <2> QED BY <1>2, <1>3, <1>4, <1>5, <2>1
<1>6. CASE used[a] + 1 # ListMax
  <2>1. stack' = [stack EXCEPT ![Owner[a]] = @ \o <<>>]
    BY <1>6 DEF Register
  <2> QED BY <1>1, <1>3, <1>6, <2>1
<1> QED BY <1>5, <1>6

\* Every step leaves all stacks alone, or does one of four things to one.
LEMMA CallSteps ==
  ASSUME IInv, [Next]_vars
  PROVE  \/ stack' = stack
         \/ \E t \in Thread : \/ \E f \in FrameOf : Enters(t, f)
                              \/ Leaves(t) \/ GoesOn(t) \/ IsUnwound(t)
<1> DEFINE Goal == \/ stack' = stack
                   \/ \E t \in Thread : \/ \E f \in FrameOf : Enters(t, f)
                                        \/ Leaves(t) \/ GoesOn(t) \/ IsUnwound(t)
<1>a. TypeOK
  BY DEF IInv, Structure
<1>f. /\ \A a \in Arena, at \in Step : Frame(at, a, None) \in FrameOf
      /\ \A a \in Arena, i \in Item : Frame("user", a, i) \in FrameOf
  BY DEF Frame, FrameOf, Step
<1>o. \A a \in Arena : Owner[a] \in Thread
  BY ArenaAssumption
<1>1. ASSUME NEW a \in Arena, ArenaNew(a) PROVE Goal
  <2> DEFINE f == Frame("new", a, None)
  <2>1. stack' = [stack EXCEPT ![Owner[a]] = <<f>>] /\ stack[Owner[a]] = <<>>
    BY <1>1 DEF ArenaNew, Idle
  <2>2. stack' = [stack EXCEPT ![Owner[a]] = Append(@, f)]
    <3>1. Append(<<>>, f) = <<f>>
      OBVIOUS
    <3> QED BY <1>a, <1>o, <2>1, <3>1 DEF TypeOK
  <2>3. Born(a)'
    BY <1>1, <1>a, ArenaAssumption DEF ArenaNew, TypeOK, Born
  <2>4. f.arena = a /\ f = Frame("new", f.arena, None)
    BY DEF Frame
  <2>5. f \in FrameOf
    BY <1>f DEF Step
  <2>6. Enters(Owner[a], f)
    BY <1>1, <2>1, <2>2, <2>3, <2>4 DEF Enters, Idle, ArenaNew
  <2> QED BY <1>o, <2>5, <2>6
<1>2. ASSUME NEW t \in Thread, NewFails(t) \/ (\E h \in Handle : NewDone(t, h)) \/ NextList(t) \/ UserReturn(t)
      PROVE  Goal
  <2>1. Leaves(t)
    <3>1. NextList(t) => used'[Last(stack[t]).arena] = 0
      <4>1. At(t, "next") => Last(stack[t]).arena \in Arena
        BY <1>a, Top DEF At, FrameOf
      <4> QED BY <1>a, <4>1 DEF NextList, TypeOK
    <3> QED BY <1>2, <3>1 DEF NewFails, NewDone, NextList, UserReturn, Leaves, At, Pop
  <2> QED BY <2>1
<1>3. ASSUME NEW t \in Thread, ReclaimBlock(t) PROVE Goal
  <2>1. Leaves(t) \/ stack' = stack
    BY <1>3, <1>a DEF ReclaimBlock, Leaves, At, Pop, TypeOK
  <2> QED BY <2>1
<1>4. ASSUME NEW t \in Thread, NEW a \in Arena, NEW h \in Handle, Asks(t), Owner[a] = t, Born(a),
             Idle(t) \/ h \in inside[User(t)], h \in Refs(a),
             meta' = meta, DropStrong(t, a, h) \/ DropWeak(t, a, h)
      PROVE  Goal
  <2>1. ASSUME NEW at \in {"exec", "reclaim"},
               stack' = [stack EXCEPT ![t] = Append(@, Frame(at, a, None))],
               at = "exec" => strong'[a] = 0 /\ strongs[a] # {}, at = "reclaim" => rc'[a] = 0
        PROVE  Goal
    <3>1. Enters(t, Frame(at, a, None)) /\ Frame(at, a, None) \in FrameOf
      BY <1>4, <1>f, <2>1 DEF Enters, Frame, Born, Step
    <3> QED BY <3>1
  <2> QED BY <1>4, <1>a, <2>1, DropCalls
<1>5. CASE Handling
  <2>m. meta' = meta
    BY <1>5, HandlingLeaves DEF storage
  <2>1. ASSUME NEW a \in Arena, NEW h \in Handle, DropHandle(a, h) PROVE Goal
    BY <1>4, <1>o, <2>1, <2>m, HoldersAsk DEF DropHandle
  <2>2. ASSUME NEW a \in Arena, NEW h \in Handle, NEW new \in Handle,
               CloneArena(a, h, new) \/ NewWeak(a, h, new) \/ Upgrade(a, h, new)
        PROVE  Goal
    BY <2>2 DEF CloneArena, NewWeak, Upgrade
  <2>3. ASSUME NEW t \in Thread, NEW h \in Handle, DropField(t, h) PROVE Goal
    <3>1. PICK a \in Arena : DropStrong(t, a, h) \/ DropWeak(t, a, h)
      BY <2>3 DEF DropField
    <3>2. h \in inside[User(t)] /\ h \in Refs(a)
      BY <2>3, <3>1 DEF DropField, DropStrong, DropWeak, Refs, User
    <3>3. Owner[a] = t /\ Born(a) /\ Asks(t)
      BY <2>3, <3>2, DropsOwn DEF DropField, Asks
    <3> QED BY <1>4, <2>m, <3>1, <3>2, <3>3
  <2> QED BY <1>5, <2>1, <2>2, <2>3 DEF Handling
<1>6. CASE Uploading
  <2>1. PICK a \in Arena, h \in Handle, i \in Item :
          \/ RegisterDropFn(a, h, i)
          \/ \E moved \in SUBSET Handle : Upload(a, h, i, moved)
    BY <1>6 DEF Uploading
  <2>2. /\ Usable(h, a) /\ Register(a, i) /\ meta' = meta
        /\ strongs'[a] \cup weaks'[a] # {}
    BY <2>1, <1>6, UploadingLeaves DEF RegisterDropFn, Upload, Usable, Refs
  <2>3. ASSUME stack' = [stack EXCEPT ![Owner[a]] = Append(@, Frame("next", a, None))]
        PROVE  Goal
    <3>0. ~Idle(Owner[a]) => h \in inside[User(Owner[a])] /\ h \in Refs(a)
      BY <2>2, HoldersAsk DEF InHand
    <3>1. Enters(Owner[a], Frame("next", a, None)) /\ Frame("next", a, None) \in FrameOf
      BY <1>f, <2>2, <2>3, <3>0, HoldersAsk DEF Enters, Frame, Born, Step
    <3> QED BY <1>o, <3>1
  <2> QED BY <1>a, <2>2, <2>3, RegisterCalls
<1>7. ASSUME NEW t \in Thread, ExecNext(t) PROVE Goal
  <2>1. PICK a \in Arena, i \in Item :
          /\ ~Idle(t) /\ Last(stack[t]).at = "exec" /\ Last(stack[t]).arena = a
          /\ queue[a] # <<>> /\ i = queue[a][1]
          /\ dropped' = [dropped EXCEPT ![i] = @ + 1]
          /\ stack' = [stack EXCEPT ![t] = Append(@, Frame("user", a, i))]
    BY <1>a, <1>7, EntersDrop
  <2>2. home[i] = a
    <3>1. i \in Range(queue[a])
      BY <1>a, <2>1, InRange DEF TypeOK
    <3> QED BY <3>1 DEF IInv, Queued
  <2>3. dropped'[i] > 0
    BY <1>a, <2>1 DEF TypeOK
  <2>4. Owner[a] = t /\ Born(a)
    <3>1. Len(stack[t]) \in 1..Len(stack[t]) /\ stack[t][Len(stack[t])].arena = a
      BY <1>a, <2>1, Top
    <3> QED BY <3>1 DEF IInv, Structure, Nesting, FrameOwned
  <2>5. meta' = meta
    BY <1>7 DEF ExecNext, storage
  <2>6. Enters(t, Frame("user", a, i)) /\ Frame("user", a, i) \in FrameOf
    BY <1>f, <2>1, <2>2, <2>3, <2>4, <2>5 DEF Enters, Frame, Born, At
  <2> QED BY <2>6
<1>8. ASSUME NEW t \in Thread, ExecDone(t) PROVE Goal
  <2> DEFINE a == Last(stack[t]).arena
  <2>1. CASE rc[a] = 0
    <3>0. queue[a] = <<>>
      BY <1>8 DEF ExecDone
    <3>1. At(t, "exec") /\ stack' = [stack EXCEPT ![t] = Front(stack[t]) \o <<Frame("reclaim", a, None)>>]
      BY <1>8, <2>1 DEF ExecDone, Pop
    <3>2. Front(stack[t]) \in Seq(FrameOf) /\ Frame("reclaim", a, None) \in FrameOf
      BY <1>a, <1>f, <3>1, Top DEF At, FrameOf, Step
    <3>3. GoesOn(t)
      <4>1. \A s \in Seq(FrameOf), f \in FrameOf : s \o <<f>> = Append(s, f)
        OBVIOUS
      <4> QED BY <2>1, <3>0, <3>1, <3>2, <4>1 DEF GoesOn
    <3> QED BY <3>3
  <2>2. CASE rc[a] # 0
    <3>0. queue[a] = <<>>
      BY <1>8 DEF ExecDone
    <3>1. At(t, "exec") /\ stack' = [stack EXCEPT ![t] = Front(stack[t]) \o <<>>]
      BY <1>8, <2>2 DEF ExecDone, Pop
    <3>2. Front(stack[t]) \in Seq(FrameOf)
      BY <1>a, <3>1, Top DEF At
    <3>3. Leaves(t)
      <4>1. \A s \in Seq(FrameOf) : s \o <<>> = s
        OBVIOUS
      <4> QED BY <3>0, <3>1, <3>2, <4>1 DEF Leaves, At
    <3> QED BY <3>3
  <2> QED BY <2>1, <2>2
<1>9. ASSUME NEW t \in Thread, Unwind(t) PROVE Goal
  <2>1. IsUnwound(t)
    <3>1. At(t, "unwind") \/ (At(t, "user") /\ User(t) \in MayPanic)
      BY <1>9 DEF Unwind, User
    <3>2. stack' = [stack EXCEPT ![t] = Unwound(@)]
      BY <1>9 DEF Unwind
    <3> QED BY <3>1, <3>2 DEF IsUnwound
  <2> QED BY <2>1
<1>10. ASSUME NEW a \in Arena, NEW h \in Handle, DropMemory \/ UploadNoDrop(a, h) PROVE Goal
  BY <1>10 DEF DropMemory, UploadNoDrop
<1>11. CASE DropMemory \/ UNCHANGED vars
  BY <1>11 DEF DropMemory, vars
<1> QED
  BY <1>1, <1>2, <1>3, <1>5, <1>6, <1>7, <1>8, <1>9, <1>10, <1>11, Kinds
  DEF Births, Storing, Walking

-----------------------------------------------------------------------------
(* The call stacks keep their shape                                        *)

\* A call that is still on its stack keeps its arena and its item.
LEMMA FramesLast ==
  ASSUME IInv, [Next]_vars, NEW t \in Thread,
         NEW k \in 1..Len(stack[t]), k \in 1..Len(stack'[t])
  PROVE  /\ stack[t][k] \in FrameOf
         /\ Owner[stack[t][k].arena] = t /\ meta'[stack[t][k].arena] # None
         /\ stack[t][k].at \in InsideDrop =>
              /\ stack[t][k].item \in Item
              /\ home'[stack[t][k].item] = stack[t][k].arena
              /\ dropped'[stack[t][k].item] > 0
<1> DEFINE f == stack[t][k]
<1>1. TypeOK /\ FrameOwned(t, k) /\ FrameItem(t, k)
  BY DEF IInv, Structure, Nesting
<1>2. f \in FrameOf
  <2>1. stack[t] \in Seq(FrameOf)
    BY <1>1 DEF TypeOK, FrameOf
  <2> QED BY <2>1
<1>3. meta'[f.arena] # None
  <2>1. SUFFICES ASSUME NEW u \in Thread, NewFails(u), f.arena = Last(stack[u]).arena
                 PROVE  FALSE
    <3>1. f.arena \in Arena /\ Born(f.arena)
      BY <1>1, <1>2 DEF FrameOwned, FrameOf
    <3> QED BY <1>1, <3>1, Lasting DEF Born
  <2>2. /\ Len(stack[u]) \in 1..Len(stack[u]) /\ Last(stack[u]) = stack[u][Len(stack[u])]
        /\ Last(stack[u]).at = "new" /\ ~Idle(u)
    BY <1>1, <2>1, Top DEF NewFails, At
  <2>3. FrameOwned(u, Len(stack[u]))
    BY <2>2 DEF IInv, Structure, Nesting
  <2>4. u = t /\ Len(stack[u]) = 1
    BY <1>1, <2>1, <2>2, <2>3 DEF FrameOwned
  <2>5. stack'[u] = Front(stack[u])
    BY <1>1, <2>1 DEF NewFails, Pop, TypeOK
  <2>6. Len(stack'[u]) = 0
    BY <1>1, <2>2, <2>4, <2>5, Top
  <2> QED BY <2>4, <2>6
<1>4. ASSUME f.at \in InsideDrop
      PROVE  f.item \in Item /\ home'[f.item] = f.arena /\ dropped'[f.item] > 0
  <2>1. f.item \in Item /\ home[f.item] = f.arena /\ dropped[f.item] > 0
    BY <1>1, <1>4 DEF FrameItem
  <2>2. home[f.item] # None
    BY <1>2, <2>1, ArenaAssumption DEF FrameOf
  <2>3. home'[f.item] = home[f.item] /\ dropped'[f.item] > 0
    BY <1>1, <2>1, <2>2, Lasting
  <2> QED BY <2>1, <2>3
<1> QED BY <1>1, <1>2, <1>3, <1>4 DEF FrameOwned

\* The first m calls of thread t are in order.
InOrder(t, m) ==
  \A k \in 1..m :
    /\ FrameOwned(t, k) /\ FrameItem(t, k)
    /\ k < m => stack[t][k].at \in Pausing
    /\ k < m /\ stack[t][k].at = "exec" => stack[t][k + 1].at \in InsideDrop
    /\ stack[t][k].at \in InsideDrop =>
         /\ k > 1 /\ stack[t][k - 1].at = "exec"
         /\ stack[t][k - 1].arena = stack[t][k].arena

\* Stacks whose calls are in order, one by one, are nested.
LEMMA AllInOrder ==
  TypeOK => (Nesting <=> \A t \in Thread : InOrder(t, Len(stack[t])))
BY DEF TypeOK, Nesting, InOrder, FrameNested

\* So are they after a step that left them as they were, unless it put a call
\* over an Arena::new.
LEMMA Kept ==
  ASSUME IInv, [Next]_vars, NEW t \in Thread, NEW m \in Nat,
         m <= Len(stack[t]), m <= Len(stack'[t]),
         stack[t] \in Seq(FrameOf), stack'[t] \in Seq(FrameOf),
         \A k \in 1..m : stack'[t][k] = stack[t][k],
         m < Len(stack[t]) \/ stack'[t] = stack[t] \/ \A k \in 1..m : stack[t][k].at # "new"
  PROVE  InOrder(t, m)'
<1> SUFFICES ASSUME NEW k \in 1..m
             PROVE  /\ FrameOwned(t, k)' /\ FrameItem(t, k)'
                    /\ k < m => stack'[t][k].at \in Pausing
                    /\ k < m /\ stack'[t][k].at = "exec" => stack'[t][k + 1].at \in InsideDrop
                    /\ stack'[t][k].at \in InsideDrop =>
                         /\ k > 1 /\ stack'[t][k - 1].at = "exec"
                         /\ stack'[t][k - 1].arena = stack'[t][k].arena
  BY DEF InOrder
<1>0. Len(stack[t]) \in Nat /\ Len(stack'[t]) \in Nat
  OBVIOUS
<1>1. k \in 1..Len(stack[t]) /\ k \in 1..Len(stack'[t]) /\ k \in Int /\ k >= 1 /\ k <= m
  BY <1>0
<1>2. FrameOwned(t, k) /\ FrameNested(t, k)
  BY <1>1 DEF IInv, Structure, Nesting
<1>3. /\ Owner[stack[t][k].arena] = t /\ meta'[stack[t][k].arena] # None
      /\ stack[t][k].at \in InsideDrop =>
           /\ stack[t][k].item \in Item
           /\ home'[stack[t][k].item] = stack[t][k].arena
           /\ dropped'[stack[t][k].item] > 0
  BY <1>1, FramesLast
<1>4. stack'[t][k] = stack[t][k]
  OBVIOUS
<1>5. stack[t][k].at = "new" => stack'[t] = <<Frame("new", stack[t][k].arena, None)>>
  <2> SUFFICES ASSUME stack[t][k].at = "new"
               PROVE  stack'[t] = <<Frame("new", stack[t][k].arena, None)>>
    OBVIOUS
  <2>1. stack[t] = <<Frame("new", stack[t][k].arena, None)>>
    BY <1>2 DEF FrameOwned
  <2>2. Len(stack[t]) = 1
    <3>1. \A x : Len(<<x>>) = 1
      OBVIOUS
    <3> QED BY <2>1, <3>1
  <2> QED BY <1>1, <2>1, <2>2
<1>6. FrameOwned(t, k)'
  BY <1>3, <1>4, <1>5 DEF FrameOwned, Born
<1>7. FrameItem(t, k)'
  BY <1>3, <1>4 DEF FrameItem
<1>8. stack'[t][k].at \in InsideDrop =>
        /\ k > 1 /\ stack'[t][k - 1].at = "exec"
        /\ stack'[t][k - 1].arena = stack'[t][k].arena
  <2>1. k > 1 => stack'[t][k - 1] = stack[t][k - 1]
    BY <1>1
  <2> QED BY <1>2, <1>4, <2>1 DEF FrameNested
<1>9. /\ k < m => stack'[t][k].at \in Pausing
      /\ k < m /\ stack'[t][k].at = "exec" => stack'[t][k + 1].at \in InsideDrop
  <2>1. k < m => stack'[t][k + 1] = stack[t][k + 1] /\ k < Len(stack[t])
    BY <1>0, <1>1
  <2> QED BY <1>2, <1>4, <2>1 DEF FrameNested
<1> QED BY <1>6, <1>7, <1>8, <1>9

\* One call more.
LEMMA OneMore ==
  ASSUME NEW t \in Thread, NEW m \in Nat,
         InOrder(t, m)', FrameOwned(t, m + 1)', FrameItem(t, m + 1)',
         m > 0 => stack'[t][m].at \in Pausing,
         m > 0 /\ stack'[t][m].at = "exec" => stack'[t][m + 1].at \in InsideDrop,
         stack'[t][m + 1].at \in InsideDrop =>
           /\ m > 0 /\ stack'[t][m].at = "exec"
           /\ stack'[t][m].arena = stack'[t][m + 1].arena
  PROVE  InOrder(t, m + 1)'
<1> SUFFICES ASSUME NEW k \in 1..(m + 1)
             PROVE  /\ FrameOwned(t, k)' /\ FrameItem(t, k)'
                    /\ k < m + 1 => stack'[t][k].at \in Pausing
                    /\ k < m + 1 /\ stack'[t][k].at = "exec" => stack'[t][k + 1].at \in InsideDrop
                    /\ stack'[t][k].at \in InsideDrop =>
                         /\ k > 1 /\ stack'[t][k - 1].at = "exec"
                         /\ stack'[t][k - 1].arena = stack'[t][k].arena
  BY DEF InOrder
<1>1. CASE k = m + 1
  <2>1. k - 1 = m /\ ~(k < m + 1) /\ (m > 0 => k > 1)
    BY <1>1
  <2> QED BY <1>1, <2>1
<1>2. CASE k = m
  <2>1. k \in 1..m /\ m > 0 /\ ~(k < m)
    BY <1>2
  <2> QED BY <1>2, <2>1 DEF InOrder
<1>3. CASE k < m
  <2>1. k \in 1..m
    BY <1>3
  <2> QED BY <1>3, <2>1 DEF InOrder
<1> QED BY <1>1, <1>2, <1>3

\* Every step keeps the calls nested.
LEMMA NestingKeeps ==
  ASSUME IInv, [Next]_vars
  PROVE  stack' \in [Thread -> Seq(FrameOf)] /\ Nesting'
<1>a. TypeOK /\ Nesting
  BY DEF IInv, Structure
<1>b. stack \in [Thread -> Seq(FrameOf)]
  BY <1>a DEF TypeOK, FrameOf
<1>c. \A t \in Thread : InOrder(t, Len(stack[t]))
  BY <1>a, AllInOrder
<1> SUFFICES /\ stack' \in [Thread -> Seq(FrameOf)]
             /\ \A t \in Thread, n \in Nat : n = Len(stack'[t]) => InOrder(t, n)'
  <2>1. ASSUME stack' \in [Thread -> Seq(FrameOf)],
               \A t \in Thread, n \in Nat : n = Len(stack'[t]) => InOrder(t, n)'
        PROVE  Nesting'
    <3> SUFFICES ASSUME NEW t \in Thread, NEW k \in 1..Len(stack'[t])
                 PROVE  FrameOwned(t, k)' /\ FrameNested(t, k)' /\ FrameItem(t, k)'
      BY DEF Nesting
    <3>1. PICK n \in Nat : n = Len(stack'[t])
      BY <2>1
    <3>2. InOrder(t, n)' /\ k \in 1..n
      BY <2>1, <3>1
    <3> QED BY <3>1, <3>2 DEF InOrder, FrameNested
  <2> QED BY <2>1
<1>1. ASSUME NEW t \in Thread, NEW n \in Nat, stack'[t] = stack[t], n = Len(stack'[t])
      PROVE  InOrder(t, n)'
  BY <1>1, <1>b, Kept
<1>2. ASSUME NEW t \in Thread, NEW f \in FrameOf, Enters(t, f)
      PROVE  /\ stack' \in [Thread -> Seq(FrameOf)]
             /\ \A n \in Nat : n = Len(stack'[t]) => InOrder(t, n)'
  <2>0. PICK m \in Nat : m = Len(stack[t])
    BY <1>b
  <2>1. /\ stack[t] \in Seq(FrameOf)
        /\ stack'[t] = Append(stack[t], f)
        /\ stack' = [stack EXCEPT ![t] = Append(stack[t], f)]
    BY <1>b, <1>2 DEF Enters
  <2>2. /\ stack'[t] \in Seq(FrameOf) /\ Len(stack'[t]) = m + 1
        /\ \A k \in 1..m : stack'[t][k] = stack[t][k]
        /\ stack'[t][m + 1] = f
    BY ONLY <2>0, <2>1, Pushed
  <2>3. m > 0 => /\ ~Idle(t) /\ stack[t][m] = Last(stack[t])
                 /\ m \in 1..Len(stack[t])
    BY <1>a, <2>0, <2>1, Top DEF Idle
  <2>4. m > 0 => /\ stack[t][m].at \in Pausing
                 /\ stack[t][m].at = "exec" => f.at = "user" /\ f.arena = stack[t][m].arena
    BY <1>2, <2>3 DEF Enters, Asks, At, Pausing
  <2>5. \A k \in 1..m : stack[t][k].at # "new"
    <3> SUFFICES ASSUME NEW k \in 1..m, stack[t][k].at = "new" PROVE FALSE
      OBVIOUS
    <3>1. stack[t] = <<Frame("new", stack[t][k].arena, None)>>
      BY <1>a, <2>0 DEF Nesting, FrameOwned
    <3>2. \A x : Len(<<x>>) = 1
      OBVIOUS
    <3>3. Len(stack[t]) = 1
      BY <3>1, <3>2
    <3>4. m = 1 /\ k = 1
      BY <2>0, <3>3
    <3> QED BY <2>4, <3>4 DEF Pausing
  <2>6. InOrder(t, m)'
    <3>1. m <= Len(stack[t]) /\ m <= Len(stack'[t])
      BY <2>0, <2>2
    <3> QED BY <2>1, <2>2, <2>5, <3>1, Kept
  <2>7. f.at \in InsideDrop =>
          /\ m > 0 /\ stack[t][m].at = "exec" /\ f.arena = stack[t][m].arena
          /\ f.item \in Item /\ home[f.item] = f.arena /\ dropped'[f.item] > 0
    <3> SUFFICES ASSUME f.at \in InsideDrop
                 PROVE  /\ m > 0 /\ stack[t][m].at = "exec" /\ f.arena = stack[t][m].arena
                        /\ f.item \in Item /\ home[f.item] = f.arena /\ dropped'[f.item] > 0
      OBVIOUS
    <3>1. /\ At(t, "exec") /\ f.arena = Last(stack[t]).arena
          /\ f.item \in Item /\ home[f.item] = f.arena /\ dropped'[f.item] > 0
      BY <1>2 DEF Enters, InsideDrop, Frame
    <3>2. m > 0
      BY <2>0, <2>1, <3>1 DEF At, Idle
    <3> QED BY <2>3, <3>1, <3>2 DEF At
  <2>8. f.at = "new" => m = 0 /\ f = Frame("new", f.arena, None)
    BY <1>2, <2>0, <2>1 DEF Enters, Idle, At
  <2>9. FrameOwned(t, m + 1)'
    <3>1. f.at = "new" => stack'[t] = <<Frame("new", f.arena, None)>>
      <4>1. \A x : Append(<<>>, x) = <<x>>
        OBVIOUS
      <4>2. m = 0 => stack[t] = <<>>
        BY ONLY <2>0, <2>1, EmptySeq
      <4> QED BY <2>1, <2>8, <4>1, <4>2
    <3> QED BY <1>2, <2>2, <3>1 DEF FrameOwned, Enters, Born
  <2>10. FrameItem(t, m + 1)'
    <3>1. f.at \in InsideDrop => home'[f.item] = home[f.item]
      BY <1>a, <2>7, Lasting, ArenaAssumption DEF FrameOf
    <3> QED BY <2>2, <2>7, <3>1 DEF FrameItem
  <2>11. InOrder(t, m + 1)'
    <3>1. /\ m > 0 => stack'[t][m] = stack[t][m]
          /\ stack'[t][m + 1] = f
      BY <2>2
    <3>2. /\ m > 0 => stack'[t][m].at \in Pausing
          /\ m > 0 /\ stack'[t][m].at = "exec" => stack'[t][m + 1].at \in InsideDrop
          /\ stack'[t][m + 1].at \in InsideDrop =>
               /\ m > 0 /\ stack'[t][m].at = "exec"
               /\ stack'[t][m].arena = stack'[t][m + 1].arena
      BY <2>4, <2>7, <3>1 DEF InsideDrop
    <3> QED BY <2>6, <2>9, <2>10, <3>2, OneMore
  <2> QED BY <1>b, <2>1, <2>2, <2>11
<1>3. ASSUME NEW t \in Thread, Leaves(t)
      PROVE  /\ stack' \in [Thread -> Seq(FrameOf)]
             /\ \A n \in Nat : n = Len(stack'[t]) => InOrder(t, n)'
  <2>1. /\ stack' = [stack EXCEPT ![t] = Front(stack[t])]
        /\ stack'[t] = Front(stack[t]) /\ ~Idle(t)
    BY <1>b, <1>3 DEF Leaves
  <2>2. /\ stack'[t] \in Seq(FrameOf) /\ Len(stack'[t]) = Len(stack[t]) - 1
        /\ \A k \in 1..(Len(stack[t]) - 1) : stack'[t][k] = stack[t][k]
    BY <1>a, <2>1, Top
  <2>3. ASSUME NEW n \in Nat, n = Len(stack'[t]) PROVE InOrder(t, n)'
    <3>1. /\ n < Len(stack[t]) /\ n <= Len(stack[t]) /\ n <= Len(stack'[t])
          /\ \A k \in 1..n : stack'[t][k] = stack[t][k]
          /\ stack[t] \in Seq(FrameOf)
      BY <1>b, <2>2, <2>3
    <3> QED BY <2>2, <3>1, Kept
  <2> QED BY <1>b, <2>1, <2>2, <2>3
<1>4. ASSUME NEW t \in Thread, GoesOn(t)
      PROVE  /\ stack' \in [Thread -> Seq(FrameOf)]
             /\ \A n \in Nat : n = Len(stack'[t]) => InOrder(t, n)'
  <2>i. ~Idle(t)
    BY <1>4 DEF GoesOn, At
  <2>0. PICK m \in Nat : Len(stack[t]) = m + 1
    BY <1>a, <1>b, <2>i, Top
  <2>1. /\ ~Idle(t) /\ Last(stack[t]).at = "exec" /\ Last(stack[t]) = stack[t][m + 1]
        /\ stack[t][m + 1] \in FrameOf
        /\ Front(stack[t]) \in Seq(FrameOf) /\ Len(Front(stack[t])) = m
        /\ \A k \in 1..m : Front(stack[t])[k] = stack[t][k]
        /\ m + 1 \in 1..Len(stack[t])
    BY <1>a, <1>4, <2>0, Top DEF GoesOn, At
  <2>f. PICK f \in FrameOf : f = Frame("reclaim", stack[t][m + 1].arena, None)
    BY <2>1 DEF Frame, FrameOf, Step
  <2>2. /\ stack' = [stack EXCEPT ![t] = Append(Front(stack[t]), f)]
        /\ stack'[t] = Append(Front(stack[t]), f)
    BY <1>b, <1>4, <2>1, <2>f DEF GoesOn
  <2>3. /\ stack'[t] \in Seq(FrameOf) /\ Len(stack'[t]) = m + 1
        /\ \A k \in 1..m : stack'[t][k] = Front(stack[t])[k]
        /\ stack'[t][m + 1] = f
    BY ONLY <2>0, <2>1, <2>2, Pushed
  <2>4. \A k \in 1..m : stack'[t][k] = stack[t][k]
    BY <2>1, <2>3
  <2>5. InOrder(t, m)'
    <3>1. m <= Len(stack[t]) /\ m < Len(stack[t]) /\ m <= Len(stack'[t]) /\ stack[t] \in Seq(FrameOf)
      BY <1>b, <2>0, <2>3
    <3> QED BY <2>3, <2>4, <3>1, Kept
  <2>6. m > 0 => stack[t][m].at \in {"user", "unwind"}
    <3>1. m > 0 => FrameNested(t, m) /\ m < Len(stack[t])
      BY <1>a, <2>0 DEF Nesting
    <3> QED BY <2>1, <3>1 DEF FrameNested, Pausing, InsideDrop
  <2>7. FrameOwned(t, m + 1)' /\ FrameItem(t, m + 1)'
    <3>1. Owner[stack[t][m + 1].arena] = t /\ meta'[stack[t][m + 1].arena] # None
      BY <2>1, <2>3, FramesLast
    <3> QED BY <2>f, <2>3, <3>1 DEF FrameOwned, FrameItem, Frame, Born, InsideDrop
  <2>8. InOrder(t, m + 1)'
    <3>1. /\ m > 0 => stack'[t][m] = stack[t][m]
          /\ stack'[t][m + 1].at = "reclaim"
      BY <2>f, <2>3, <2>4 DEF Frame
    <3>2. /\ m > 0 => stack'[t][m].at \in Pausing
          /\ m > 0 /\ stack'[t][m].at = "exec" => stack'[t][m + 1].at \in InsideDrop
          /\ stack'[t][m + 1].at \in InsideDrop =>
               /\ m > 0 /\ stack'[t][m].at = "exec"
               /\ stack'[t][m].arena = stack'[t][m + 1].arena
      BY <2>6, <3>1 DEF InsideDrop, Pausing
    <3> QED BY <2>5, <2>7, <3>2, OneMore
  <2> QED BY <1>b, <2>2, <2>3, <2>8
<1>5. ASSUME NEW t \in Thread, IsUnwound(t)
      PROVE  /\ stack' \in [Thread -> Seq(FrameOf)]
             /\ \A n \in Nat : n = Len(stack'[t]) => InOrder(t, n)'
  <2>1. /\ ~Idle(t) /\ Last(stack[t]).at \in InsideDrop
        /\ Len(stack[t]) \in 1..Len(stack[t]) /\ Last(stack[t]) = stack[t][Len(stack[t])]
        /\ stack[t] \in Seq(FrameOf) /\ Len(stack[t]) \in Nat
    BY <1>a, <1>b, <1>5, Top DEF IsUnwound, At, InsideDrop
  <2>2. Len(stack[t]) > 1 /\ stack[t][Len(stack[t]) - 1].at = "exec"
    BY <1>a, <2>1 DEF Nesting, FrameNested
  <2>3. PICK m \in Nat : Len(stack[t]) = m + 2
    <3>1. Len(stack[t]) - 2 \in Nat /\ Len(stack[t]) = (Len(stack[t]) - 2) + 2
      BY <2>1, <2>2
    <3> QED BY <3>1
  <2>4. /\ stack' = [stack EXCEPT ![t] = Unwound(stack[t])]
        /\ stack'[t] = Unwound(stack[t])
    BY <1>b, <1>5 DEF IsUnwound
  <2>5. /\ stack'[t] \in Seq(FrameOf) /\ Len(stack'[t]) = m
        /\ \A k \in 1..(m - 1) : stack'[t][k] = stack[t][k]
        /\ m > 0 => stack'[t][m] = [stack[t][m] EXCEPT !.at = "unwind"]
    <3>1. Len(stack[t]) >= 2 /\ Len(stack[t]) - 2 = m /\ Len(stack[t]) - 3 = m - 1
      BY <2>3
    <3> QED BY <2>1, <2>4, <3>1, UnwoundCalls
  <2>6. CASE m = 0
    BY <1>b, <2>4, <2>5, <2>6 DEF InOrder
  <2>7. CASE m > 0
    <3>0. PICK l \in Nat : m = l + 1
      BY <2>7
    <3>1. /\ m \in 1..Len(stack[t]) /\ m \in 1..Len(stack'[t]) /\ m < Len(stack[t])
          /\ m + 1 = Len(stack[t]) - 1
      BY <2>3, <2>5, <2>7
    <3>2. FrameNested(t, m) /\ stack[t][m].at \in InsideDrop
      BY <1>a, <2>2, <3>1 DEF Nesting, FrameNested, Pausing, InsideDrop
    <3>3. InOrder(t, l)'
      <4>1. /\ l <= Len(stack[t]) /\ l < Len(stack[t]) /\ l <= Len(stack'[t])
            /\ \A k \in 1..l : stack'[t][k] = stack[t][k]
        BY <2>3, <2>5, <3>0
      <4> QED BY <2>1, <2>5, <4>1, Kept
    <3>4. /\ stack[t][m] \in FrameOf
          /\ Owner[stack[t][m].arena] = t /\ meta'[stack[t][m].arena] # None
          /\ stack[t][m].item \in Item
          /\ home'[stack[t][m].item] = stack[t][m].arena
          /\ dropped'[stack[t][m].item] > 0
      BY <3>1, <3>2, FramesLast
    <3>5. /\ stack'[t][m].at = "unwind" /\ stack'[t][m].arena = stack[t][m].arena
          /\ stack'[t][m].item = stack[t][m].item
      BY <2>5, <2>7, <3>4 DEF FrameOf
    <3>6. FrameOwned(t, m)' /\ FrameItem(t, m)'
      BY <3>4, <3>5 DEF FrameOwned, FrameItem, Born
    <3>7. /\ l > 0 /\ l \in 1..Len(stack[t]) /\ l < Len(stack[t]) /\ m - 1 = l
          /\ stack'[t][l] = stack[t][l] /\ stack[t][l].at = "exec"
          /\ stack[t][l].arena = stack[t][m].arena
      <4>1. /\ m > 1 /\ stack[t][m - 1].at = "exec"
            /\ stack[t][m - 1].arena = stack[t][m].arena
        BY <3>2 DEF FrameNested
      <4>2. m - 1 = l /\ l > 0 /\ l \in 1..Len(stack[t]) /\ l < Len(stack[t]) /\ l \in 1..(m - 1)
        BY <2>3, <3>0, <4>1
      <4> QED BY <2>5, <4>1, <4>2
    <3>8. InOrder(t, l + 1)'
      <4>1. /\ stack'[t][l].at = "exec" /\ stack'[t][l].arena = stack'[t][l + 1].arena
            /\ stack'[t][l + 1].at = "unwind"
            /\ FrameOwned(t, l + 1)' /\ FrameItem(t, l + 1)'
        BY <3>0, <3>5, <3>6, <3>7
      <4> QED BY <3>3, <3>7, <4>1, OneMore DEF Pausing, InsideDrop
    <3> QED BY <1>b, <2>4, <2>5, <3>0, <3>8
  <2> QED BY <2>6, <2>7
<1>6. ASSUME NEW t \in Thread, stack' \in [Thread -> Seq(FrameOf)],
             \A u \in Thread : u # t => stack'[u] = stack[u],
             \A n \in Nat : n = Len(stack'[t]) => InOrder(t, n)'
      PROVE  \A u \in Thread, n \in Nat : n = Len(stack'[u]) => InOrder(u, n)'
  BY <1>1, <1>6
<1>7. CASE stack' = stack
  BY <1>b, <1>1, <1>7
<1>8. ASSUME NEW t \in Thread,
             (\E f \in FrameOf : Enters(t, f)) \/ Leaves(t) \/ GoesOn(t) \/ IsUnwound(t)
      PROVE  \A u \in Thread : u # t => stack'[u] = stack[u]
  BY <1>b, <1>8 DEF Enters, Leaves, GoesOn, IsUnwound
<1> QED
  BY <1>2, <1>3, <1>4, <1>5, <1>6, <1>7, <1>8, CallSteps

-----------------------------------------------------------------------------
(* What a step does to the handles                                         *)

\* From a handle on a, another one is made.
Gains(a, h, new) ==
  /\ Usable(h, a) /\ new \in Unused /\ KeepsNew(Owner[a], new)
  /\ rc' = [rc EXCEPT ![a] = @ + 1]
  /\ \/ /\ strong[a] > 0 \/ h \in strongs[a]
        /\ strong' = [strong EXCEPT ![a] = @ + 1]
        /\ strongs' = [strongs EXCEPT ![a] = @ \cup {new}]
        /\ UNCHANGED weaks
     \/ /\ weaks' = [weaks EXCEPT ![a] = @ \cup {new}]
        /\ UNCHANGED <<strong, strongs>>

\* A handle is dropped, by the program or by the drop function it belongs to.
Loses(t, a, h) ==
  /\ Owner[a] = t /\ Asks(t) /\ Born(a) /\ ~Building(a)
  /\ DropStrong(t, a, h) \/ DropWeak(t, a, h)
  /\ \/ Idle(t) /\ h \notin Moved /\ UNCHANGED inside
     \/ /\ ~Idle(t) /\ User(t) \in Item /\ h \in inside[User(t)]
        /\ inside' = [inside EXCEPT ![User(t)] = @ \ {h}]

\* Every step on handles makes one or drops one.
LEMMA HandleSteps ==
  ASSUME IInv, Handling
  PROVE  \E t \in Thread, a \in Arena, h \in Handle :
           Loses(t, a, h) \/ (t = Owner[a] /\ \E new \in Handle : Gains(a, h, new))
<1>o. \A a \in Arena : Owner[a] \in Thread
  BY ArenaAssumption
<1>1. ASSUME NEW a \in Arena, NEW h \in Handle, NEW new \in Handle,
             CloneArena(a, h, new) \/ NewWeak(a, h, new) \/ Upgrade(a, h, new)
      PROVE  Gains(a, h, new)
  BY <1>1 DEF CloneArena, NewWeak, Upgrade, Gains
<1>2. ASSUME NEW a \in Arena, NEW h \in Handle, DropHandle(a, h) PROVE Loses(Owner[a], a, h)
  <2>1. Idle(Owner[a]) /\ h \in Outside
    BY <1>2 DEF DropHandle, Usable, InHand
  <2>2. Asks(Owner[a]) /\ Born(a) /\ ~Building(a)
    BY <1>2, HoldersAsk DEF DropHandle
  <2>3. (DropStrong(Owner[a], a, h) \/ DropWeak(Owner[a], a, h)) /\ UNCHANGED inside
    BY <1>2 DEF DropHandle
  <2>4. h \notin Moved
    BY <2>1 DEF Outside
  <2> QED BY <2>1, <2>2, <2>3, <2>4 DEF Loses
<1>3. ASSUME NEW t \in Thread, NEW h \in Handle, DropField(t, h)
      PROVE  \E a \in Arena : Loses(t, a, h)
  <2>1. PICK a \in Arena : DropStrong(t, a, h) \/ DropWeak(t, a, h)
    BY <1>3 DEF DropField
  <2>2. /\ At(t, "user") \/ At(t, "unwind")
        /\ h \in inside[User(t)] /\ h \in Refs(a)
        /\ inside' = [inside EXCEPT ![User(t)] = @ \ {h}]
    BY <1>3, <2>1 DEF DropField, DropStrong, DropWeak, Refs, User
  <2>3. Owner[a] = t /\ Born(a) /\ ~Building(a) /\ User(t) \in Item
    BY <2>2, DropsOwn
  <2> QED BY <2>1, <2>2, <2>3 DEF Loses, Asks, At
<1> QED BY <1>o, <1>1, <1>2, <1>3 DEF Handling

\* An arena nobody has seen after a step was not seen before it, and the step
\* is not about it.
LEMMA StillUnseen ==
  ASSUME IInv, [Next]_vars, NEW a \in Arena, ~Born(a)' \/ Building(a)'
  PROVE  ~Born(a) \/ Building(a)
<1> SUFFICES ASSUME Born(a) PROVE Building(a)
  OBVIOUS
<1>a. TypeOK /\ Owner[a] \in Thread /\ stack \in [Thread -> Seq(FrameOf)]
  BY ArenaAssumption DEF IInv, Structure, TypeOK, FrameOf
<1>1. CASE ~Born(a)'
  <2>1. PICK t \in Thread : NewFails(t) /\ a = Last(stack[t]).arena
    BY <1>1, <1>a, Lasting
  <2>2. /\ Len(stack[t]) \in 1..Len(stack[t]) /\ Last(stack[t]) = stack[t][Len(stack[t])]
        /\ Last(stack[t]).at = "new"
    BY <1>a, <2>1, Top DEF NewFails, At
  <2>3. FrameOwned(t, Len(stack[t]))
    BY <2>2 DEF IInv, Structure, Nesting
  <2> QED BY <2>1, <2>2, <2>3 DEF FrameOwned, Building
<1>2. CASE Building(a)'
  <2>0. PICK t \in Thread : t = Owner[a]
    BY <1>a
  <2>1. stack'[t] = <<Frame("new", a, None)>>
    BY <1>2, <2>0 DEF Building
  <2>2. \A x : Len(<<x>>) = 1 /\ <<x>>[1] = x
    OBVIOUS
  <2>3. Len(stack'[t]) = 1 /\ stack'[t][1] = Frame("new", a, None)
    BY <2>1, <2>2
  <2>4. ASSUME stack[t] # stack'[t] PROVE FALSE
    <3>1. \/ \E f \in FrameOf : Enters(t, f)
          \/ Leaves(t) \/ GoesOn(t) \/ IsUnwound(t)
      BY <1>a, <2>4, CallSteps DEF Enters, Leaves, GoesOn, IsUnwound
    <3>2. ASSUME NEW f \in FrameOf, Enters(t, f) PROVE FALSE
      <4>1. stack'[t] = Append(stack[t], f)
        BY <1>a, <3>2 DEF Enters
      <4>2. /\ Len(stack'[t]) = Len(stack[t]) + 1 /\ stack'[t][Len(stack[t]) + 1] = f
            /\ Len(stack[t]) \in Nat
        BY <1>a, <4>1, Pushed
      <4>3. f = Frame("new", a, None)
        BY <2>3, <4>2
      <4>4. ~Born(f.arena)
        BY <3>2, <4>3 DEF Enters, Frame
      <4> QED BY <4>3, <4>4 DEF Frame
    <3>3. ASSUME Leaves(t) PROVE FALSE
      <4>1. stack'[t] = Front(stack[t]) /\ ~Idle(t)
        BY <1>a, <3>3 DEF Leaves
      <4>2. /\ Len(stack[t]) = 2 /\ stack[t][1] = stack'[t][1] /\ 1 \in 1..Len(stack[t])
        <5>1. /\ Len(stack[t]) \in Nat /\ Len(stack'[t]) = Len(stack[t]) - 1
              /\ \A k \in 1..(Len(stack[t]) - 1) : stack'[t][k] = stack[t][k]
          BY <1>a, <4>1, Top
        <5>0. \A n \in Nat : n - 1 = 1 => n = 2 /\ 1 \in 1..(n - 1) /\ 1 \in 1..n
          OBVIOUS
        <5>2. Len(stack[t]) = 2 /\ 1 \in 1..(Len(stack[t]) - 1) /\ 1 \in 1..Len(stack[t])
          BY <2>3, <5>0, <5>1, Zenon
        <5> QED BY <5>1, <5>2
      <4>3. FrameNested(t, 1)
        BY <1>a, <4>2 DEF IInv, Structure, Nesting
      <4> QED BY <2>3, <4>2, <4>3 DEF FrameNested, Pausing, Frame
    <3>4. ASSUME GoesOn(t) PROVE FALSE
      <4> DEFINE f == Frame("reclaim", Last(stack[t]).arena, None)
      <4>1. stack'[t] = Append(Front(stack[t]), f) /\ ~Idle(t)
        BY <1>a, <3>4 DEF GoesOn, At
      <4>2. Front(stack[t]) \in Seq(FrameOf) /\ f \in FrameOf
        BY <1>a, <4>1, Top DEF FrameOf, Frame, Step
      <4>3. Len(stack'[t]) = Len(Front(stack[t])) + 1 /\ stack'[t][Len(Front(stack[t])) + 1] = f
            /\ Len(Front(stack[t])) \in Nat
        BY <4>1, <4>2, Pushed
      <4>4. f = Frame("new", a, None)
        BY <2>3, <4>3
      <4> QED BY <4>4 DEF Frame
    <3>5. ASSUME IsUnwound(t) PROVE FALSE
      <4>1. /\ ~Idle(t) /\ Last(stack[t]).at \in InsideDrop
            /\ Len(stack[t]) \in 1..Len(stack[t]) /\ Last(stack[t]) = stack[t][Len(stack[t])]
            /\ stack[t] \in Seq(FrameOf) /\ stack'[t] = Unwound(stack[t])
        BY <1>a, <3>5, Top DEF IsUnwound, At, InsideDrop
      <4>2. Len(stack[t]) > 1
        BY <1>a, <4>1 DEF IInv, Structure, Nesting, FrameNested
      <4>3. /\ Len(stack[t]) >= 2 /\ Len(stack[t]) \in Nat
            /\ Len(stack'[t]) = Len(stack[t]) - 2
            /\ Len(stack[t]) > 2 =>
                 stack'[t][Len(stack[t]) - 2] = [stack[t][Len(stack[t]) - 2] EXCEPT !.at = "unwind"]
        BY <4>1, <4>2, UnwoundCalls
      <4>4. Len(stack[t]) = 3 /\ stack'[t][1] = [stack[t][1] EXCEPT !.at = "unwind"] /\ stack[t][1] \in FrameOf
        <5>0. Len(stack[t]) \in Nat /\ Len(stack'[t]) = Len(stack[t]) - 2 /\ Len(stack'[t]) = 1
          BY ONLY <2>3, <4>3
        <5>a. \A n \in Nat : n - 2 = 1 => n = 3 /\ n > 2 /\ 1 \in 1..n
          OBVIOUS
        <5>1. Len(stack[t]) = 3 /\ 1 \in 1..Len(stack[t]) /\ Len(stack[t]) - 2 = 1 /\ Len(stack[t]) > 2
          BY <5>0, <5>a, Zenon
        <5> QED BY <4>1, <4>3, <5>1
      <4>5. stack'[t][1].at = "unwind"
        BY <4>4 DEF FrameOf
      <4> QED BY <2>3, <4>5 DEF Frame
    <3> QED BY <3>1, <3>2, <3>3, <3>4, <3>5
  <2> QED BY <2>0, <2>1, <2>4 DEF Building
<1> QED BY <1>1, <1>2

-----------------------------------------------------------------------------
(* The handles                                                             *)

\* A handle kept by an item exists.
LEMMA HeldExist ==
  ASSUME IInv, NEW i \in Item, NEW h \in Handle, h \in inside[i]
  PROVE  h \notin Unused
BY DEF IInv, Structure, HeldHere, Unused

\* The arena under construction.
LEMMA Builds ==
  ASSUME IInv, NEW t \in Thread, At(t, "new")
  PROVE  \E a \in Arena :
           /\ Last(stack[t]).arena = a /\ Owner[a] = t /\ Born(a) /\ Building(a)
           /\ Refs(a) = {} /\ queue[a] = <<>> /\ Len(stack[t]) = 1
           /\ Len(Front(stack[t])) = 0
<1>1. /\ Len(stack[t]) \in 1..Len(stack[t]) /\ Last(stack[t]) = stack[t][Len(stack[t])]
      /\ Last(stack[t]) \in FrameOf /\ Last(stack[t]).at = "new"
      /\ Len(Front(stack[t])) = Len(stack[t]) - 1
  BY Top DEF At, IInv, Structure
<1>2. PICK a \in Arena : Last(stack[t]).arena = a
  BY <1>1 DEF FrameOf
<1>3. FrameOwned(t, Len(stack[t]))
  BY <1>1 DEF IInv, Structure, Nesting
<1>4. Owner[a] = t /\ Born(a) /\ stack[t] = <<Frame("new", a, None)>>
  BY <1>1, <1>2, <1>3 DEF FrameOwned
<1>5. Len(stack[t]) = 1
  <2>1. \A x : Len(<<x>>) = 1
    OBVIOUS
  <2> QED BY <1>4, <2>1
<1>6. Len(Front(stack[t])) = 0
  BY <1>1, <1>5
<1>7. Refs(a) = {} /\ queue[a] = <<>>
  BY <1>4 DEF IInv, Structure, Unseen, Building
<1> QED BY <1>2, <1>4, <1>5, <1>6, <1>7 DEF Building

\* Every handle exists once after a step as well.
LEMMA HandlesApartKeeps ==
  ASSUME IInv, [Next]_vars
  PROVE  HandlesApart'
<1>a. TypeOK /\ HandlesApart
  BY DEF IInv, Structure
<1>1. CASE UNCHANGED <<strongs, weaks, inside>>
  BY <1>a, <1>1 DEF HandlesApart, Refs
<1>2. ASSUME NEW t \in Thread, NEW h \in Handle, NewDone(t, h) PROVE HandlesApart'
  <2>1. PICK a \in Arena : Last(stack[t]).arena = a
    BY <1>2, Builds DEF NewDone
  <2>2. /\ strongs' = [strongs EXCEPT ![a] = {h}] /\ weaks' = weaks /\ inside' = inside
        /\ h \in Unused
    BY <1>2, <2>1 DEF NewDone
  <2> QED BY <1>a, <2>2 DEF HandlesApart, Refs, Unused, TypeOK
<1>3. ASSUME NEW a \in Arena, NEW h \in Handle, NEW new \in Handle, Gains(a, h, new)
      PROVE  HandlesApart'
  <2>1. new \in Unused
    BY <1>3 DEF Gains
  <2>2. /\ \A b \in Arena : strongs'[b] \cap weaks'[b] = {}
        /\ \A b, c \in Arena : b # c => (strongs'[b] \cup weaks'[b]) \cap (strongs'[c] \cup weaks'[c]) = {}
    <3>1. \A b \in Arena : new \notin strongs[b] /\ new \notin weaks[b]
      BY <2>1 DEF Unused, Refs
    <3>2. \/ strongs' = [strongs EXCEPT ![a] = @ \cup {new}] /\ weaks' = weaks
          \/ strongs' = strongs /\ weaks' = [weaks EXCEPT ![a] = @ \cup {new}]
      BY <1>3 DEF Gains
    <3>3. /\ \A b \in Arena : strongs[b] \cap weaks[b] = {}
          /\ \A b, c \in Arena : b # c => (strongs[b] \cup weaks[b]) \cap (strongs[c] \cup weaks[c]) = {}
          /\ strongs \in [Arena -> SUBSET Handle] /\ weaks \in [Arena -> SUBSET Handle]
      BY <1>a DEF HandlesApart, Refs, TypeOK
    <3> QED BY ONLY <3>1, <3>2, <3>3
  <2>3. \A i, j \in Item : i # j => inside'[i] \cap inside'[j] = {}
    <3>1. \A i \in Item : new \notin inside[i]
      BY <2>1, HeldExist
    <3>2. inside' = inside \/ \E u : inside' = [inside EXCEPT ![u] = @ \cup {new}]
      BY <1>3 DEF Gains, KeepsNew
    <3>3. /\ \A i, j \in Item : i # j => inside[i] \cap inside[j] = {}
          /\ inside \in [Item -> SUBSET Handle]
      BY <1>a DEF HandlesApart, TypeOK
    <3> QED BY ONLY <3>1, <3>2, <3>3
  <2> QED BY <2>2, <2>3 DEF HandlesApart, Refs
<1>4. ASSUME NEW t \in Thread, NEW a \in Arena, NEW h \in Handle, Loses(t, a, h)
      PROVE  HandlesApart'
  <2>1. \A b \in Arena : strongs'[b] \subseteq strongs[b] /\ weaks'[b] \subseteq weaks[b]
    <3>1. \/ strongs' = [strongs EXCEPT ![a] = @ \ {h}] /\ weaks' = weaks
          \/ strongs' = strongs /\ weaks' = [weaks EXCEPT ![a] = @ \ {h}]
      BY <1>4 DEF Loses, DropStrong, DropWeak
    <3>2. strongs \in [Arena -> SUBSET Handle] /\ weaks \in [Arena -> SUBSET Handle]
      BY <1>a DEF TypeOK
    <3> QED BY ONLY <3>1, <3>2
  <2>2. \A i \in Item : inside'[i] \subseteq inside[i]
    BY <1>a, <1>4 DEF Loses, TypeOK
  <2> QED BY <1>a, <2>1, <2>2 DEF HandlesApart, Refs
<1>5. ASSUME NEW a \in Arena, NEW h \in Handle, NEW i \in Item, NEW moved \in SUBSET Handle,
             Upload(a, h, i, moved)
      PROVE  HandlesApart'
  <2>1. /\ inside' = [j \in Item |-> IF j = i THEN moved ELSE inside[j] \ moved]
        /\ UNCHANGED <<strongs, weaks>>
    BY <1>5 DEF Upload
  <2> QED BY <1>a, <2>1 DEF HandlesApart, Refs
<1>6. CASE Births
  <2>1. ASSUME NEW a \in Arena, ArenaNew(a) PROVE HandlesApart'
    BY <1>1, <2>1 DEF ArenaNew, handles
  <2>2. ASSUME NEW t \in Thread, NewFails(t) PROVE HandlesApart'
    BY <1>1, <2>2 DEF NewFails, handles
  <2> QED BY <1>2, <1>6, <2>1, <2>2 DEF Births
<1>7. CASE Handling
  BY <1>3, <1>4, <1>7, HandleSteps
<1>8. CASE Uploading
  <2>1. ASSUME NEW a \in Arena, NEW h \in Handle, NEW i \in Item, RegisterDropFn(a, h, i)
        PROVE  HandlesApart'
    BY <1>1, <2>1 DEF RegisterDropFn, handles
  <2> QED BY <1>5, <1>8, <2>1 DEF Uploading
<1>9. CASE Storing \/ Walking \/ UNCHANGED vars
  BY <1>1, <1>9, StoringLeaves, WalkingLeaves DEF handles, vars
<1> QED BY <1>6, <1>7, <1>8, <1>9, Kinds

\* Handles that are moved into an item are on arenas that its arena may hold
\* handles on, and so on its thread.
LEMMA MovedHere ==
  ASSUME IInv, NEW a \in Arena, NEW moved \in SUBSET Handle,
         moved \subseteq InHand(Owner[a]),
         \A b \in Arena : Refs(b) \cap moved # {} => <<a, b>> \in MayHold,
         Idle(Owner[a]) \/ Using(Owner[a]), NEW x \in moved
  PROVE  \E b \in Arena : x \in Refs(b) /\ <<a, b>> \in MayHold /\ Owner[a] = Owner[b]
<1>1. \E b \in Arena : x \in Refs(b)
  <2>1. CASE Idle(Owner[a])
    BY <2>1 DEF InHand, Outside
  <2>2. CASE ~Idle(Owner[a]) /\ Using(Owner[a])
    <3>1. x \in inside[User(Owner[a])]
      BY <2>2 DEF InHand
    <3>2. User(Owner[a]) \in Item
      BY <2>2, ArenaAssumption, DropsOwn DEF Using
    <3> QED BY <3>1, <3>2 DEF IInv, Structure, HeldHere
  <2> QED BY <2>1, <2>2
<1>2. PICK b \in Arena : x \in Refs(b)
  BY <1>1
<1>3. <<a, b>> \in MayHold
  BY <1>2
<1>4. Owner[a] = Owner[b]
  BY <1>3, ArenaAssumption
<1> QED BY <1>2, <1>3, <1>4

\* Handles are moved only into items whose arena may hold them.
LEMMA HeldHereKeeps ==
  ASSUME IInv, [Next]_vars
  PROVE  HeldHere'
<1>a. TypeOK /\ HandlesApart /\ HeldHere
  BY DEF IInv, Structure
<1>n. \A i \in Item : home[i] = None => inside[i] = {}
  BY <1>a, ArenaAssumption DEF HeldHere
<1>1. CASE UNCHANGED <<home, strongs, weaks, inside>>
  BY <1>a, <1>1 DEF HeldHere, Refs
<1>2. ASSUME NEW t \in Thread, NEW h \in Handle, NewDone(t, h) PROVE HeldHere'
  <2>1. PICK a \in Arena : Last(stack[t]).arena = a /\ Refs(a) = {}
    BY <1>2, Builds DEF NewDone
  <2>2. /\ strongs' = [strongs EXCEPT ![a] = {h}] /\ weaks' = weaks
        /\ inside' = inside /\ home' = home
    BY <1>2, <2>1 DEF NewDone, items
  <2>3. \A b \in Arena : Refs(b) \subseteq strongs'[b] \cup weaks'[b]
    BY <1>a, <2>1, <2>2 DEF Refs, TypeOK
  <2> QED BY <1>a, <2>2, <2>3 DEF HeldHere, Refs
<1>3. ASSUME NEW a \in Arena, NEW h \in Handle, NEW new \in Handle, Gains(a, h, new), items' = items
      PROVE  HeldHere'
  <2>1. \A b \in Arena : Refs(b) \subseteq strongs'[b] \cup weaks'[b]
    BY <1>a, <1>3 DEF Gains, Refs, TypeOK
  <2>2. new \in strongs'[a] \cup weaks'[a]
    BY <1>a, <1>3 DEF Gains, TypeOK
  <2>3. home' = home
    BY <1>3 DEF items
  <2>4. CASE inside' = inside
    BY <1>a, <2>1, <2>3, <2>4 DEF HeldHere, Refs
  <2>5. CASE inside' # inside
    <3>1. /\ ~Idle(Owner[a]) /\ inside' = [inside EXCEPT ![User(Owner[a])] = @ \cup {new}]
          /\ Usable(h, a)
      BY <1>3, <2>5 DEF Gains, KeepsNew
    <3>2. Using(Owner[a]) /\ Owner[a] \in Thread
      BY <3>1, HoldersAsk
    <3>3. User(Owner[a]) \in Item /\ home[User(Owner[a])] \in Arena
      BY <3>2, DropsOwn DEF Using
    <3>5. <<home[User(Owner[a])], a>> \in MayHold
      <4>1. h \in inside[User(Owner[a])] /\ h \in Refs(a)
        BY <3>1, <3>2 DEF Usable, InHand
      <4> QED BY <1>a, <3>3, <4>1 DEF HeldHere, HandlesApart
    <3>4. \A i \in Item : \A x \in inside'[i] : x \in inside[i] \/ (i = User(Owner[a]) /\ x = new)
      BY <1>a, <3>1 DEF TypeOK
    <3> QED BY <1>a, <2>1, <2>2, <2>3, <3>3, <3>4, <3>5 DEF HeldHere, Refs
  <2> QED BY <2>4, <2>5
<1>4. ASSUME NEW t \in Thread, NEW a \in Arena, NEW h \in Handle, Loses(t, a, h), items' = items
      PROVE  HeldHere'
  <2>1. \A b \in Arena : Refs(b) \ {h} \subseteq strongs'[b] \cup weaks'[b]
    <3>1. \/ strongs' = [strongs EXCEPT ![a] = @ \ {h}] /\ weaks' = weaks
          \/ strongs' = strongs /\ weaks' = [weaks EXCEPT ![a] = @ \ {h}]
      BY <1>4 DEF Loses, DropStrong, DropWeak
    <3>2. strongs \in [Arena -> SUBSET Handle] /\ weaks \in [Arena -> SUBSET Handle]
      BY <1>a DEF TypeOK
    <3> QED BY ONLY <3>1, <3>2 DEF Refs
  <2>2. \A i \in Item : inside'[i] \subseteq inside[i] \ {h}
    <3>1. CASE Idle(t) /\ h \notin Moved /\ inside' = inside
      BY <3>1 DEF Moved
    <3>2. CASE /\ User(t) \in Item /\ h \in inside[User(t)]
               /\ inside' = [inside EXCEPT ![User(t)] = @ \ {h}]
      BY <1>a, <3>2 DEF TypeOK, HandlesApart
    <3> QED BY <1>4, <3>1, <3>2 DEF Loses
  <2>3. home' = home
    BY <1>4 DEF items
  <2> QED BY <1>a, <2>1, <2>2, <2>3 DEF HeldHere, Refs
<1>5. ASSUME NEW a \in Arena, NEW h \in Handle, NEW i \in Item, NEW moved \in SUBSET Handle,
             Upload(a, h, i, moved)
      PROVE  HeldHere'
  <2>1. /\ inside' = [j \in Item |-> IF j = i THEN moved ELSE inside[j] \ moved]
        /\ home' = [home EXCEPT ![i] = a] /\ home[i] = None
        /\ UNCHANGED <<strongs, weaks>>
    BY <1>5 DEF Upload, Register
  <2>2. Idle(Owner[a]) \/ Using(Owner[a])
    BY <1>5, HoldersAsk DEF Upload
  <2>3. \A x \in moved : \E b \in Arena : x \in Refs(b) /\ <<a, b>> \in MayHold
    BY <1>5, <2>2, MovedHere DEF Upload
  <2>4. home'[i] = a /\ inside'[i] = moved
    BY <1>a, <2>1 DEF TypeOK
  <2>5. \A j \in Item : j # i => home'[j] = home[j] /\ inside'[j] \subseteq inside[j]
    BY <1>a, <2>1 DEF TypeOK
  <2> QED BY <1>a, <2>1, <2>3, <2>4, <2>5 DEF HeldHere, Refs
<1>6. ASSUME NEW a \in Arena, NEW h \in Handle, NEW i \in Item, RegisterDropFn(a, h, i)
      PROVE  HeldHere'
  <2>1. home' = [home EXCEPT ![i] = a] /\ home[i] = None /\ UNCHANGED <<strongs, weaks, inside>>
    BY <1>6 DEF RegisterDropFn, Register, handles
  <2>2. \A j \in Item : inside[j] # {} => home'[j] = home[j]
    BY <1>a, <1>n, <2>1 DEF TypeOK
  <2> QED BY <1>a, <2>1, <2>2 DEF HeldHere, Refs
<1>7. CASE Births
  <2>1. ASSUME NEW a \in Arena, ArenaNew(a) PROVE HeldHere'
    BY <1>1, <2>1 DEF ArenaNew, handles, items
  <2>2. ASSUME NEW t \in Thread, NewFails(t) PROVE HeldHere'
    BY <1>1, <2>2 DEF NewFails, handles, items
  <2> QED BY <1>2, <1>7, <2>1, <2>2 DEF Births
<1>8. CASE Handling
  BY <1>3, <1>4, <1>8, HandleSteps, HandlingLeaves
<1>9. CASE Uploading
  BY <1>5, <1>6, <1>9 DEF Uploading
<1>10. CASE Storing \/ Walking \/ UNCHANGED vars
  BY <1>1, <1>10, StoringLeaves, WalkingLeaves DEF handles, items, vars
<1> QED BY <1>7, <1>8, <1>9, <1>10, Kinds

\* The first handle of an arena appears when its construction is done.
LEMMA UnseenKeeps ==
  ASSUME IInv, [Next]_vars
  PROVE  Unseen'
<1> SUFFICES ASSUME NEW a \in Arena, ~Born(a)' \/ Building(a)'
             PROVE  /\ strongs'[a] \cup weaks'[a] = {} /\ queue'[a] = <<>>
                    /\ \A i \in Item : home'[i] # a
  BY DEF Unseen, Refs
<1>a. TypeOK /\ (~Born(a) \/ Building(a)) /\ Owner[a] \in Thread
  BY StillUnseen, ArenaAssumption DEF IInv, Structure
<1>b. strongs[a] \cup weaks[a] = {} /\ queue[a] = <<>> /\ \A i \in Item : home[i] # a
  BY <1>a DEF IInv, Structure, Unseen, Refs
<1>1. CASE UNCHANGED <<strongs, weaks, queue, home>>
  BY <1>b, <1>1
<1>2. ASSUME NEW t \in Thread, NEW h \in Handle, NewDone(t, h) PROVE strongs'[a] = strongs[a]
  <2>1. PICK b \in Arena : /\ Last(stack[t]).arena = b /\ Owner[b] = t /\ Born(b)
                           /\ Len(Front(stack[t])) = 0
    BY <1>2, Builds DEF NewDone
  <2>2. /\ strongs' = [strongs EXCEPT ![b] = {h}] /\ meta' = meta
        /\ stack'[t] = Front(stack[t])
    BY <1>a, <1>2, <2>1 DEF NewDone, Pop, TypeOK
  <2>3. a # b
    <3> SUFFICES ASSUME a = b PROVE FALSE
      OBVIOUS
    <3>1. Building(a)' /\ t = Owner[a]
      BY <2>1, <2>2 DEF Born
    <3>2. stack'[t] = <<Frame("new", a, None)>>
      BY <3>1 DEF Building
    <3>3. \A x : Len(<<x>>) # 0
      OBVIOUS
    <3> QED BY <2>1, <2>2, <3>2, <3>3
  <2> QED BY <1>a, <2>2, <2>3 DEF TypeOK
<1>3. CASE Births
  <2>1. ASSUME NEW b \in Arena, ArenaNew(b) PROVE UNCHANGED <<strongs, weaks, queue, home>>
    BY <2>1 DEF ArenaNew, handles, items
  <2>2. ASSUME NEW t \in Thread, NewFails(t) PROVE UNCHANGED <<strongs, weaks, queue, home>>
    BY <2>2 DEF NewFails, handles, items
  <2>3. ASSUME NEW t \in Thread, NEW h \in Handle, NewDone(t, h) PROVE UNCHANGED <<weaks, queue, home>>
    BY <2>3 DEF NewDone, items
  <2> QED BY <1>b, <1>1, <1>2, <1>3, <2>1, <2>2, <2>3 DEF Births
<1>4. CASE Handling
  <2>1. ASSUME NEW t \in Thread, NEW b \in Arena, NEW h \in Handle, Loses(t, b, h)
        PROVE  strongs'[a] = strongs[a] /\ weaks'[a] = weaks[a]
    <3>1. a # b
      BY <1>a, <2>1 DEF Loses
    <3> QED BY <1>a, <2>1, <3>1 DEF Loses, DropStrong, DropWeak, TypeOK
  <2>2. ASSUME NEW b \in Arena, NEW h \in Handle, NEW new \in Handle, Gains(b, h, new)
        PROVE  strongs'[a] = strongs[a] /\ weaks'[a] = weaks[a]
    <3>1. a # b
      BY <1>a, <2>2, HoldersAsk DEF Gains
    <3> QED BY <1>a, <2>2, <3>1 DEF Gains, TypeOK
  <2>3. queue' = queue /\ home' = home
    BY <1>4, HandlingLeaves DEF items
  <2> QED BY <1>4, <1>b, <2>1, <2>2, <2>3, HandleSteps
<1>5. CASE Uploading
  <2>1. PICK b \in Arena, h \in Handle, i \in Item : Usable(h, b) /\ Register(b, i)
    BY <1>5 DEF Uploading, Upload, RegisterDropFn
  <2>2. a # b
    BY <1>a, <2>1, HoldersAsk
  <2>3. home' = [home EXCEPT ![i] = b] /\ queue' = [queue EXCEPT ![b] = Append(@, i)]
    BY <2>1 DEF Register
  <2> QED BY <1>a, <1>b, <1>5, <2>2, <2>3, UploadingLeaves DEF TypeOK
<1>6. CASE Storing \/ UNCHANGED vars
  BY <1>1, <1>6, StoringLeaves DEF handles, items, vars
<1>7. CASE Walking
  <2>1. queue' = queue \/ \E b \in Arena : queue[b] # <<>> /\ queue' = [queue EXCEPT ![b] = Tail(@)]
    <3>1. ASSUME NEW t \in Thread, ExecNext(t)
          PROVE  \E b \in Arena : queue[b] # <<>> /\ queue' = [queue EXCEPT ![b] = Tail(@)]
      BY <1>a, <3>1, EntersDrop
    <3>2. ASSUME NEW t \in Thread, ExecDone(t) \/ UserReturn(t) \/ Unwind(t)
          PROVE  queue' = queue
      BY <3>2 DEF ExecDone, UserReturn, Unwind
    <3> QED BY <1>7, <3>1, <3>2 DEF Walking
  <2>2. queue'[a] = queue[a]
    BY <1>a, <1>b, <2>1 DEF TypeOK
  <2> QED BY <1>7, <1>b, <2>2, WalkingLeaves DEF handles
<1> QED BY <1>3, <1>4, <1>5, <1>6, <1>7, Kinds

-----------------------------------------------------------------------------
(* The counters                                                            *)

\* The counters follow the handles through every step.
LEMMA RefCountsKeeps ==
  ASSUME IInv, [Next]_vars
  PROVE  RefCounts'
<1>a. TypeOK /\ RefCounts
  BY DEF IInv, Structure
<1>b. /\ strongs \in [Arena -> SUBSET Handle] /\ weaks \in [Arena -> SUBSET Handle]
      /\ strong \in [Arena -> Int] /\ rc \in [Arena -> Int]
  BY <1>a DEF TypeOK
<1>f. \A a \in Arena : /\ IsFiniteSet(strongs[a]) /\ IsFiniteSet(weaks[a])
                       /\ Cardinality(strongs[a]) \in Nat /\ Cardinality(weaks[a]) \in Nat
  BY <1>b, ArenaAssumption, FS_Subset, FS_CardinalityType
<1>c. \A a \in Arena : /\ strong[a] = Cardinality(strongs[a])
                       /\ rc[a] = Cardinality(strongs[a]) + Cardinality(weaks[a])
  BY <1>a DEF RefCounts
<1>1. CASE UNCHANGED <<counters, strongs, weaks>>
  BY <1>a, <1>1 DEF RefCounts, counters
<1>2. ASSUME NEW t \in Thread, NEW h \in Handle, NewDone(t, h) PROVE RefCounts'
  <2>1. PICK a \in Arena : Last(stack[t]).arena = a /\ Refs(a) = {}
    BY <1>2, Builds DEF NewDone
  <2>2. /\ strong' = [strong EXCEPT ![a] = 1] /\ rc' = [rc EXCEPT ![a] = 1]
        /\ strongs' = [strongs EXCEPT ![a] = {h}] /\ weaks' = weaks
    BY <1>2, <2>1 DEF NewDone
  <2>3. Cardinality({h}) = 1 /\ Cardinality(weaks[a]) = 0
    BY <2>1, FS_Singleton, FS_EmptySet DEF Refs
  <2> QED BY <1>b, <1>c, <2>2, <2>3 DEF RefCounts
<1>3. ASSUME NEW a \in Arena, NEW h \in Handle, NEW new \in Handle, Gains(a, h, new)
      PROVE  RefCounts'
  <2>1. new \notin strongs[a] /\ new \notin weaks[a]
    BY <1>3 DEF Gains, Unused, Refs
  <2>2. /\ Cardinality(strongs[a] \cup {new}) = Cardinality(strongs[a]) + 1
        /\ Cardinality(weaks[a] \cup {new}) = Cardinality(weaks[a]) + 1
    BY <1>f, <2>1, FS_AddElement
  <2>3. rc' = [rc EXCEPT ![a] = @ + 1]
    BY <1>3 DEF Gains
  <2>4. \/ /\ strong' = [strong EXCEPT ![a] = @ + 1]
           /\ strongs' = [strongs EXCEPT ![a] = @ \cup {new}] /\ weaks' = weaks
        \/ /\ weaks' = [weaks EXCEPT ![a] = @ \cup {new}]
           /\ strong' = strong /\ strongs' = strongs
    BY <1>3 DEF Gains
  <2>5. ASSUME NEW b \in Arena
        PROVE  /\ strong'[b] = Cardinality(strongs'[b])
               /\ rc'[b] = Cardinality(strongs'[b]) + Cardinality(weaks'[b])
    <3>1. CASE a # b
      <4>1. /\ strong'[b] = strong[b] /\ rc'[b] = rc[b]
            /\ strongs'[b] = strongs[b] /\ weaks'[b] = weaks[b]
        BY <1>b, <2>3, <2>4, <3>1
      <4> QED BY <1>c, <4>1
    <3>2. CASE a = b
      <4> DEFINE s == Cardinality(strongs[a])
                 w == Cardinality(weaks[a])
      <4>1. rc'[a] = s + w + 1 /\ s \in Nat /\ w \in Nat
        BY <1>b, <1>c, <1>f, <2>3
      <4>2. \/ /\ strong'[a] = s + 1
               /\ Cardinality(strongs'[a]) = s + 1 /\ Cardinality(weaks'[a]) = w
            \/ /\ strong'[a] = s
               /\ Cardinality(strongs'[a]) = s /\ Cardinality(weaks'[a]) = w + 1
        BY <1>b, <1>c, <2>2, <2>4
      <4> HIDE DEF s, w
      <4>3. /\ strong'[a] = Cardinality(strongs'[a])
            /\ rc'[a] = Cardinality(strongs'[a]) + Cardinality(weaks'[a])
        BY ONLY <4>1, <4>2
      <4> QED BY <3>2, <4>3
    <3> QED BY <3>1, <3>2
  <2> QED BY <2>5 DEF RefCounts
<1>4. ASSUME NEW t \in Thread, NEW a \in Arena, NEW h \in Handle, Loses(t, a, h)
      PROVE  RefCounts'
  <2>2. /\ h \in strongs[a] => Cardinality(strongs[a] \ {h}) = Cardinality(strongs[a]) - 1
        /\ h \in weaks[a] => Cardinality(weaks[a] \ {h}) = Cardinality(weaks[a]) - 1
    BY <1>f, FS_RemoveElement
  <2>3. rc' = [rc EXCEPT ![a] = @ - 1]
    BY <1>4 DEF Loses, DropStrong, DropWeak
  <2>4. \/ /\ h \in strongs[a] /\ strong' = [strong EXCEPT ![a] = @ - 1]
           /\ strongs' = [strongs EXCEPT ![a] = @ \ {h}] /\ weaks' = weaks
        \/ /\ h \in weaks[a] /\ weaks' = [weaks EXCEPT ![a] = @ \ {h}]
           /\ strong' = strong /\ strongs' = strongs
    BY <1>4 DEF Loses, DropStrong, DropWeak
  <2>5. ASSUME NEW b \in Arena
        PROVE  /\ strong'[b] = Cardinality(strongs'[b])
               /\ rc'[b] = Cardinality(strongs'[b]) + Cardinality(weaks'[b])
    <3>1. CASE a # b
      <4>1. /\ strong'[b] = strong[b] /\ rc'[b] = rc[b]
            /\ strongs'[b] = strongs[b] /\ weaks'[b] = weaks[b]
        BY <1>b, <2>3, <2>4, <3>1
      <4> QED BY <1>c, <4>1
    <3>2. CASE a = b
      <4> DEFINE s == Cardinality(strongs[a])
                 w == Cardinality(weaks[a])
      <4>1. rc'[a] = s + w - 1 /\ s \in Nat /\ w \in Nat
        BY <1>b, <1>c, <1>f, <2>3
      <4>2. \/ /\ strong'[a] = s - 1
               /\ Cardinality(strongs'[a]) = s - 1 /\ Cardinality(weaks'[a]) = w
            \/ /\ strong'[a] = s
               /\ Cardinality(strongs'[a]) = s /\ Cardinality(weaks'[a]) = w - 1
        BY <1>b, <1>c, <2>2, <2>4
      <4> HIDE DEF s, w
      <4>3. /\ strong'[a] = Cardinality(strongs'[a])
            /\ rc'[a] = Cardinality(strongs'[a]) + Cardinality(weaks'[a])
        BY ONLY <4>1, <4>2
      <4> QED BY <3>2, <4>3
    <3> QED BY <3>1, <3>2
  <2> QED BY <2>5 DEF RefCounts
<1>5. CASE Births
  <2>1. ASSUME NEW a \in Arena, ArenaNew(a) PROVE RefCounts'
    BY <1>1, <2>1 DEF ArenaNew, handles
  <2>2. ASSUME NEW t \in Thread, NewFails(t) PROVE RefCounts'
    BY <1>1, <2>2 DEF NewFails, handles
  <2> QED BY <1>2, <1>5, <2>1, <2>2 DEF Births
<1>6. CASE Handling
  BY <1>3, <1>4, <1>6, HandleSteps
<1>7. CASE Uploading \/ Storing \/ Walking \/ UNCHANGED vars
  BY <1>1, <1>7, UploadingLeaves, StoringLeaves, WalkingLeaves DEF handles, vars
<1> QED BY <1>5, <1>6, <1>7, Kinds

\* A counter is zero exactly when what it counts is gone.
LEMMA Zeros ==
  ASSUME TypeOK, RefCounts, NEW a \in Arena
  PROVE  /\ strong[a] \in Nat /\ (strong[a] = 0 <=> strongs[a] = {})
         /\ rc[a] \in Nat /\ (rc[a] = 0 <=> Refs(a) = {})
<1>1. /\ IsFiniteSet(strongs[a]) /\ IsFiniteSet(weaks[a])
      /\ strongs[a] \subseteq Handle /\ weaks[a] \subseteq Handle
  BY ArenaAssumption, FS_Subset DEF TypeOK
<1>2. /\ Cardinality(strongs[a]) \in Nat /\ Cardinality(weaks[a]) \in Nat
      /\ Cardinality(strongs[a]) = 0 <=> strongs[a] = {}
      /\ Cardinality(weaks[a]) = 0 <=> weaks[a] = {}
  BY <1>1, FS_CardinalityType, FS_EmptySet
<1>3. strong[a] = Cardinality(strongs[a]) /\ rc[a] = Cardinality(strongs[a]) + Cardinality(weaks[a])
  BY DEF RefCounts
<1>4. rc[a] = 0 <=> Cardinality(strongs[a]) = 0 /\ Cardinality(weaks[a]) = 0
  BY <1>2, <1>3
<1> QED BY <1>2, <1>3, <1>4 DEF Refs

\* Without strong handles an arena that is complete stays without, and
\* without any handles as well.
LEMMA StaysWithout ==
  ASSUME IInv, [Next]_vars, NEW a \in Arena, Born(a), ~Building(a)
  PROVE  /\ strongs[a] = {} => strongs'[a] = {}
         /\ strongs[a] \cup weaks[a] = {} => strongs'[a] \cup weaks'[a] = {}
<1>a. TypeOK /\ RefCounts
  BY DEF IInv, Structure
<1>1. CASE UNCHANGED <<strongs, weaks>>
  BY <1>1
<1>2. ASSUME NEW t \in Thread, NEW h \in Handle, NewDone(t, h)
      PROVE  strongs'[a] = strongs[a] /\ weaks'[a] = weaks[a]
  <2>1. PICK b \in Arena : Last(stack[t]).arena = b /\ Building(b)
    BY <1>2, Builds DEF NewDone
  <2>2. a # b /\ strongs' = [strongs EXCEPT ![b] = {h}] /\ weaks' = weaks
    BY <1>2, <2>1 DEF NewDone
  <2> QED BY <1>a, <2>2 DEF TypeOK
<1>3. ASSUME NEW b \in Arena, NEW h \in Handle, NEW new \in Handle, Gains(b, h, new)
      PROVE  /\ strongs[a] = {} => strongs'[a] = {}
             /\ strongs[a] \cup weaks[a] = {} => strongs'[a] \cup weaks'[a] = {}
  <2>1. CASE a # b
    BY <1>a, <1>3, <2>1 DEF Gains, TypeOK
  <2>2. CASE a = b
    <3>1. h \in strongs[a] \cup weaks[a]
      BY <1>3, <2>2 DEF Gains, Usable, Refs
    <3>2. strongs[a] # {} \/ strongs' = strongs
      BY <1>3, <1>a, <2>2, Zeros DEF Gains
    <3> QED BY <3>1, <3>2
  <2> QED BY <2>1, <2>2
<1>4. ASSUME NEW t \in Thread, NEW b \in Arena, NEW h \in Handle, Loses(t, b, h)
      PROVE  strongs'[a] \subseteq strongs[a] /\ weaks'[a] \subseteq weaks[a]
  <2>1. \/ strongs' = [strongs EXCEPT ![b] = @ \ {h}] /\ weaks' = weaks
        \/ strongs' = strongs /\ weaks' = [weaks EXCEPT ![b] = @ \ {h}]
    BY <1>4 DEF Loses, DropStrong, DropWeak
  <2>2. strongs \in [Arena -> SUBSET Handle] /\ weaks \in [Arena -> SUBSET Handle]
    BY <1>a DEF TypeOK
  <2> QED BY ONLY <2>1, <2>2
<1>5. CASE Births
  <2>1. ASSUME NEW b \in Arena, ArenaNew(b) PROVE UNCHANGED <<strongs, weaks>>
    BY <2>1 DEF ArenaNew, handles
  <2>2. ASSUME NEW t \in Thread, NewFails(t) PROVE UNCHANGED <<strongs, weaks>>
    BY <2>2 DEF NewFails, handles
  <2> QED BY <1>1, <1>2, <1>5, <2>1, <2>2 DEF Births
<1>6. CASE Handling
  BY <1>3, <1>4, <1>6, HandleSteps
<1>7. CASE Uploading \/ Storing \/ Walking \/ UNCHANGED vars
  BY <1>1, <1>7, UploadingLeaves, StoringLeaves, WalkingLeaves DEF handles, vars
<1> QED BY <1>5, <1>6, <1>7, Kinds

-----------------------------------------------------------------------------
(* The calls                                                               *)

\* What the last call of a thread can be after a step that changes its stack.
LEMMA LastCall ==
  ASSUME IInv, [Next]_vars, NEW t \in Thread, stack'[t] # stack[t], ~Idle(t)'
  PROVE  \/ \E f \in FrameOf : Enters(t, f) /\ Last(stack'[t]) = f
         \/ Leaves(t) /\ Last(stack'[t]).at \in Pausing
         \/ GoesOn(t) /\ Last(stack'[t]) = Frame("reclaim", Last(stack[t]).arena, None)
         \/ IsUnwound(t) /\ Last(stack'[t]).at = "unwind"
<1>a. TypeOK /\ stack \in [Thread -> Seq(FrameOf)] /\ stack' \in [Thread -> Seq(FrameOf)]
  BY NestingKeeps DEF IInv, Structure, TypeOK, FrameOf
<1>s. stack[t] \in Seq(FrameOf) /\ stack'[t] \in Seq(FrameOf) /\ stack'[t] # <<>>
  BY <1>a DEF Idle
<1>l. /\ Len(stack'[t]) \in Nat \ {0} /\ Last(stack'[t]) = stack'[t][Len(stack'[t])]
  BY <1>s, Popped
<1>1. \/ \E f \in FrameOf : Enters(t, f)
      \/ Leaves(t) \/ GoesOn(t) \/ IsUnwound(t)
  BY <1>a, CallSteps DEF Enters, Leaves, GoesOn, IsUnwound
<1>2. ASSUME NEW f \in FrameOf, Enters(t, f) PROVE Last(stack'[t]) = f
  <2>1. stack'[t] = Append(stack[t], f)
    BY <1>a, <1>2 DEF Enters
  <2> QED BY ONLY <1>s, <2>1, f \in FrameOf, Pushed
<1>3. ASSUME Leaves(t) PROVE Last(stack'[t]).at \in Pausing
  <2>1. /\ ~Idle(t) /\ stack'[t] = Front(stack[t])
        /\ Len(stack'[t]) = Len(stack[t]) - 1 /\ Len(stack[t]) \in Nat
        /\ \A k \in 1..(Len(stack[t]) - 1) : stack'[t][k] = stack[t][k]
    BY <1>a, <1>s, <1>3, Top DEF Leaves
  <2>2. PICK k \in Nat : k = Len(stack'[t]) /\ k > 0
    BY <1>l
  <2>3. k \in 1..(Len(stack[t]) - 1) /\ k \in 1..Len(stack[t]) /\ k < Len(stack[t])
    BY <2>1, <2>2
  <2>4. Last(stack'[t]) = stack[t][k]
    BY <1>l, <2>1, <2>2, <2>3
  <2>5. FrameNested(t, k)
    BY <2>3 DEF IInv, Structure, Nesting
  <2> QED BY <2>3, <2>4, <2>5 DEF FrameNested
<1>4. ASSUME GoesOn(t) PROVE Last(stack'[t]) = Frame("reclaim", Last(stack[t]).arena, None)
  <2>1. PICK f : f = Frame("reclaim", Last(stack[t]).arena, None)
    OBVIOUS
  <2>2. stack'[t] = Append(Front(stack[t]), f)
    BY <1>a, <1>4, <2>1 DEF GoesOn
  <2>3. Front(stack[t]) \in Seq(FrameOf) /\ f \in FrameOf
    BY <1>a, <1>4, <2>1, Top DEF GoesOn, At, FrameOf, Frame, Step
  <2>4. Last(stack'[t]) = f
    BY ONLY <2>2, <2>3, Pushed
  <2> QED BY <2>1, <2>4
<1>5. ASSUME IsUnwound(t) PROVE Last(stack'[t]).at = "unwind"
  <2>1. /\ ~Idle(t) /\ Last(stack[t]).at \in InsideDrop
        /\ Len(stack[t]) \in 1..Len(stack[t]) /\ Last(stack[t]) = stack[t][Len(stack[t])]
        /\ stack'[t] = Unwound(stack[t])
    BY <1>a, <1>5, Top DEF IsUnwound, At, InsideDrop
  <2>2. Len(stack[t]) > 1
    BY <1>a, <2>1 DEF IInv, Structure, Nesting, FrameNested
  <2>3. /\ Len(stack[t]) >= 2 /\ Len(stack[t]) \in Nat
        /\ Len(stack'[t]) = Len(stack[t]) - 2
        /\ Len(stack[t]) > 2 =>
             stack'[t][Len(stack[t]) - 2] = [stack[t][Len(stack[t]) - 2] EXCEPT !.at = "unwind"]
    BY <1>s, <2>1, <2>2, UnwoundCalls
  <2>4. Len(stack[t]) > 2 /\ Len(stack[t]) - 2 \in 1..Len(stack[t])
    <3>1. \A n, m \in Nat : n - 2 = m /\ m # 0 => n > 2 /\ n - 2 \in 1..n
      OBVIOUS
    <3> QED BY <1>l, <2>3, <3>1, Zenon
  <2>5. stack[t][Len(stack[t]) - 2] \in FrameOf
    BY <1>s, <2>4
  <2>6. Last(stack'[t]) = [stack[t][Len(stack[t]) - 2] EXCEPT !.at = "unwind"]
    BY <1>l, <2>3, <2>4
  <2> QED BY <2>5, <2>6 DEF FrameOf
<1> QED BY <1>1, <1>2, <1>3, <1>4, <1>5

\* While a drop list is being linked, its thread does nothing else.
LEMMA NextStays ==
  ASSUME IInv, [Next]_vars, NEW t \in Thread, At(t, "next"), stack'[t] # stack[t]
  PROVE  used'[Last(stack[t]).arena] = 0
<1>a. stack \in [Thread -> Seq(FrameOf)]
  BY DEF IInv, Structure, TypeOK, FrameOf
<1>1. \/ \E f \in FrameOf : Enters(t, f)
      \/ Leaves(t) \/ GoesOn(t) \/ IsUnwound(t)
  BY <1>a, CallSteps DEF Enters, Leaves, GoesOn, IsUnwound
<1> QED BY <1>1 DEF Enters, Leaves, GoesOn, IsUnwound, Asks, At, Frame

\* The arena a drop list is linked for.
LEMMA LinksOwn ==
  ASSUME IInv, NEW t \in Thread, At(t, "next")
  PROVE  /\ Last(stack[t]).arena \in Arena /\ Owner[Last(stack[t]).arena] = t
         /\ Born(Last(stack[t]).arena) /\ ~Asks(t)
         /\ ~Building(Last(stack[t]).arena)
<1>1. /\ Len(stack[t]) \in 1..Len(stack[t]) /\ Last(stack[t]) = stack[t][Len(stack[t])]
      /\ Last(stack[t]) \in FrameOf /\ Last(stack[t]).at = "next"
  BY Top DEF At, IInv, Structure
<1>2. FrameOwned(t, Len(stack[t]))
  BY <1>1 DEF IInv, Structure, Nesting
<1>3. Last(stack[t]).arena \in Arena /\ Owner[Last(stack[t]).arena] = t /\ Born(Last(stack[t]).arena)
  BY <1>1, <1>2 DEF FrameOwned, FrameOf
<1>4. ~Building(Last(stack[t]).arena)
  <2>1. \A x : Last(<<x>>) = x
    BY DEF Last
  <2> QED BY <1>1, <1>3, <2>1 DEF Building, Frame
<1> QED BY <1>3, <1>4 DEF Asks, At

\* The handle an upload goes through outlives the linking of the new list.
LEMMA LinkingKeeps ==
  ASSUME IInv, [Next]_vars
  PROVE  Linking'
<1> SUFFICES ASSUME NEW t \in Thread, ~Idle(t)', Last(stack'[t]).at = "next"
             PROVE  strongs'[Last(stack'[t]).arena] \cup weaks'[Last(stack'[t]).arena] # {}
  BY DEF Linking, At, Refs
<1>a. TypeOK
  BY DEF IInv, Structure
<1>1. CASE stack'[t] # stack[t]
  <2>1. PICK f \in FrameOf : Enters(t, f) /\ Last(stack'[t]) = f
    <3>1. \/ \E f \in FrameOf : Enters(t, f) /\ Last(stack'[t]) = f
          \/ Last(stack'[t]).at \in Pausing
          \/ Last(stack'[t]) = Frame("reclaim", Last(stack[t]).arena, None)
          \/ Last(stack'[t]).at = "unwind"
      BY <1>1, LastCall
    <3> QED BY <3>1 DEF Pausing, Frame
  <2> QED BY <2>1 DEF Enters, Frame
<1>2. CASE stack'[t] = stack[t]
  <2>1. At(t, "next")
    BY <1>2 DEF At, Idle
  <2>2. PICK a \in Arena : /\ a = Last(stack[t]).arena /\ Owner[a] = t
                           /\ ~Building(a) /\ ~Asks(t)
    BY <2>1, LinksOwn
  <2>3. strongs[a] \cup weaks[a] # {}
    BY <2>1, <2>2 DEF IInv, Structure, Linking, Refs
  <2> SUFFICES strongs'[a] \cup weaks'[a] # {}
    BY <1>2, <2>2
  <2>4. CASE Births
    <3>1. ASSUME NEW u \in Thread, NEW h \in Handle, NewDone(u, h)
          PROVE  strongs'[a] = strongs[a] /\ weaks'[a] = weaks[a]
      <4>1. PICK b \in Arena : Last(stack[u]).arena = b /\ Building(b)
        BY <3>1, Builds DEF NewDone
      <4> QED BY <1>a, <2>2, <3>1, <4>1 DEF NewDone, TypeOK
    <3>2. ASSUME NEW b \in Arena, ArenaNew(b) PROVE UNCHANGED <<strongs, weaks>>
      BY <3>2 DEF ArenaNew, handles
    <3>3. ASSUME NEW u \in Thread, NewFails(u) PROVE UNCHANGED <<strongs, weaks>>
      BY <3>3 DEF NewFails, handles
    <3> QED BY <2>3, <2>4, <3>1, <3>2, <3>3 DEF Births
  <2>5. CASE Handling
    <3>1. ASSUME NEW u \in Thread, NEW b \in Arena, NEW h \in Handle, Loses(u, b, h)
          PROVE  strongs'[a] = strongs[a] /\ weaks'[a] = weaks[a]
      <4>1. a # b
        BY <2>2, <3>1 DEF Loses
      <4> QED BY <1>a, <3>1, <4>1 DEF Loses, DropStrong, DropWeak, TypeOK
    <3>2. ASSUME NEW b \in Arena, NEW h \in Handle, NEW new \in Handle, Gains(b, h, new)
          PROVE  strongs[a] \subseteq strongs'[a] /\ weaks[a] \subseteq weaks'[a]
      BY <1>a, <3>2 DEF Gains, TypeOK
    <3> QED BY <2>3, <2>5, <3>1, <3>2, HandleSteps
  <2>6. CASE Uploading \/ Storing \/ Walking \/ UNCHANGED vars
    BY <2>3, <2>6, UploadingLeaves, StoringLeaves, WalkingLeaves DEF handles, vars
  <2> QED BY <2>4, <2>5, <2>6, Kinds
<1> QED BY <1>1, <1>2

\* A list that is full is replaced before any other call of its arena.
LEMMA LastListNotFullKeeps ==
  ASSUME IInv, [Next]_vars
  PROVE  /\ LastListNotFull'
         /\ used' \in [Arena -> 0..ListMax]
<1>a. TypeOK /\ LastListNotFull /\ used \in [Arena -> 0..ListMax] /\ ListMax \in Nat \ {0}
  BY ArenaAssumption DEF IInv, Structure, TypeOK
<1>b. stack \in [Thread -> Seq(FrameOf)] /\ Owner \in [Arena -> Thread]
  BY <1>a, ArenaAssumption DEF TypeOK, FrameOf
<1>1. ASSUME NEW a \in Arena, used[a] = ListMax
      PROVE  At(Owner[a], "next") /\ Last(stack[Owner[a]]) = Frame("next", a, None)
  BY <1>a, <1>1 DEF LastListNotFull, At, Frame
<1>2. ASSUME NEW a \in Arena, used[a] = ListMax, used'[a] = ListMax
      PROVE  stack'[Owner[a]] = stack[Owner[a]]
  <2>1. PICK t \in Thread : t = Owner[a]
    BY <1>b
  <2>2. At(t, "next") /\ Last(stack[t]).arena = a
    <3>1. At(Owner[a], "next") /\ Last(stack[Owner[a]]) = Frame("next", a, None)
      BY <1>1, <1>2
    <3>2. Frame("next", a, None).arena = a
      BY DEF Frame
    <3> QED BY <2>1, <3>1, <3>2
  <2>3. used'[a] # 0
    BY <1>a, <1>2
  <2> QED BY <2>1, <2>2, <2>3, NextStays
<1>3. CASE used' = used
  <2>1. LastListNotFull'
    BY <1>1, <1>2, <1>3 DEF LastListNotFull, At, Idle, Frame
  <2> QED BY <1>a, <1>3, <2>1
<1>4. ASSUME NEW t \in Thread, NextList(t)
      PROVE  LastListNotFull' /\ used' \in [Arena -> 0..ListMax]
  <2>1. used' = [used EXCEPT ![Last(stack[t]).arena] = 0]
    BY <1>4 DEF NextList
  <2>2. used' \in [Arena -> 0..ListMax]
    <3>1. 0 \in 0..ListMax
      BY <1>a
    <3> QED BY ONLY <1>a, <2>1, <3>1, Zenon
  <2>3. ASSUME NEW a \in Arena, used'[a] = ListMax PROVE used[a] = ListMax
    BY <1>a, <2>1, <2>3
  <2> QED BY <1>1, <1>2, <2>2, <2>3 DEF LastListNotFull, At, Idle, Frame
<1>5. ASSUME NEW a \in Arena, NEW h \in Handle, NEW i \in Item, Usable(h, a), Register(a, i)
      PROVE  LastListNotFull' /\ used' \in [Arena -> 0..ListMax]
  <2>1. used' = [used EXCEPT ![a] = @ + 1]
    BY <1>5 DEF Register
  <2>2. used[a] # ListMax
    BY <1>1, <1>5, HoldersAsk DEF Asks, At
  <2>3. used' \in [Arena -> 0..ListMax] /\ used'[a] = used[a] + 1
    <3>1. used[a] + 1 \in 0..ListMax
      BY <1>a, <2>2
    <3> QED BY <1>a, <2>1, <3>1
  <2>4. ASSUME NEW b \in Arena, b # a, used'[b] = ListMax
        PROVE  ~Idle(Owner[b])' /\ Last(stack'[Owner[b]]) = Frame("next", b, None)
    <3>1. used[b] = ListMax
      BY <1>a, <2>1, <2>4
    <3> QED BY <1>1, <1>2, <2>4, <3>1 DEF At, Idle
  <2>5. ASSUME used'[a] = ListMax
        PROVE  ~Idle(Owner[a])' /\ Last(stack'[Owner[a]]) = Frame("next", a, None)
    <3>1. stack' = [stack EXCEPT ![Owner[a]] = Append(@, Frame("next", a, None))]
      BY <1>a, <1>5, <2>3, <2>5, RegisterCalls
    <3>2. PICK f \in FrameOf : f = Frame("next", a, None)
      BY DEF Frame, FrameOf, Step
    <3>3. stack'[Owner[a]] = Append(stack[Owner[a]], f) /\ stack[Owner[a]] \in Seq(FrameOf)
      BY <1>b, <3>1, <3>2
    <3>4. stack'[Owner[a]] # <<>> /\ Last(stack'[Owner[a]]) = f
      BY ONLY <3>3, f \in FrameOf, Pushed
    <3> QED BY <3>2, <3>4 DEF Idle
  <2> QED BY <2>3, <2>4, <2>5 DEF LastListNotFull
<1>6. CASE Births
  <2>1. used' = used
    BY <1>6 DEF Births, ArenaNew, NewFails, NewDone
  <2> QED BY <1>3, <2>1
<1>7. CASE Handling \/ Walking \/ UNCHANGED vars
  BY <1>3, <1>7, HandlingLeaves, WalkingLeaves DEF storage, vars
<1>8. CASE Uploading
  BY <1>5, <1>8 DEF Uploading, Upload, RegisterDropFn
<1>9. CASE Storing
  <2>1. ASSUME DropMemory \/ (\E a \in Arena, h \in Handle : UploadNoDrop(a, h))
               \/ \E t \in Thread : ReclaimBlock(t)
        PROVE  used' = used
    BY <2>1 DEF DropMemory, UploadNoDrop, ReclaimBlock, storage
  <2> QED BY <1>3, <1>4, <1>9, <2>1 DEF Storing
<1> QED BY <1>6, <1>7, <1>8, <1>9, Kinds

\* The handles a step leaves are sets of handles, the counters integers.
LEMMA HandleTypes ==
  ASSUME IInv, [Next]_vars
  PROVE  /\ strongs' \in [Arena -> SUBSET Handle] /\ weaks' \in [Arena -> SUBSET Handle]
         /\ inside' \in [Item -> SUBSET Handle]
         /\ strong' \in [Arena -> Int] /\ rc' \in [Arena -> Int]
<1> DEFINE Typed == /\ strongs' \in [Arena -> SUBSET Handle] /\ weaks' \in [Arena -> SUBSET Handle]
                    /\ inside' \in [Item -> SUBSET Handle]
                    /\ strong' \in [Arena -> Int] /\ rc' \in [Arena -> Int]
<1>a. /\ strongs \in [Arena -> SUBSET Handle] /\ weaks \in [Arena -> SUBSET Handle]
      /\ inside \in [Item -> SUBSET Handle]
      /\ strong \in [Arena -> Int] /\ rc \in [Arena -> Int]
  BY DEF IInv, Structure, TypeOK
<1>1. CASE UNCHANGED <<counters, handles>>
  BY <1>a, <1>1 DEF counters, handles
<1>2. ASSUME NEW t \in Thread, NEW h \in Handle, NewDone(t, h) PROVE Typed
  <2>1. PICK a \in Arena : Last(stack[t]).arena = a
    BY <1>2, Builds DEF NewDone
  <2>2. /\ strong' = [strong EXCEPT ![a] = 1] /\ rc' = [rc EXCEPT ![a] = 1]
        /\ strongs' = [strongs EXCEPT ![a] = {h}] /\ weaks' = weaks /\ inside' = inside
    BY <1>2, <2>1 DEF NewDone
  <2> QED BY <1>a, <2>2
<1>3. ASSUME NEW a \in Arena, NEW h \in Handle, NEW new \in Handle, Gains(a, h, new)
      PROVE  Typed
  <2>1. /\ rc' = [rc EXCEPT ![a] = @ + 1]
        /\ strong' = [strong EXCEPT ![a] = @ + 1] \/ strong' = strong
        /\ strongs' = [strongs EXCEPT ![a] = @ \cup {new}] \/ strongs' = strongs
        /\ weaks' = [weaks EXCEPT ![a] = @ \cup {new}] \/ weaks' = weaks
        /\ inside' = inside \/ \E i : inside' = [inside EXCEPT ![i] = @ \cup {new}]
    BY <1>3 DEF Gains, KeepsNew
  <2>2. strong' \in [Arena -> Int] /\ rc' \in [Arena -> Int]
    BY <1>a, <2>1
  <2>3. strongs' \in [Arena -> SUBSET Handle] /\ weaks' \in [Arena -> SUBSET Handle]
    BY <1>a, <2>1
  <2>4. inside' \in [Item -> SUBSET Handle]
    BY <1>a, <2>1
  <2> QED BY <2>2, <2>3, <2>4
<1>4. ASSUME NEW t \in Thread, NEW a \in Arena, NEW h \in Handle, Loses(t, a, h)
      PROVE  Typed
  <2>1. /\ rc' = [rc EXCEPT ![a] = @ - 1]
        /\ strong' = [strong EXCEPT ![a] = @ - 1] \/ strong' = strong
        /\ strongs' = [strongs EXCEPT ![a] = @ \ {h}] \/ strongs' = strongs
        /\ weaks' = [weaks EXCEPT ![a] = @ \ {h}] \/ weaks' = weaks
        /\ inside' = inside \/ \E i : inside' = [inside EXCEPT ![i] = @ \ {h}]
    BY <1>4 DEF Loses, DropStrong, DropWeak
  <2>2. strong' \in [Arena -> Int] /\ rc' \in [Arena -> Int]
    BY <1>a, <2>1
  <2>3. strongs' \in [Arena -> SUBSET Handle] /\ weaks' \in [Arena -> SUBSET Handle]
    BY <1>a, <2>1
  <2>4. inside' \in [Item -> SUBSET Handle]
    BY <1>a, <2>1
  <2> QED BY <2>2, <2>3, <2>4
<1>5. CASE Births
  <2>1. ASSUME NEW a \in Arena, ArenaNew(a) PROVE Typed
    BY <1>1, <2>1 DEF ArenaNew
  <2>2. ASSUME NEW t \in Thread, NewFails(t) PROVE Typed
    BY <1>1, <2>2 DEF NewFails
  <2> QED BY <1>2, <1>5, <2>1, <2>2 DEF Births
<1>6. CASE Handling
  BY <1>3, <1>4, <1>6, HandleSteps
<1>7. CASE Uploading
  <2>1. inside' = inside \/ \E i \in Item, moved \in SUBSET Handle :
          inside' = [j \in Item |-> IF j = i THEN moved ELSE inside[j] \ moved]
    BY <1>7 DEF Uploading, Upload, RegisterDropFn, handles
  <2>2. inside' \in [Item -> SUBSET Handle]
    BY <1>a, <2>1
  <2> QED BY <1>7, <1>a, <2>2, UploadingLeaves DEF counters
<1>8. CASE Storing \/ Walking \/ UNCHANGED vars
  BY <1>1, <1>8, StoringLeaves, WalkingLeaves DEF vars
<1> QED BY <1>5, <1>6, <1>7, <1>8, Kinds

\* The arena of a call that walks or returns memory is complete.
LEMMA CallComplete ==
  ASSUME IInv, NEW t \in Thread, NEW k \in 1..Len(stack[t]), stack[t][k].at # "new"
  PROVE  /\ stack[t][k] \in FrameOf /\ stack[t][k].arena \in Arena
         /\ Owner[stack[t][k].arena] = t /\ Born(stack[t][k].arena)
         /\ ~Building(stack[t][k].arena)
<1>a. stack[t] \in Seq(FrameOf)
  BY DEF IInv, Structure, TypeOK, FrameOf
<1>1. stack[t][k] \in FrameOf
  BY <1>a
<1>2. Owner[stack[t][k].arena] = t /\ Born(stack[t][k].arena)
  BY DEF IInv, Structure, Nesting, FrameOwned
<1>3. ~Building(stack[t][k].arena)
  <2> SUFFICES ASSUME stack[t] = <<Frame("new", stack[t][k].arena, None)>> PROVE FALSE
    BY <1>2 DEF Building
  <2>1. \A x : Len(<<x>>) = 1 /\ <<x>>[1] = x
    OBVIOUS
  <2>2. k = 1 /\ stack[t][1] = Frame("new", stack[t][k].arena, None)
    <3>1. Len(stack[t]) = 1
      BY <2>1
    <3> QED BY <2>1, <3>1
  <2> QED BY <2>2 DEF Frame
<1> QED BY <1>1, <1>2, <1>3 DEF FrameOf

\* Calls that start when the last strong handle or the last handle goes keep finding none.
LEMMA DyingKeeps ==
  ASSUME IInv, [Next]_vars
  PROVE  Dying'
<1> SUFFICES ASSUME NEW t \in Thread, NEW k \in 1..Len(stack'[t])
             PROVE  /\ stack'[t][k].at \in Pausing => strongs'[stack'[t][k].arena] = {}
                    /\ stack'[t][k].at = "reclaim" =>
                         strongs'[stack'[t][k].arena] \cup weaks'[stack'[t][k].arena] = {}
  BY DEF Dying, Refs
<1>a. TypeOK /\ stack \in [Thread -> Seq(FrameOf)] /\ stack' \in [Thread -> Seq(FrameOf)]
  BY NestingKeeps DEF IInv, Structure, TypeOK, FrameOf
<1>z. \A a \in Arena : /\ strong'[a] = 0 => strongs'[a] = {}
                       /\ rc'[a] = 0 => strongs'[a] \cup weaks'[a] = {}
  <2>1. RefCounts' /\ IsFiniteSet(Handle)
    BY RefCountsKeeps, ArenaAssumption
  <2>2. \A a \in Arena : IsFiniteSet(strongs'[a]) /\ IsFiniteSet(weaks'[a])
    <3>1. strongs' \in [Arena -> SUBSET Handle] /\ weaks' \in [Arena -> SUBSET Handle]
      BY HandleTypes
    <3> QED BY <2>1, <3>1, FS_Subset
  <2>3. ASSUME NEW a \in Arena
        PROVE  /\ strong'[a] = 0 => strongs'[a] = {}
               /\ rc'[a] = 0 => strongs'[a] \cup weaks'[a] = {}
    <3>1. /\ Cardinality(strongs'[a]) \in Nat /\ Cardinality(weaks'[a]) \in Nat
          /\ Cardinality(strongs'[a]) = 0 => strongs'[a] = {}
          /\ Cardinality(weaks'[a]) = 0 => weaks'[a] = {}
      BY <2>2, FS_CardinalityType, FS_EmptySet
    <3>2. /\ strong'[a] = Cardinality(strongs'[a])
          /\ rc'[a] = Cardinality(strongs'[a]) + Cardinality(weaks'[a])
      BY <2>1 DEF RefCounts
    <3>3. rc'[a] = 0 => Cardinality(strongs'[a]) = 0 /\ Cardinality(weaks'[a]) = 0
      BY <3>1, <3>2
    <3> QED BY <3>1, <3>2, <3>3
  <2> QED BY <2>3
<1>1. ASSUME NEW j \in 1..Len(stack[t])
      PROVE  /\ stack[t][j].at \in Pausing => strongs'[stack[t][j].arena] = {}
             /\ stack[t][j].at = "reclaim" =>
                  strongs'[stack[t][j].arena] \cup weaks'[stack[t][j].arena] = {}
  <2>1. stack[t][j].at \in Pausing => strongs[stack[t][j].arena] = {}
    BY DEF IInv, Structure, Dying
  <2>2. stack[t][j].at = "reclaim" =>
          strongs[stack[t][j].arena] \cup weaks[stack[t][j].arena] = {}
    BY DEF IInv, Structure, Dying, Refs
  <2> QED BY <2>1, <2>2, CallComplete, StaysWithout DEF Pausing
<1>l. Len(stack[t]) \in Nat /\ Len(stack'[t]) \in Nat /\ k \in 1..Len(stack'[t])
  BY <1>a
<1>2. CASE stack'[t] = stack[t]
  BY <1>1, <1>2
<1>3. ASSUME NEW f \in FrameOf, Enters(t, f)
      PROVE  /\ stack'[t][k].at \in Pausing => strongs'[stack'[t][k].arena] = {}
             /\ stack'[t][k].at = "reclaim" =>
                  strongs'[stack'[t][k].arena] \cup weaks'[stack'[t][k].arena] = {}
  <2>1. stack'[t] = Append(stack[t], f) /\ stack[t] \in Seq(FrameOf)
    BY <1>a, <1>3 DEF Enters
  <2>2. /\ Len(stack'[t]) = Len(stack[t]) + 1
        /\ \A j \in 1..Len(stack[t]) : stack'[t][j] = stack[t][j]
        /\ stack'[t][Len(stack[t]) + 1] = f
    BY ONLY <2>1, f \in FrameOf, Pushed
  <2>3. k \in 1..Len(stack[t]) \/ stack'[t][k] = f
    BY ONLY <1>l, <2>2
  <2>4. f.at \in Pausing => strongs'[f.arena] = {}
    <3>1. f.at \in Pausing => f.at = "exec" \/ f.at = "user"
      BY <1>3 DEF Enters, Pausing, Frame
    <3>2. f.at = "exec" => strong'[f.arena] = 0
      BY <1>3 DEF Enters, Frame
    <3>3. f.at = "user" => ~Idle(t) /\ Last(stack[t]).at = "exec" /\ f.arena = Last(stack[t]).arena
      BY <1>3 DEF Enters, Frame, At
    <3>4. f.at = "user" => strongs'[f.arena] = {}
      <4>1. ~Idle(t) => /\ Len(stack[t]) \in 1..Len(stack[t])
                        /\ Last(stack[t]) = stack[t][Len(stack[t])]
        BY <1>a, Top
      <4>2. "exec" \in Pausing
        BY DEF Pausing
      <4> QED BY <1>1, <3>3, <4>1, <4>2
    <3> QED BY <1>z, <3>1, <3>2, <3>4 DEF FrameOf
  <2>5. f.at = "reclaim" => strongs'[f.arena] \cup weaks'[f.arena] = {}
    <3>1. f.at = "reclaim" => rc'[f.arena] = 0
      BY <1>3 DEF Enters, Frame
    <3> QED BY <1>z, <3>1 DEF FrameOf
  <2> QED BY <1>1, <2>2, <2>3, <2>4, <2>5
<1>4. CASE Leaves(t)
  <2>1. stack'[t] = Front(stack[t]) /\ ~Idle(t)
    BY <1>a, <1>4 DEF Leaves
  <2>2. /\ Len(stack'[t]) = Len(stack[t]) - 1
        /\ \A j \in 1..(Len(stack[t]) - 1) : stack'[t][j] = stack[t][j]
    BY <1>a, <2>1, Top
  <2>3. k \in 1..Len(stack[t]) /\ k \in 1..(Len(stack[t]) - 1)
    BY ONLY <1>l, <2>2
  <2> QED BY <1>1, <2>2, <2>3
<1>5. CASE GoesOn(t)
  <2>1. /\ ~Idle(t) /\ Last(stack[t]).at = "exec" /\ rc[Last(stack[t]).arena] = 0
        /\ Len(stack[t]) \in 1..Len(stack[t]) /\ Last(stack[t]) = stack[t][Len(stack[t])]
        /\ Front(stack[t]) \in Seq(FrameOf) /\ Len(Front(stack[t])) = Len(stack[t]) - 1
        /\ \A j \in 1..(Len(stack[t]) - 1) : Front(stack[t])[j] = stack[t][j]
        /\ Last(stack[t]).arena \in Arena
    BY <1>a, <1>5, Top DEF GoesOn, At, FrameOf
  <2>f. PICK f \in FrameOf : f = Frame("reclaim", Last(stack[t]).arena, None)
    BY <2>1 DEF Frame, FrameOf, Step
  <2>2. stack'[t] = Append(Front(stack[t]), f)
    BY <1>a, <1>5, <2>f DEF GoesOn
  <2>3. /\ Len(stack'[t]) = Len(Front(stack[t])) + 1
        /\ \A j \in 1..Len(Front(stack[t])) : stack'[t][j] = Front(stack[t])[j]
        /\ stack'[t][Len(Front(stack[t])) + 1] = f
    BY ONLY <2>1, <2>2, <2>f, Pushed
  <2>4. (k \in 1..Len(stack[t]) /\ stack'[t][k] = stack[t][k]) \/ stack'[t][k] = f
    BY ONLY <1>l, <2>1, <2>3
  <2>5. strongs'[f.arena] \cup weaks'[f.arena] = {} /\ f.at = "reclaim"
    <3>1. f.arena = Last(stack[t]).arena /\ f.at = "reclaim"
      BY <2>f DEF Frame
    <3>2. strongs[f.arena] \cup weaks[f.arena] = {}
      BY <2>1, <3>1, Zeros DEF Refs, IInv, Structure
    <3>3. Born(f.arena) /\ ~Building(f.arena) /\ f.arena \in Arena
      BY <2>1, <3>1, CallComplete
    <3> QED BY <3>1, <3>2, <3>3, StaysWithout
  <2> QED BY <1>1, <2>4, <2>5 DEF Pausing
<1>6. CASE IsUnwound(t)
  <2>1. /\ ~Idle(t) /\ Last(stack[t]).at \in InsideDrop
        /\ Len(stack[t]) \in 1..Len(stack[t]) /\ Last(stack[t]) = stack[t][Len(stack[t])]
        /\ stack[t] \in Seq(FrameOf) /\ stack'[t] = Unwound(stack[t])
    BY <1>a, <1>6, Top DEF IsUnwound, At, InsideDrop
  <2>2. Len(stack[t]) > 1 /\ Len(stack[t]) >= 2
    BY <1>a, <2>1 DEF IInv, Structure, Nesting, FrameNested
  <2>3. /\ Len(stack'[t]) = Len(stack[t]) - 2
        /\ \A j \in 1..(Len(stack[t]) - 3) : stack'[t][j] = stack[t][j]
        /\ Len(stack[t]) > 2 =>
             stack'[t][Len(stack[t]) - 2] = [stack[t][Len(stack[t]) - 2] EXCEPT !.at = "unwind"]
    BY <2>1, <2>2, UnwoundCalls
  <2>4. \A n \in Nat : k \in 1..(n - 2) => /\ n > 2 /\ k \in 1..n /\ k < n
                                           /\ k \in 1..(n - 3) \/ k = n - 2
    BY <1>l
  <2>5. /\ Len(stack[t]) > 2 /\ k \in 1..Len(stack[t]) /\ k < Len(stack[t])
        /\ k \in 1..(Len(stack[t]) - 3) \/ k = Len(stack[t]) - 2
    BY <1>l, <2>3, <2>4, Zenon
  <2>6. CASE stack'[t][k] = stack[t][k]
    BY <1>1, <2>5, <2>6
  <2>7. CASE stack'[t][k] = [stack[t][k] EXCEPT !.at = "unwind"]
    <3>1. stack[t][k] \in FrameOf /\ stack[t][k].at \in Pausing
      BY <2>1, <2>5 DEF IInv, Structure, Nesting, FrameNested
    <3>2. stack'[t][k].at = "unwind" /\ stack'[t][k].arena = stack[t][k].arena
      BY <2>7, <3>1 DEF FrameOf
    <3> QED BY <1>1, <2>5, <3>1, <3>2
  <2> QED BY <2>3, <2>5, <2>6, <2>7
<1>7. CASE stack'[t] # stack[t]
  <2>1. \/ \E f \in FrameOf : Enters(t, f)
        \/ Leaves(t) \/ GoesOn(t) \/ IsUnwound(t)
    BY <1>a, <1>7, CallSteps DEF Enters, Leaves, GoesOn, IsUnwound
  <2> QED BY <2>1, <1>3, <1>4, <1>5, <1>6
<1> QED BY <1>2, <1>7

-----------------------------------------------------------------------------
(* The pool's reference count                                              *)

\* Every arena created has its clone of the Memory, a failed one drops it again.
LEMMA MemoryCountKeeps ==
  ASSUME IInv, [Next]_vars
  PROVE  /\ MemoryCount'
         /\ memRefs' \in 0..1 /\ arcs' \in Nat
         /\ blockRoom' = blockRoom
         /\ meta' \in [Arena -> Block \cup {None}]
<1>a. /\ TypeOK /\ memRefs \in 0..1 /\ arcs \in Nat /\ meta \in [Arena -> Block \cup {None}]
      /\ arcs = memRefs + Cardinality({a \in Arena : meta[a] # None})
  BY DEF IInv, Structure, TypeOK, MemoryCount, Born
<1>f. /\ IsFiniteSet({a \in Arena : meta[a] # None})
      /\ Cardinality({a \in Arena : meta[a] # None}) \in Nat
  BY ArenaAssumption, FS_Subset, FS_CardinalityType
<1>1. CASE UNCHANGED <<blockRoom, memRefs, arcs, meta>>
  BY <1>1, <1>a DEF MemoryCount, Born
<1>2. ASSUME NEW a \in Arena, ArenaNew(a)
      PROVE  /\ MemoryCount' /\ memRefs' \in 0..1 /\ arcs' \in Nat /\ blockRoom' = blockRoom
             /\ meta' \in [Arena -> Block \cup {None}]
  <2>1. PICK b \in Block : meta' = [meta EXCEPT ![a] = b]
    BY <1>2 DEF ArenaNew
  <2>2. /\ meta[a] = None /\ arcs' = arcs + 1 /\ memRefs' = memRefs /\ blockRoom' = blockRoom
    BY <1>2 DEF ArenaNew, Born
  <2>3. {c \in Arena : meta'[c] # None} = {c \in Arena : meta[c] # None} \cup {a}
    BY <1>a, <2>1, ArenaAssumption
  <2>4. Cardinality({c \in Arena : meta'[c] # None})
          = Cardinality({c \in Arena : meta[c] # None}) + 1
    BY <1>f, <2>2, <2>3, FS_AddElement
  <2> QED BY <1>a, <1>f, <2>1, <2>2, <2>4 DEF MemoryCount, Born
<1>3. ASSUME NEW t \in Thread, NewFails(t)
      PROVE  /\ MemoryCount' /\ memRefs' \in 0..1 /\ arcs' \in Nat /\ blockRoom' = blockRoom
             /\ meta' \in [Arena -> Block \cup {None}]
  <2>1. PICK a \in Arena : Last(stack[t]).arena = a /\ meta[a] # None
    BY <1>3, Builds DEF NewFails, Born
  <2>2. /\ meta' = [meta EXCEPT ![a] = None] /\ arcs' = arcs - 1 /\ memRefs' = memRefs
        /\ blockRoom' = blockRoom
    BY <1>3, <2>1 DEF NewFails
  <2>3. {c \in Arena : meta'[c] # None} = {c \in Arena : meta[c] # None} \ {a}
    BY <1>a, <2>2
  <2>4. Cardinality({c \in Arena : meta'[c] # None})
          = Cardinality({c \in Arena : meta[c] # None}) - 1
    <3>1. a \in {c \in Arena : meta[c] # None}
      BY <2>1
    <3> QED BY <1>f, <2>3, <3>1, FS_RemoveElement
  <2>5. Cardinality({c \in Arena : meta'[c] # None}) \in Nat
    <3>1. IsFiniteSet({c \in Arena : meta'[c] # None})
      BY ArenaAssumption, FS_Subset
    <3> QED BY <3>1, FS_CardinalityType
  <2> QED BY <1>a, <1>f, <2>2, <2>4, <2>5 DEF MemoryCount, Born
<1>4. ASSUME DropMemory
      PROVE  /\ MemoryCount' /\ memRefs' \in 0..1 /\ arcs' \in Nat /\ blockRoom' = blockRoom
             /\ meta' \in [Arena -> Block \cup {None}]
  <2>1. /\ memRefs > 0 /\ memRefs' = memRefs - 1 /\ arcs' = arcs - 1
        /\ blockRoom' = blockRoom /\ meta' = meta
    BY <1>4 DEF DropMemory, storage
  <2> QED BY <1>a, <1>f, <2>1 DEF MemoryCount, Born
<1>5. CASE Births
  <2>1. ASSUME NEW t \in Thread, NEW h \in Handle, NewDone(t, h)
        PROVE  UNCHANGED <<blockRoom, memRefs, arcs, meta>>
    BY <2>1 DEF NewDone, pool
  <2> QED BY <1>1, <1>2, <1>3, <1>5, <2>1 DEF Births
<1>6. CASE Storing
  <2>1. ASSUME (\E a \in Arena, h \in Handle : UploadNoDrop(a, h))
               \/ \E t \in Thread : NextList(t) \/ ReclaimBlock(t)
        PROVE  UNCHANGED <<blockRoom, memRefs, arcs, meta>>
    BY <2>1 DEF UploadNoDrop, NextList, ReclaimBlock
  <2> QED BY <1>1, <1>4, <1>6, <2>1 DEF Storing
<1>7. CASE Handling \/ Uploading \/ Walking \/ UNCHANGED vars
  BY <1>1, <1>7, HandlingLeaves, UploadingLeaves, WalkingLeaves DEF pool, storage, vars
<1> QED BY <1>5, <1>6, <1>7, Kinds

-----------------------------------------------------------------------------
(* The blocks                                                              *)

\* An arena with handles or under construction has its metadata.
LEMMA SeenIsBorn ==
  ASSUME IInv, [Next]_vars, NEW a \in Arena, (Refs(a) # {} \/ Building(a))'
  PROVE  Born(a)'
<1>1. CASE Refs(a)' # {}
  BY <1>1, UnseenKeeps DEF Unseen
<1>2. CASE Building(a)'
  <2>1. PICK t \in Thread : t = Owner[a]
    BY ArenaAssumption
  <2>2. stack'[t] = <<Frame("new", a, None)>>
    BY <1>2, <2>1 DEF Building
  <2>3. \A x : Len(<<x>>) = 1 /\ <<x>>[1] = x
    OBVIOUS
  <2>4. Len(stack'[t]) = 1 /\ stack'[t][1] = Frame("new", a, None)
    BY <2>2, <2>3
  <2>5. 1 \in 1..Len(stack'[t])
    BY <2>4
  <2>6. stack'[t][1].arena = a
    BY <2>4 DEF Frame
  <2> QED BY <2>5, <2>6, NestingKeeps DEF Nesting, FrameOwned, Born
<1> QED BY <1>1, <1>2

\* If its metadata did not move, it had handles or was under construction.
LEMMA UsedBefore ==
  ASSUME IInv, [Next]_vars, NEW a \in Arena, meta'[a] = meta[a],
         (Refs(a) # {} \/ Building(a))'
  PROVE  Refs(a) # {} \/ Building(a)
<1>1. Born(a)
  BY SeenIsBorn DEF Born
<1>2. CASE Building(a)'
  BY <1>1, <1>2, StillUnseen
<1>3. CASE ~Building(a)
  <2>1. strongs'[a] \cup weaks'[a] # {}
    BY <1>1, <1>2, <1>3, StillUnseen DEF Refs
  <2> QED BY <1>1, <1>3, <2>1, StaysWithout DEF Refs
<1> QED BY <1>3

\* Storing something takes room from the last block, or a block of the pool.
LEMMA Places ==
  ASSUME IInv, NEW a \in Arena, chain[a] # <<>>, PlaceUnit(a)
  PROVE  /\ chain' \in [Arena -> Seq(Block)] /\ room' \in [Arena -> Nat]
         /\ spare' \in SUBSET Block
         /\ \A b \in Arena : chain[b] # <<>> => chain'[b] # <<>> /\ chain'[b][1] = chain[b][1]
         /\ \A b \in Arena : chain[b] = <<>> => chain'[b] = <<>>
         /\ \A b \in Arena : Range(chain[b]) \subseteq Range(chain'[b])
<1>a. /\ chain \in [Arena -> Seq(Block)] /\ room \in [Arena -> Nat] /\ spare \in SUBSET Block
      /\ blockRoom \in Nat \ {0}
  BY DEF IInv, Structure, TypeOK
<1>1. CASE room[a] > 0 /\ room' = [room EXCEPT ![a] = @ - 1] /\ chain' = chain /\ spare' = spare
  BY <1>1, <1>a
<1>2. CASE /\ room' = [room EXCEPT ![a] = blockRoom - 1]
           /\ \E b \in Block : TakeBlock(b) /\ chain' = [chain EXCEPT ![a] = Append(@, b)]
  <2>1. PICK b \in Block : TakeBlock(b) /\ chain' = [chain EXCEPT ![a] = Append(@, b)]
    BY <1>2
  <2>2. room' \in [Arena -> Nat]
    <3>1. blockRoom - 1 \in Nat
      BY <1>a
    <3> QED BY <1>2, <1>a, <3>1
  <2>3. spare' \in SUBSET Block
    BY <1>a, <2>1 DEF TakeBlock, Unallocated
  <2>4. chain[a] \in Seq(Block) /\ chain'[a] = Append(chain[a], b)
    BY <1>a, <2>1
  <2>5. /\ Append(chain[a], b) \in Seq(Block) /\ Append(chain[a], b) # <<>>
        /\ Len(Append(chain[a], b)) = Len(chain[a]) + 1
        /\ \A i \in 1..Len(chain[a]) : Append(chain[a], b)[i] = chain[a][i]
    BY ONLY <2>1, <2>4, Pushed
  <2>6. Append(chain[a], b)[1] = chain[a][1]
    <3>1. 1 \in 1..Len(chain[a])
      BY <2>4
    <3> QED BY <2>5, <3>1
  <2>7. Range(chain[a]) \subseteq Range(chain'[a])
    <3>1. ASSUME NEW x \in Range(chain[a]) PROVE x \in Range(chain'[a])
      <4>1. PICK i \in 1..Len(chain[a]) : chain[a][i] = x
        BY <2>4, InRange
      <4>2. i \in 1..Len(chain'[a]) /\ chain'[a][i] = x
        BY <2>4, <2>5, <4>1
      <4>3. chain'[a] \in Seq(Block)
        BY <2>4, <2>5
      <4> QED BY <4>2, <4>3, InRange
    <3> QED BY <3>1
  <2>8. chain' \in [Arena -> Seq(Block)] /\ \A c \in Arena : c # a => chain'[c] = chain[c]
    BY <1>a, <2>1, <2>5
  <2> QED BY <2>2, <2>3, <2>4, <2>5, <2>6, <2>7, <2>8
<1> QED BY <1>1, <1>2 DEF PlaceUnit

\* The block of the metadata is the first of its chain and the last to be returned.
LEMMA StorageKeeps ==
  ASSUME IInv, [Next]_vars
  PROVE  /\ chain' \in [Arena -> Seq(Block)] /\ room' \in [Arena -> Nat]
         /\ spare' \in SUBSET Block
         /\ ChainStarts' /\ HasMemoryWhileUsed'
<1> DEFINE Stored == /\ chain' \in [Arena -> Seq(Block)] /\ room' \in [Arena -> Nat]
                     /\ spare' \in SUBSET Block
                     /\ ChainStarts' /\ HasMemoryWhileUsed'
<1>a. /\ TypeOK /\ chain \in [Arena -> Seq(Block)] /\ room \in [Arena -> Nat]
      /\ meta \in [Arena -> Block \cup {None}] /\ spare \in SUBSET Block
      /\ blockRoom \in Nat \ {0}
  <2>1. TypeOK /\ blockRoom > 0 /\ blockRoom \in Nat
    BY DEF IInv, Structure, TypeOK
  <2>2. blockRoom \in Nat \ {0}
    BY ONLY <2>1
  <2> QED BY <2>1, <2>2 DEF TypeOK
<1>c. \A a \in Arena : chain[a] # <<>> => meta[a] # None /\ chain[a][1] = meta[a]
  BY DEF IInv, Structure, ChainStarts, Born
<1>h. \A a \in Arena : Refs(a) # {} \/ Building(a) => meta[a] \in Range(chain[a])
  BY DEF IInv, Structure, HasMemoryWhileUsed, HasMemory, Blocks
<1>e. ASSUME NEW a \in Arena, meta[a] \in Range(chain[a]) PROVE chain[a] # <<>>
  BY <1>a, <1>e, InRange
\* Where the metadata stay and no chain shrinks, there is nothing to show but
\* that chains start as they did.
<1>k. ASSUME NEW a \in Arena, meta'[a] = meta[a], Range(chain[a]) \subseteq Range(chain'[a]),
             chain[a] # <<>> => chain'[a] # <<>> /\ chain'[a][1] = chain[a][1],
             chain[a] = <<>> => chain'[a] = <<>>
      PROVE  /\ chain'[a] # <<>> => meta'[a] # None /\ chain'[a][1] = meta'[a]
             /\ (Refs(a) # {} \/ Building(a))' => meta'[a] \in Range(chain'[a])
  <2>1. (Refs(a) # {} \/ Building(a))' => Refs(a) # {} \/ Building(a)
    BY <1>k, UsedBefore
  <2> QED BY <1>c, <1>h, <1>k, <2>1
<1>s. ASSUME \A a \in Arena :
                /\ chain'[a] # <<>> => meta'[a] # None /\ chain'[a][1] = meta'[a]
                /\ (Refs(a) # {} \/ Building(a))' => meta'[a] \in Range(chain'[a])
      PROVE  ChainStarts' /\ HasMemoryWhileUsed'
  BY <1>s DEF ChainStarts, HasMemoryWhileUsed, HasMemory, Blocks, Born
<1>1. CASE chain' = chain /\ meta' = meta /\ room' \in [Arena -> Nat] /\ spare' \in SUBSET Block
  <2>1. \A a \in Arena :
          /\ chain'[a] # <<>> => meta'[a] # None /\ chain'[a][1] = meta'[a]
          /\ (Refs(a) # {} \/ Building(a))' => meta'[a] \in Range(chain'[a])
    BY <1>1, <1>k
  <2> QED BY <1>1, <1>a, <1>s, <2>1
<1>2. ASSUME NEW a \in Arena, ArenaNew(a) PROVE Stored
  <2>1. PICK b \in Block : /\ TakeBlock(b) /\ chain' = [chain EXCEPT ![a] = <<b>>]
                           /\ meta' = [meta EXCEPT ![a] = b]
    BY <1>2 DEF ArenaNew
  <2>2. spare' \in SUBSET Block
    BY <1>a, <2>1 DEF TakeBlock, Unallocated
  <2>3. room' \in [Arena -> Nat]
    BY <1>a, <1>2 DEF ArenaNew
  <2>4. /\ <<b>> \in Seq(Block) /\ <<b>>[1] = b /\ 1 \in 1..Len(<<b>>)
    OBVIOUS
  <2>5. b \in Range(<<b>>)
    BY <2>4, InRange
  <2>6. chain' \in [Arena -> Seq(Block)] /\ chain'[a] = <<b>> /\ meta'[a] = b
    BY <1>a, <2>1, <2>4
  <2>7. ASSUME NEW c \in Arena, c # a
        PROVE  /\ chain'[c] # <<>> => meta'[c] # None /\ chain'[c][1] = meta'[c]
               /\ (Refs(c) # {} \/ Building(c))' => meta'[c] \in Range(chain'[c])
    <3>1. chain'[c] = chain[c] /\ meta'[c] = meta[c]
      BY <1>a, <2>1, <2>7
    <3> QED BY <1>k, <3>1
  <2>8. b # None
    BY ArenaAssumption
  <2> QED BY <1>s, <2>2, <2>3, <2>4, <2>5, <2>6, <2>7, <2>8
<1>3. ASSUME NEW t \in Thread, NewFails(t) PROVE Stored
  <2>1. PICK a \in Arena : Last(stack[t]).arena = a
    BY <1>3, Builds DEF NewFails
  <2>2. /\ chain' = [chain EXCEPT ![a] = <<>>] /\ meta' = [meta EXCEPT ![a] = None]
        /\ room' = [room EXCEPT ![a] = 0] /\ spare' = spare
    BY <1>3, <2>1 DEF NewFails
  <2>3. /\ chain' \in [Arena -> Seq(Block)] /\ room' \in [Arena -> Nat] /\ spare' \in SUBSET Block
        /\ chain'[a] = <<>> /\ meta'[a] = None
    BY <1>a, <2>2
  <2>4. ~(Refs(a) # {} \/ Building(a))'
    BY <2>3, SeenIsBorn DEF Born
  <2>5. ASSUME NEW c \in Arena, c # a
        PROVE  /\ chain'[c] # <<>> => meta'[c] # None /\ chain'[c][1] = meta'[c]
               /\ (Refs(c) # {} \/ Building(c))' => meta'[c] \in Range(chain'[c])
    <3>1. chain'[c] = chain[c] /\ meta'[c] = meta[c]
      BY <1>a, <2>2, <2>5
    <3> QED BY <1>k, <3>1
  <2> QED BY <1>s, <2>3, <2>4, <2>5
<1>4. ASSUME NEW t \in Thread, NEW h \in Handle, NewDone(t, h) PROVE Stored
  <2>1. PICK a \in Arena : Last(stack[t]).arena = a
    BY <1>4, Builds DEF NewDone
  <2>2. /\ room[a] >= 2 /\ room' = [room EXCEPT ![a] = @ - 2]
        /\ chain' = chain /\ meta' = meta /\ spare' = spare
    BY <1>4, <2>1 DEF NewDone, pool
  <2>3. room' \in [Arena -> Nat]
    BY <1>a, <2>2
  <2> QED BY <1>1, <1>a, <2>2, <2>3
<1>5. ASSUME NEW a \in Arena, Refs(a) # {}, PlaceUnit(a), meta' = meta PROVE Stored
  <2>1. chain[a] # <<>>
    BY <1>5, <1>h, <1>e
  <2>2. /\ chain' \in [Arena -> Seq(Block)] /\ room' \in [Arena -> Nat]
        /\ spare' \in SUBSET Block
        /\ \A b \in Arena : chain[b] # <<>> => chain'[b] # <<>> /\ chain'[b][1] = chain[b][1]
        /\ \A b \in Arena : chain[b] = <<>> => chain'[b] = <<>>
        /\ \A b \in Arena : Range(chain[b]) \subseteq Range(chain'[b])
    BY <1>5, <2>1, Places
  <2>3. \A c \in Arena :
          /\ chain'[c] # <<>> => meta'[c] # None /\ chain'[c][1] = meta'[c]
          /\ (Refs(c) # {} \/ Building(c))' => meta'[c] \in Range(chain'[c])
    BY <1>5, <1>k, <2>2
  <2> QED BY <1>s, <2>2, <2>3
<1>6. ASSUME NEW t \in Thread, ReclaimBlock(t) PROVE Stored
  <2>0. /\ ~Idle(t) /\ Last(stack[t]).at = "reclaim"
        /\ Len(stack[t]) \in 1..Len(stack[t]) /\ Last(stack[t]) = stack[t][Len(stack[t])]
    BY <1>6, <1>a, Top DEF ReclaimBlock, At
  <2>1. PICK a \in Arena : Last(stack[t]).arena = a /\ Born(a) /\ ~Building(a)
    BY <2>0, CallComplete
  <2>2. /\ meta[a] \in Range(chain[a]) /\ chain[a] \in Seq(Block)
        /\ spare' = spare \cup {Last(chain[a])} /\ chain' = [chain EXCEPT ![a] = Front(@)]
        /\ meta' = meta /\ room' = room /\ UNCHANGED <<strongs, weaks>>
    BY <1>a, <1>6, <2>1 DEF ReclaimBlock, HasMemory, Blocks, handles
  <2>3. chain[a] # <<>>
    BY <1>e, <2>2
  <2>4. /\ Len(chain[a]) \in Nat \ {0} /\ Last(chain[a]) \in Block
        /\ Front(chain[a]) \in Seq(Block) /\ Len(Front(chain[a])) = Len(chain[a]) - 1
        /\ \A i \in 1..(Len(chain[a]) - 1) : Front(chain[a])[i] = chain[a][i]
    BY ONLY <2>2, <2>3, Popped
  <2>5. /\ chain' \in [Arena -> Seq(Block)] /\ chain'[a] = Front(chain[a])
        /\ spare' \in SUBSET Block /\ room' \in [Arena -> Nat]
    BY <1>a, <2>2, <2>4
  <2>6. chain'[a] # <<>> => meta'[a] # None /\ chain'[a][1] = meta'[a]
    <3>1. chain'[a] # <<>> => 1 \in 1..(Len(chain[a]) - 1)
      BY <2>4, <2>5, EmptySeq
    <3> QED BY <1>c, <2>2, <2>3, <2>4, <2>5, <3>1
  <2>7. ~(Refs(a) # {} \/ Building(a))'
    <3>1. Refs(a) = {}
      BY <2>0, <2>1 DEF IInv, Structure, Dying
    <3>2. (Refs(a) # {} \/ Building(a))' => Refs(a) # {} \/ Building(a)
      BY <2>2, UsedBefore
    <3> QED BY <2>1, <3>1, <3>2
  <2>8. ASSUME NEW c \in Arena, c # a
        PROVE  /\ chain'[c] # <<>> => meta'[c] # None /\ chain'[c][1] = meta'[c]
               /\ (Refs(c) # {} \/ Building(c))' => meta'[c] \in Range(chain'[c])
    <3>1. chain'[c] = chain[c] /\ meta'[c] = meta[c]
      BY <1>a, <2>2, <2>8
    <3> QED BY <1>k, <3>1
  <2> QED BY <1>s, <2>5, <2>6, <2>7, <2>8
<1>7. CASE Births
  BY <1>2, <1>3, <1>4, <1>7 DEF Births
<1>8. CASE Handling \/ Walking \/ UNCHANGED vars
  BY <1>1, <1>8, <1>a, HandlingLeaves, WalkingLeaves DEF pool, storage, vars
<1>9. CASE Uploading
  <2>1. ASSUME NEW a \in Arena, NEW h \in Handle, NEW i \in Item, RegisterDropFn(a, h, i)
        PROVE  Stored
    BY <1>1, <1>a, <2>1 DEF RegisterDropFn, pool
  <2>2. ASSUME NEW a \in Arena, NEW h \in Handle, NEW i \in Item, NEW moved \in SUBSET Handle,
               Upload(a, h, i, moved)
        PROVE  Stored
    <3>1. Refs(a) # {} /\ PlaceUnit(a) /\ meta' = meta
      BY <2>2 DEF Upload, Usable
    <3> QED BY <1>5, <3>1
  <2> QED BY <1>9, <2>1, <2>2 DEF Uploading
<1>10. CASE Storing
  <2>1. ASSUME DropMemory PROVE Stored
    BY <1>1, <1>a, <2>1 DEF DropMemory, storage
  <2>2. ASSUME NEW a \in Arena, NEW h \in Handle, UploadNoDrop(a, h) PROVE Stored
    <3>1. Refs(a) # {} /\ PlaceUnit(a) /\ meta' = meta
      BY <2>2 DEF UploadNoDrop, Usable
    <3> QED BY <1>5, <3>1
  <2>3. ASSUME NEW t \in Thread, NextList(t) PROVE Stored
    <3>1. PICK a \in Arena : a = Last(stack[t]).arena
      BY <2>3, LinksOwn DEF NextList
    <3>2. Refs(a) # {} /\ PlaceUnit(a) /\ meta' = meta
      BY <2>3, <3>1 DEF NextList, IInv, Structure, Linking
    <3> QED BY <1>5, <3>2
  <2> QED BY <1>6, <1>10, <2>1, <2>2, <2>3 DEF Storing
<1> QED BY <1>7, <1>8, <1>9, <1>10, Kinds

-----------------------------------------------------------------------------
(* The items                                                               *)

\* Items wait in the queue of their arena, once, until they are dropped, once.
LEMMA QueuedKeeps ==
  ASSUME IInv, [Next]_vars
  PROVE  /\ Queued'
         /\ queue' \in [Arena -> Seq(Item)]
         /\ home' \in [Item -> Arena \cup {None}] /\ dropped' \in [Item -> Nat]
<1> DEFINE Kept8 == /\ Queued'
                    /\ queue' \in [Arena -> Seq(Item)]
                    /\ home' \in [Item -> Arena \cup {None}] /\ dropped' \in [Item -> Nat]
<1>a. /\ TypeOK /\ queue \in [Arena -> Seq(Item)]
      /\ home \in [Item -> Arena \cup {None}] /\ dropped \in [Item -> Nat]
  BY DEF IInv, Structure, TypeOK
<1>n. None \notin Arena /\ None \notin Item
  BY ArenaAssumption
<1>q. /\ \A a \in Arena : IsInjective(queue[a])
      /\ \A a \in Arena : \A i \in Range(queue[a]) : home[i] = a /\ dropped[i] = 0
      /\ \A i \in Item : home[i] = None => dropped[i] = 0
      /\ \A i \in Item : home[i] # None /\ dropped[i] = 0 => i \in Range(queue[home[i]])
  BY DEF IInv, Queued
<1>1. CASE UNCHANGED <<queue, home, dropped>>
  <2>1. Queued'
    BY <1>1, <1>q DEF Queued
  <2> QED BY <1>1, <1>a, <2>1
<1>2. ASSUME NEW a \in Arena, NEW i \in Item, home[i] = None, Register(a, i), dropped' = dropped
      PROVE  Kept8
  <2>1. /\ home' = [home EXCEPT ![i] = a]
        /\ queue' = [queue EXCEPT ![a] = Append(@, i)]
    BY <1>2 DEF Register
  <2>2. queue[a] \in Seq(Item) /\ IsInjective(queue[a]) /\ i \notin Range(queue[a])
    BY <1>2, <1>a, <1>n, <1>q
  <2>3. /\ Append(queue[a], i) \in Seq(Item)
        /\ IsInjective(Append(queue[a], i))
        /\ Range(Append(queue[a], i)) = Range(queue[a]) \cup {i}
    BY ONLY <2>2, i \in Item, AppendFresh
  <2>4. /\ queue' \in [Arena -> Seq(Item)] /\ queue'[a] = Append(queue[a], i)
        /\ \A b \in Arena : b # a => queue'[b] = queue[b]
    BY <1>a, <2>1, <2>3
  <2>5. /\ home' \in [Item -> Arena \cup {None}] /\ home'[i] = a
        /\ \A j \in Item : j # i => home'[j] = home[j]
    BY <1>a, <2>1
  <2>6. \A b \in Arena : IsInjective(queue'[b])
    BY <1>q, <2>3, <2>4
  <2>7. ASSUME NEW b \in Arena, NEW j \in Range(queue'[b])
        PROVE  home'[j] = b /\ dropped'[j] = 0
    <3>0. j \in Item
      BY <2>4, InRange
    <3>1. CASE b = a /\ j = i
      BY <1>2, <1>q, <2>5, <3>1
    <3>2. CASE j \in Range(queue[b])
      <4>1. home[j] = b /\ dropped[j] = 0
        BY <1>q, <3>2
      <4>2. j # i
        BY <1>2, <1>n, <4>1
      <4> QED BY <1>2, <2>5, <3>0, <4>1, <4>2
    <3> QED BY <2>3, <2>4, <3>1, <3>2
  <2>8. \A j \in Item : home'[j] = None => dropped'[j] = 0
    BY <1>2, <1>n, <1>q, <2>5
  <2>9. ASSUME NEW j \in Item, home'[j] # None, dropped'[j] = 0
        PROVE  j \in Range(queue'[home'[j]])
    <3>1. CASE j = i
      BY <2>3, <2>4, <2>5, <3>1
    <3>2. CASE j # i
      <4>1. home'[j] = home[j] /\ j \in Range(queue[home[j]]) /\ home[j] \in Arena
        BY <1>2, <1>a, <1>q, <2>5, <2>9, <3>2
      <4>2. Range(queue[home[j]]) \subseteq Range(queue'[home[j]])
        BY <2>3, <2>4, <4>1
      <4> QED BY <4>1, <4>2
    <3> QED BY <3>1, <3>2
  <2>10. Queued'
    BY <2>6, <2>7, <2>8, <2>9 DEF Queued
  <2> QED BY <1>2, <1>a, <2>4, <2>5, <2>10
<1>3. ASSUME NEW t \in Thread, ExecNext(t) PROVE Kept8
  <2>1. PICK a \in Arena, i \in Item :
          /\ queue[a] # <<>> /\ i = queue[a][1]
          /\ queue' = [queue EXCEPT ![a] = Tail(@)]
          /\ dropped' = [dropped EXCEPT ![i] = @ + 1]
    BY <1>a, <1>3, EntersDrop
  <2>2. home' = home
    BY <1>3 DEF ExecNext
  <2>3. queue[a] \in Seq(Item) /\ IsInjective(queue[a])
    BY <1>a, <1>q
  <2>4. /\ Tail(queue[a]) \in Seq(Item) /\ IsInjective(Tail(queue[a]))
        /\ i \in Range(queue[a]) /\ Range(Tail(queue[a])) = Range(queue[a]) \ {i}
    BY ONLY <2>1, <2>3, TailOfInjective
  <2>5. /\ queue' \in [Arena -> Seq(Item)] /\ queue'[a] = Tail(queue[a])
        /\ \A b \in Arena : b # a => queue'[b] = queue[b]
    BY <1>a, <2>1, <2>4
  <2>6. /\ dropped' \in [Item -> Nat] /\ dropped'[i] = dropped[i] + 1
        /\ \A j \in Item : j # i => dropped'[j] = dropped[j]
    BY <1>a, <2>1
  <2>7. home[i] = a /\ dropped[i] = 0
    BY <1>q, <2>4
  <2>8. \A b \in Arena : IsInjective(queue'[b])
    BY <1>q, <2>4, <2>5
  <2>9. ASSUME NEW b \in Arena, NEW j \in Range(queue'[b])
        PROVE  home'[j] = b /\ dropped'[j] = 0
    <3>0. j \in Item
      BY <2>5, InRange
    <3>1. j \in Range(queue[b]) /\ (b = a => j # i)
      BY <2>4, <2>5
    <3>2. home[j] = b /\ dropped[j] = 0
      BY <1>q, <3>1
    <3>3. j # i
      BY <2>7, <3>1, <3>2
    <3> QED BY <2>2, <2>6, <3>0, <3>2, <3>3
  <2>10. \A j \in Item : home'[j] = None => dropped'[j] = 0
    BY <1>n, <1>q, <2>2, <2>6, <2>7
  <2>11. ASSUME NEW j \in Item, home'[j] # None, dropped'[j] = 0
         PROVE  j \in Range(queue'[home'[j]])
    <3>1. j # i
      BY <2>6, <2>7, <2>11
    <3>2. j \in Range(queue[home[j]]) /\ home[j] \in Arena
      BY <1>a, <1>q, <2>2, <2>6, <2>11, <3>1
    <3> QED BY <2>2, <2>4, <2>5, <3>1, <3>2
  <2>12. Queued'
    BY <2>8, <2>9, <2>10, <2>11 DEF Queued
  <2> QED BY <1>a, <2>2, <2>5, <2>6, <2>12
<1>4. CASE Births
  <2>1. UNCHANGED <<queue, home, dropped>>
    BY <1>4 DEF Births, ArenaNew, NewFails, NewDone, items
  <2> QED BY <1>1, <2>1
<1>5. CASE Handling \/ Storing \/ UNCHANGED vars
  BY <1>1, <1>5, HandlingLeaves, StoringLeaves DEF items, vars
<1>6. CASE Uploading
  BY <1>2, <1>6, UploadingLeaves DEF Uploading, Upload, RegisterDropFn
<1>7. CASE Walking
  <2>1. ASSUME NEW t \in Thread, ExecDone(t) \/ UserReturn(t) \/ Unwind(t)
        PROVE  UNCHANGED <<queue, home, dropped>>
    BY <2>1 DEF ExecDone, UserReturn, Unwind, items
  <2> QED BY <1>1, <1>3, <1>7, <2>1 DEF Walking
<1> QED BY <1>4, <1>5, <1>6, <1>7, Kinds

-----------------------------------------------------------------------------
(* The invariant                                                           *)

\* The invariant holds at the start.
LEMMA InitHolds == Init => IInv
<1> SUFFICES ASSUME Init PROVE IInv
  OBVIOUS
<1>1. TypeOK /\ blockRoom > 0
  <2>1. <<>> \in Seq(Block) /\ <<>> \in Seq(Item)
        /\ <<>> \in Seq([at : Step, arena : Arena, item : Item \cup {None}])
    OBVIOUS
  <2> QED BY <2>1, ArenaAssumption DEF Init, TypeOK
<1>2. LastListNotFull
  BY ArenaAssumption DEF Init, LastListNotFull
<1>3. MemoryCount
  <2>1. {a \in Arena : Born(a)} = {}
    BY DEF Init, Born
  <2>2. Cardinality({a \in Arena : Born(a)}) = 0
    BY <2>1, FS_EmptySet
  <2> QED BY <2>2 DEF Init, MemoryCount
<1>4. Nesting /\ Dying /\ Linking
  <2>1. \A t \in Thread : Len(stack[t]) = 0 /\ Idle(t)
    BY DEF Init, Idle
  <2> QED BY <2>1 DEF Nesting, Dying, Linking, At
<1>5. HandlesApart /\ HeldHere
  BY DEF Init, HandlesApart, HeldHere, Refs
<1>6. Unseen
  BY ArenaAssumption DEF Init, Unseen, Refs
<1>7. RefCounts
  BY FS_EmptySet DEF Init, RefCounts
<1>8. ChainStarts
  BY DEF Init, ChainStarts
<1>9. HasMemoryWhileUsed
  <2>1. \A x : <<>> # <<x>>
    OBVIOUS
  <2> QED BY <2>1, ArenaAssumption DEF Init, HasMemoryWhileUsed, Refs, Building
<1>10. Queued
  <2>1. \A a \in Arena : queue[a] = <<>>
    BY DEF Init
  <2>2. IsInjective(<<>>) /\ Range(<<>>) = {}
    <3>1. DOMAIN <<>> = {}
      OBVIOUS
    <3> QED BY <3>1 DEF IsInjective, Range
  <2> QED BY <2>1, <2>2 DEF Init, Queued
<1> QED
  BY <1>1, <1>2, <1>3, <1>4, <1>5, <1>6, <1>7, <1>8, <1>9, <1>10 DEF IInv, Structure

\* Every step keeps it.
LEMMA Inductive == IInv /\ [Next]_vars => IInv'
<1> SUFFICES ASSUME IInv, [Next]_vars PROVE IInv'
  OBVIOUS
<1>1. blockRoom' \in Nat /\ blockRoom' > 0
  <2>1. blockRoom \in Nat /\ blockRoom > 0
    BY DEF IInv, Structure, TypeOK
  <2> QED BY <2>1, MemoryCountKeeps
<1>2. TypeOK'
  BY <1>1, MemoryCountKeeps, StorageKeeps, LastListNotFullKeeps, QueuedKeeps, HandleTypes,
     NestingKeeps DEF TypeOK, FrameOf
<1>3. Structure'
  BY <1>1, <1>2, LastListNotFullKeeps, MemoryCountKeeps, NestingKeeps, HandlesApartKeeps,
     HeldHereKeeps, UnseenKeeps, RefCountsKeeps, DyingKeeps, StorageKeeps, LinkingKeeps
     DEF Structure
<1> QED BY <1>3, QueuedKeeps DEF IInv

\* The invariant holds always.
LEMMA Invariance == Spec => []IInv
<1> QED BY InitHolds, Inductive, PTL DEF Spec

-----------------------------------------------------------------------------
(* What it gives                                                           *)

\* Every variable has its type: no counter of the pool goes below zero and no
\* drop list beyond its capacity.
THEOREM TypeCorrect == Spec => []TypeOK
<1>1. IInv => TypeOK
  BY DEF IInv, Structure
<1> QED BY <1>1, Invariance, PTL

\* The last drop list has a free slot whenever a drop function is registered
\* (write_item, droplist.rs:42).
THEOREM LastListHasRoom == Spec => []LastListNotFull
<1>1. IInv => LastListNotFull
  BY DEF IInv, Structure
<1> QED BY <1>1, Invariance, PTL

\* The counters in the metadata count the handles (arena.rs inc_*, dec_*).
THEOREM RefCountsExact == Spec => []RefCounts
<1>1. IInv => RefCounts
  BY DEF IInv, Structure
<1> QED BY <1>1, Invariance, PTL

\* The block a handle points into is the arena's for as long as the handle
\* exists, however the handles are passed around and dropped.
THEOREM HandlesHaveMemory == Spec => []HandlesKeepMemory
<1>1. IInv => HandlesKeepMemory
  BY DEF IInv, Structure, HasMemoryWhileUsed, HandlesKeepMemory
<1> QED BY <1>1, Invariance, PTL

\* An arena's clone of the Memory keeps the pool its blocks came from.
THEOREM PoolOutlives == Spec => []PoolOutlivesArenas
<1>1. ASSUME IInv PROVE PoolOutlivesArenas
  <2> SUFFICES ASSUME NEW a \in Arena, chain[a] # <<>> PROVE arcs > 0
    BY DEF PoolOutlivesArenas
  <2>1. a \in {b \in Arena : Born(b)}
    BY <1>1 DEF IInv, Structure, ChainStarts
  <2>2. /\ IsFiniteSet({b \in Arena : Born(b)})
        /\ Cardinality({b \in Arena : Born(b)}) \in Nat
    BY ArenaAssumption, FS_Subset, FS_CardinalityType
  <2>3. Cardinality({b \in Arena : Born(b)}) # 0
    BY <2>1, <2>2, FS_EmptySet
  <2>4. arcs = memRefs + Cardinality({b \in Arena : Born(b)}) /\ memRefs \in 0..1
    BY <1>1 DEF IInv, Structure, MemoryCount, TypeOK
  <2> QED BY <2>2, <2>3, <2>4
<1> QED BY <1>1, Invariance, PTL

\* The counters after a step, as in Zeros.
LEMMA ZerosAfter ==
  ASSUME IInv, [Next]_vars, NEW a \in Arena
  PROVE  /\ strong'[a] \in Nat /\ (strong'[a] = 0 <=> strongs'[a] = {})
<1>1. RefCounts' /\ IsFiniteSet(Handle) /\ strongs' \in [Arena -> SUBSET Handle]
  BY RefCountsKeeps, HandleTypes, ArenaAssumption
<1>2. IsFiniteSet(strongs'[a])
  BY <1>1, FS_Subset
<1>3. Cardinality(strongs'[a]) \in Nat /\ (Cardinality(strongs'[a]) = 0 <=> strongs'[a] = {})
  BY <1>2, FS_CardinalityType, FS_EmptySet
<1>4. strong'[a] = Cardinality(strongs'[a])
  BY <1>1 DEF RefCounts
<1> QED BY <1>3, <1>4

\* The item whose drop function is entered was waiting, and no strong handle
\* is left on its arena.
LEMMA DropsTheDead ==
  ASSUME IInv, NEW t \in Thread, ExecNext(t)
  PROVE  \E i \in Item : /\ home[i] \in Arena /\ dropped[i] = 0 /\ strongs[home[i]] = {}
                         /\ dropped' = [dropped EXCEPT ![i] = @ + 1]
<1>a. TypeOK
  BY DEF IInv, Structure
<1>1. PICK a \in Arena, i \in Item :
        /\ ~Idle(t) /\ Last(stack[t]).at = "exec" /\ Last(stack[t]).arena = a
        /\ queue[a] # <<>> /\ i = queue[a][1]
        /\ dropped' = [dropped EXCEPT ![i] = @ + 1]
  BY <1>a, EntersDrop
<1>2. home[i] = a /\ dropped[i] = 0
  <2>1. i \in Range(queue[a])
    BY <1>a, <1>1, InRange DEF TypeOK
  <2> QED BY <2>1 DEF IInv, Queued
<1>3. strongs[a] = {}
  <2>1. Len(stack[t]) \in 1..Len(stack[t]) /\ Last(stack[t]) = stack[t][Len(stack[t])]
    BY <1>a, <1>1, Top
  <2> QED BY <1>1, <2>1 DEF IInv, Structure, Dying, Pausing
<1> QED BY <1>1, <1>2, <1>3

\* An item's arena is complete.
LEMMA HomeComplete ==
  ASSUME IInv, NEW i \in Item, home[i] # None
  PROVE  home[i] \in Arena /\ Born(home[i]) /\ ~Building(home[i])
<1>1. home[i] \in Arena
  BY DEF IInv, Structure, TypeOK
<1> QED BY <1>1 DEF IInv, Structure, Unseen

\* A drop function is entered only for items that wait in their queue.
LEMMA DroppedOnceKeeps ==
  ASSUME IInv, DroppedOnce, [Next]_vars
  PROVE  DroppedOnce'
<1> SUFFICES ASSUME NEW i \in Item
             PROVE  dropped'[i] <= 1 /\ (dropped'[i] = 1 => strong'[home'[i]] = 0)
  BY DEF DroppedOnce
<1>a. TypeOK /\ RefCounts /\ dropped \in [Item -> Nat]
  BY DEF IInv, Structure, TypeOK
<1>1. CASE dropped'[i] = dropped[i]
  <2>1. dropped[i] <= 1 /\ (dropped[i] = 1 => strong[home[i]] = 0)
    BY DEF DroppedOnce
  <2>2. ASSUME dropped[i] = 1 PROVE strong'[home'[i]] = 0
    <3>1. home[i] # None
      BY <2>2 DEF IInv, Queued
    <3>2. home'[i] = home[i] /\ home[i] \in Arena /\ Born(home[i]) /\ ~Building(home[i])
      BY <1>a, <3>1, Lasting, HomeComplete
    <3>3. strongs[home[i]] = {}
      BY <1>a, <2>1, <2>2, <3>2, Zeros
    <3> QED BY <3>2, <3>3, StaysWithout, ZerosAfter
  <2> QED BY <1>1, <2>1, <2>2
<1>2. ASSUME NEW t \in Thread, ExecNext(t), dropped'[i] # dropped[i]
      PROVE  dropped'[i] = 1 /\ strong'[home'[i]] = 0
  <2>1. PICK j \in Item : /\ home[j] \in Arena /\ dropped[j] = 0 /\ strongs[home[j]] = {}
                          /\ dropped' = [dropped EXCEPT ![j] = @ + 1]
    BY <1>2, DropsTheDead
  <2>2. i = j /\ dropped'[i] = 1
    BY <1>a, <1>2, <2>1
  <2>3. home[i] # None
    BY <2>1, <2>2, ArenaAssumption
  <2>4. home'[i] = home[i] /\ Born(home[i]) /\ ~Building(home[i])
    BY <1>a, <2>3, Lasting, HomeComplete
  <2>5. strongs'[home[i]] = {}
    BY <2>1, <2>2, <2>4, StaysWithout
  <2> QED BY <2>1, <2>2, <2>4, <2>5, ZerosAfter
<1>3. (\E t \in Thread : ExecNext(t)) \/ dropped' = dropped
  <2>1. CASE Births
    BY <2>1 DEF Births, ArenaNew, NewFails, NewDone, items
  <2>2. CASE Handling \/ Uploading \/ Storing \/ UNCHANGED vars
    BY <2>2, HandlingLeaves, UploadingLeaves, StoringLeaves DEF items, vars
  <2>3. CASE Walking
    BY <2>3 DEF Walking, ExecDone, UserReturn, Unwind, items
  <2> QED BY <2>1, <2>2, <2>3, Kinds
<1> QED BY <1>1, <1>2, <1>3

\* A drop function runs at most once, and never while a strong handle on the
\* item's arena exists: reclaimed or not, nobody can then reach the item.
THEOREM DroppedAtMostOnce == Spec => []DroppedOnce
<1>1. Init => DroppedOnce
  BY DEF Init, DroppedOnce
<1>2. IInv /\ DroppedOnce /\ [Next]_vars => DroppedOnce'
  BY DroppedOnceKeeps
<1> QED BY <1>1, <1>2, Invariance, PTL DEF Spec

\* Nobody gets a strong handle on a dead arena again (WeakArena::arena,
\* arena.rs:413): the drop functions that are running, or have run, saw the last
\* of it.
THEOREM DeadStayDead == Spec => NoResurrection
<1>1. ASSUME IInv, [Next]_vars, NEW a \in Arena, Dead(a) PROVE strong'[a] = 0
  <2>1. TypeOK /\ RefCounts /\ Born(a) /\ strong[a] = 0 /\ ~At(Owner[a], "new")
    BY <1>1 DEF Dead, IInv, Structure
  <2>2. ~Building(a)
    <3> SUFFICES ASSUME stack[Owner[a]] = <<Frame("new", a, None)>> PROVE At(Owner[a], "new")
      BY <2>1 DEF Building
    <3>1. \A x : <<x>> # <<>> /\ Last(<<x>>) = x
      BY DEF Last
    <3>2. ~Idle(Owner[a]) /\ Last(stack[Owner[a]]) = Frame("new", a, None)
      BY <3>1 DEF Idle
    <3> QED BY <3>2 DEF At, Frame
  <2>3. strongs[a] = {}
    BY <2>1, Zeros
  <2>4. strongs'[a] = {}
    BY <1>1, <2>1, <2>2, <2>3, StaysWithout
  <2> QED BY <1>1, <2>4, ZerosAfter
<1>2. IInv /\ [Next]_vars => [\A a \in Arena : Dead(a) => strong'[a] = 0]_vars
  BY <1>1
<1> QED BY <1>2, Invariance, PTL DEF Spec, NoResurrection

\* An item that keeps a strong handle on its own arena is never dropped, nor is
\* the handle: the arena lives for ever (arena.rs:281-283).
THEOREM CyclesLive == Spec => CycleKeepsAlive
<1> DEFINE Cycle(i) == /\ home[i] # None /\ dropped[i] = 0
                       /\ inside[i] \cap strongs[home[i]] # {}
           Stays(i) == inside'[i] = inside[i] /\ dropped'[i] = 0 /\ strong'[home[i]] > 0
<1>1. ASSUME IInv, [Next]_vars, NEW i \in Item, Cycle(i) PROVE Stays(i)
  <2>a. /\ TypeOK /\ HandlesApart /\ home[i] \in Arena /\ Born(home[i]) /\ ~Building(home[i])
        /\ strongs \in [Arena -> SUBSET Handle] /\ weaks \in [Arena -> SUBSET Handle]
        /\ inside \in [Item -> SUBSET Handle] /\ dropped \in [Item -> Nat]
    BY <1>1, HomeComplete DEF IInv, Structure, TypeOK
  <2>1. PICK x \in Handle : x \in inside[i] /\ x \in strongs[home[i]]
    BY <1>1, <2>a
  <2>2. dropped[i] = 0 /\ home[i] # None
    BY <1>1
  <2>u. ASSUME NEW t \in Thread, Using(t) \/ At(t, "user") \/ At(t, "unwind")
        PROVE  /\ User(t) \in Item /\ User(t) # i
               /\ inside[User(t)] \cap inside[i] = {}
    <3>1. User(t) \in Item /\ dropped[User(t)] > 0
      BY <1>1, <2>u, DropsOwn DEF Using
    <3>2. User(t) # i
      BY <2>2, <3>1
    <3> QED BY <2>a, <3>1, <3>2 DEF HandlesApart
  <2>3. inside'[i] = inside[i] /\ x \in strongs'[home[i]]
    <3>1. CASE UNCHANGED <<inside, strongs>>
      BY <2>1, <3>1
    <3>2. ASSUME NEW t \in Thread, NEW h \in Handle, NewDone(t, h)
          PROVE  inside'[i] = inside[i] /\ x \in strongs'[home[i]]
      <4>1. PICK b \in Arena : Last(stack[t]).arena = b /\ Building(b)
        BY <1>1, <3>2, Builds DEF NewDone
      <4>2. b # home[i] /\ strongs' = [strongs EXCEPT ![b] = {h}] /\ inside' = inside
        BY <2>a, <3>2, <4>1 DEF NewDone
      <4> QED BY <2>1, <2>a, <4>2
    <3>3. ASSUME NEW b \in Arena, NEW h \in Handle, NEW new \in Handle, Gains(b, h, new)
          PROVE  inside'[i] = inside[i] /\ x \in strongs'[home[i]]
      <4>1. inside'[i] = inside[i]
        <5>1. Idle(Owner[b]) \/ Using(Owner[b])
          BY <1>1, <3>3, HoldersAsk DEF Gains
        <5>2. Owner[b] \in Thread
          BY ArenaAssumption
        <5>3. CASE Idle(Owner[b])
          BY <3>3, <5>3 DEF Gains, KeepsNew
        <5>4. CASE ~Idle(Owner[b])
          <6>1. User(Owner[b]) # i
            BY <2>u, <5>1, <5>2, <5>4
          <6>2. inside' = [inside EXCEPT ![User(Owner[b])] = @ \cup {new}]
            BY <3>3, <5>4 DEF Gains, KeepsNew
          <6> QED BY <2>a, <6>1, <6>2
        <5> QED BY <5>3, <5>4
      <4>2. strongs' = strongs \/ strongs' = [strongs EXCEPT ![b] = @ \cup {new}]
        BY <3>3 DEF Gains
      <4> QED BY <2>1, <2>a, <4>1, <4>2
    <3>4. ASSUME NEW t \in Thread, NEW b \in Arena, NEW h \in Handle, Loses(t, b, h)
          PROVE  inside'[i] = inside[i] /\ x \in strongs'[home[i]]
      <4>1. strongs' = strongs \/ strongs' = [strongs EXCEPT ![b] = @ \ {h}]
        BY <3>4 DEF Loses, DropStrong, DropWeak
      <4>2. CASE Idle(t) /\ h \notin Moved /\ inside' = inside
        <5>1. h # x
          BY <2>1, <4>2 DEF Moved
        <5> QED BY <2>1, <2>a, <4>1, <4>2, <5>1
      <4>3. CASE /\ ~Idle(t) /\ User(t) \in Item /\ h \in inside[User(t)]
                 /\ inside' = [inside EXCEPT ![User(t)] = @ \ {h}]
        <5>1. At(t, "user") \/ At(t, "unwind")
          BY <3>4, <4>3 DEF Loses, Asks
        <5>2. User(t) # i /\ h # x
          BY <2>1, <2>u, <4>3, <5>1
        <5> QED BY <2>1, <2>a, <4>1, <4>3, <5>2
      <4> QED BY <3>4, <4>2, <4>3 DEF Loses
    <3>5. ASSUME NEW b \in Arena, NEW h \in Handle, NEW j \in Item, NEW moved \in SUBSET Handle,
                 Upload(b, h, j, moved)
          PROVE  inside'[i] = inside[i] /\ x \in strongs'[home[i]]
      <4>1. /\ inside' = [k \in Item |-> IF k = j THEN moved ELSE inside[k] \ moved]
            /\ home[j] = None /\ strongs' = strongs /\ moved \subseteq InHand(Owner[b])
        BY <3>5 DEF Upload
      <4>2. Idle(Owner[b]) \/ Using(Owner[b])
        BY <1>1, <3>5, HoldersAsk DEF Upload
      <4>3. InHand(Owner[b]) \cap inside[i] = {}
        <5>1. CASE Idle(Owner[b])
          BY <5>1 DEF InHand, Outside, Moved
        <5>2. CASE ~Idle(Owner[b]) /\ Using(Owner[b])
          <6>1. InHand(Owner[b]) = inside[User(Owner[b])] /\ Owner[b] \in Thread
            BY <5>2, ArenaAssumption DEF InHand
          <6> QED BY <2>u, <5>2, <6>1
        <5> QED BY <4>2, <5>1, <5>2
      <4>4. i # j
        BY <2>2, <4>1
      <4>5. inside[i] \ moved = inside[i]
        BY <4>1, <4>3
      <4> QED BY <2>1, <4>1, <4>4, <4>5
    <3>6. CASE Births
      <4>1. ASSUME NEW b \in Arena, ArenaNew(b) PROVE UNCHANGED <<inside, strongs>>
        BY <4>1 DEF ArenaNew, handles
      <4>2. ASSUME NEW t \in Thread, NewFails(t) PROVE UNCHANGED <<inside, strongs>>
        BY <4>2 DEF NewFails, handles
      <4> QED BY <3>1, <3>2, <3>6, <4>1, <4>2 DEF Births
    <3>7. CASE Handling
      BY <1>1, <3>3, <3>4, <3>7, HandleSteps
    <3>8. CASE Uploading
      <4>1. ASSUME NEW b \in Arena, NEW h \in Handle, NEW j \in Item, RegisterDropFn(b, h, j)
            PROVE  UNCHANGED <<inside, strongs>>
        BY <4>1 DEF RegisterDropFn, handles
      <4> QED BY <3>1, <3>5, <3>8, <4>1 DEF Uploading
    <3>9. CASE Storing \/ Walking \/ UNCHANGED vars
      BY <3>1, <3>9, StoringLeaves, WalkingLeaves DEF handles, vars
    <3> QED BY <1>1, <3>6, <3>7, <3>8, <3>9, Kinds
  <2>4. dropped'[i] = 0
    <3>1. ASSUME NEW t \in Thread, ExecNext(t) PROVE dropped'[i] = dropped[i]
      <4>1. PICK j \in Item : /\ strongs[home[j]] = {}
                              /\ dropped' = [dropped EXCEPT ![j] = @ + 1]
        BY <1>1, <3>1, DropsTheDead
      <4>2. i # j
        BY <2>1, <4>1
      <4> QED BY <2>a, <4>1, <4>2
    <3>2. (\E t \in Thread : ExecNext(t)) \/ dropped' = dropped
      <4>1. CASE Births
        BY <4>1 DEF Births, ArenaNew, NewFails, NewDone, items
      <4>2. CASE Handling \/ Uploading \/ Storing \/ UNCHANGED vars
        BY <4>2, HandlingLeaves, UploadingLeaves, StoringLeaves DEF items, vars
      <4>3. CASE Walking
        BY <4>3 DEF Walking, ExecDone, UserReturn, Unwind, items
      <4> QED BY <1>1, <4>1, <4>2, <4>3, Kinds
    <3> QED BY <2>2, <3>1, <3>2
  <2>5. strong'[home[i]] > 0
    <3>1. strong'[home[i]] \in Nat /\ strong'[home[i]] # 0
      BY <1>1, <2>a, <2>3, ZerosAfter
    <3> QED BY <3>1
  <2> QED BY <2>3, <2>4, <2>5
<1>2. IInv /\ [Next]_vars =>
        [\A i \in Item :
           home[i] # None /\ dropped[i] = 0 /\ inside[i] \cap strongs[home[i]] # {} =>
             inside'[i] = inside[i] /\ dropped'[i] = 0 /\ strong'[home[i]] > 0]_vars
  BY <1>1
<1> QED BY <1>2, Invariance, PTL DEF Spec, CycleKeepsAlive
=============================================================================
