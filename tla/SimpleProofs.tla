----------------------------- MODULE SimpleProofs -----------------------------
(***************************************************************************)
(* Safety of agonet/simple and of the transports under it.                 *)
(*                                                                         *)
(*  - Events travel through the pipeline in its order and miss no handler, *)
(*    while any number of goroutines add handlers, for every number of     *)
(*    contexts and of goroutines that deliver.  next and prev may jump     *)
(*    over a context, but only over the one that is being added, which no  *)
(*    event has to reach.                                                  *)
(*  - The idle handler watches a connection as long as it is active, and   *)
(*    says truly which report is the first.                                *)
(*  - What a server or client speaks is what its options declare, and a    *)
(*    server that returned holds no port.                                  *)
(*  - A connection whose handler panicked is closed, or its close is under *)
(*    way.                                                                 *)
(***************************************************************************)
EXTENDS Pipeline, SimpleChannel, IdleHandler, Transport, Facts

-------------------------------------------------------------------------------
(* The pipeline *)

\* The contexts of the chain, and those both of whose neighbours know them.
Live == {First, Rear} \cup DOMAIN handler
Known == {First, Rear} \cup linked

Before(c, d) == Place(c) < Place(d)

Walk == [at : Nodes \cup {Nil, Stopped}, event : Events \cup {""}, from : Nodes \cup {Nil},
         seen : Seq(Nodes), must : SUBSET Nodes]

\* Types of all state.
PipelineType ==
    /\ handler \in Seq(DOMAIN Handlers) /\ Len(handler) <= MaxContexts
    /\ next \in [Nodes -> Nodes \cup {Nil}] /\ prev \in [Nodes -> Nodes \cup {Nil}]
    /\ adding \in [Adders -> [where : {"", "first", "last"}, ctx : Nodes, other : Nodes \cup {Nil}]]
    /\ mu \in BOOLEAN
    /\ linked \subseteq DOMAIN handler
    /\ walk \in [Walkers -> Walk]

\* Every context has one place in the order.
OrderInv ==
    /\ order \in Seq(DOMAIN handler) /\ Len(order) = Len(handler)
    /\ \A i, j \in DOMAIN order : order[i] = order[j] => i = j
    /\ \A c \in DOMAIN handler : \E i \in DOMAIN order : order[i] = c

\* No known context is between c and d.
Adjacent(c, d) == Before(c, d) /\ \A x \in Known : Before(c, x) => ~Before(x, d)

\* next leads forward to the tail and prev back to the head, over no context that
\* is known.
NextInv ==
    /\ next[Rear] = Nil
    /\ \A c \in Live \ {Rear} : \E m \in Live : next[c] = m /\ Adjacent(c, m)
PrevInv ==
    /\ prev[First] = Nil
    /\ \A c \in Live \ {First} : \E m \in Live : prev[c] = m /\ Adjacent(m, c)

\* p is at the beginning of the chain, and only its successor does not know it;
\* or at the end, and only its predecessor does not.
AtFirst(p) ==
    /\ next[First] = p.ctx /\ prev[p.ctx] = First /\ p.other = next[p.ctx]
    /\ \A d \in Live : d \notin {First, p.ctx} => Before(p.ctx, d)
AtLast(p) ==
    /\ prev[Rear] = p.ctx /\ next[p.ctx] = Rear /\ p.other = prev[p.ctx]
    /\ \A d \in Live : d \notin {Rear, p.ctx} => Before(d, p.ctx)

\* At most one goroutine is adding, it holds the mutex, and all contexts but its
\* own are known.
AddInv ==
    /\ \A a, b \in Adders : adding[a] # NotAdding /\ adding[b] # NotAdding => a = b
    /\ \A a \in Adders : adding[a] # NotAdding =>
          /\ mu /\ adding[a].ctx \in DOMAIN handler
          /\ linked = DOMAIN handler \ {adding[a].ctx}
          /\ IF adding[a].where = "first" THEN AtFirst(adding[a]) ELSE AtLast(adding[a])
    /\ (\A a \in Adders : adding[a] = NotAdding) => linked = DOMAIN handler

\* A delivery under way has passed what it has reached, and what it must still
\* reach is ahead of it.
OnTheWay(k) ==
    /\ k.at \in Live \cup {Nil} /\ k.event \in Events
    /\ k.seen \in Seq(Live) /\ k.must \subseteq Known
    /\ \A i, j \in DOMAIN k.seen : i < j => Ahead(k.event, k.seen[i], k.seen[j])
    /\ k.at # Nil => \A i \in DOMAIN k.seen : k.seen[i] = k.at \/ Ahead(k.event, k.seen[i], k.at)
    /\ \A m \in k.must :
          /\ k.event \in Casts(m)
          /\ m \in Range(k.seen) \/ (k.at # Nil /\ Ahead(k.event, k.at, m))

WalkInv == \A w \in Walkers : walk[w].at # Stopped => OnTheWay(walk[w])

PipelineInv == PipelineType /\ OrderInv /\ NextInv /\ PrevInv /\ AddInv /\ WalkInv

-------------------------------------------------------------------------------
(* Places *)

\* Every context stands in one place, between the head and the tail.
PlaceOK ==
    /\ Place(First) = 0 /\ Place(Rear) = MaxContexts + 1
    /\ \A c \in DOMAIN handler : Place(c) \in 1..Len(handler) /\ order[Place(c)] = c
    /\ \A c, d \in Live : Place(c) = Place(d) => c = d

\* The nodes are numbers: the head, the contexts, the tail.
NodeOK ==
    /\ Len(handler) \in Nat /\ DOMAIN handler = 1..Len(handler)
    /\ First \notin DOMAIN handler /\ Rear \notin DOMAIN handler /\ First # Rear
    /\ Live \subseteq Nodes /\ Nil \notin Nodes /\ Stopped \notin Nodes

\* The end nodes are not contexts, and neither Nil nor Stopped is a node.
LEMMA NodeFacts == PipelineType => NodeOK
<1> SUFFICES ASSUME PipelineType PROVE NodeOK
  OBVIOUS
<1>1. handler \in Seq(DOMAIN Handlers) /\ Len(handler) <= MaxContexts
  BY DEF PipelineType
<1>2. Len(handler) \in Nat /\ DOMAIN handler = 1..Len(handler)
  BY <1>1
<1> QED BY <1>1, <1>2, PipelineAssumption DEF NodeOK, First, Rear, Live, Nodes, Nil, Stopped

\* Place is what its name says: the one position of a context in the order.
LEMMA PlaceIs == PipelineType /\ OrderInv => PlaceOK
<1> SUFFICES ASSUME PipelineType, OrderInv PROVE PlaceOK
  OBVIOUS
<1>1. DOMAIN handler = 1..Len(handler) /\ First \notin DOMAIN handler /\ Rear \notin DOMAIN handler
      /\ First # Rear /\ Len(handler) \in Nat /\ Len(handler) <= MaxContexts
  BY NodeFacts DEF NodeOK, PipelineType
<1>2. Place(First) = 0 /\ Place(Rear) = MaxContexts + 1
  BY DEF Place, First, Rear
<1>3. DOMAIN order = 1..Len(handler)
  BY DEF OrderInv
<1>4. ASSUME NEW c \in DOMAIN handler PROVE Place(c) \in 1..Len(handler) /\ order[Place(c)] = c
  <2>1. \E i \in DOMAIN order : order[i] = c
    BY DEF OrderInv
  <2>2. Place(c) = CHOOSE i \in DOMAIN order : order[i] = c
    BY <1>1 DEF Place
  <2> QED BY <1>3, <2>1, <2>2
<1>5. ASSUME NEW c \in Live, NEW d \in Live, Place(c) = Place(d) PROVE c = d
  BY <1>1, <1>2, <1>4, <1>5, PipelineAssumption DEF Live
<1> QED BY <1>2, <1>4, <1>5 DEF PlaceOK

\* The same after a step.
LEMMA PlaceIsAfter == PipelineType' /\ OrderInv' => PlaceOK'
BY PlaceIs, PTL

\* What happens to the places while a context is added: those of the others
\* keep their order.
OrderKept ==
    /\ Known \subseteq Live /\ Live \subseteq Live' /\ Known \subseteq Known'
    /\ \A c \in Live : (Place(c) \in Int)
    /\ \A c \in Live : (Place(c) \in Int)'
    /\ \A c, d \in Live : (Place(c) < Place(d))' <=> Place(c) < Place(d)
    /\ \A c \in Live : \A e \in Events : (e \in Casts(c))' <=> e \in Casts(c)

\* A delivery under way is not disturbed by what is added.
LEMMA WalkKept ==
    ASSUME WalkInv, OrderKept, UNCHANGED walk
    PROVE  WalkInv'
<1> SUFFICES ASSUME NEW w \in Walkers, walk[w].at # Stopped PROVE OnTheWay(walk[w])'
  BY DEF WalkInv
<1>0. PICK k : k = walk[w]
  OBVIOUS
<1>1. OnTheWay(k) /\ walk[w] = k /\ walk'[w] = k
  BY <1>0 DEF WalkInv
<1>2. \A c, d \in Live : \A e \in Events : Ahead(e, c, d)' <=> Ahead(e, c, d)
  BY DEF OrderKept, Ahead, Forward
<1>3. k.at \in Live \cup {Nil} /\ k.event \in Events /\ k.seen \in Seq(Live) /\ k.must \subseteq Live
  BY <1>1 DEF OnTheWay, OrderKept
<1>4. \A i \in DOMAIN k.seen : k.seen[i] \in Live
  BY <1>3
<1>5. k.at \in Live' \cup {Nil} /\ k.seen \in Seq(Live') /\ k.must \subseteq Known'
  <2>1. k.seen \in Seq(Live')
    BY <1>3 DEF OrderKept
  <2> QED BY <1>1, <1>3, <2>1 DEF OnTheWay, OrderKept
<1>6. ASSUME NEW i \in DOMAIN k.seen, NEW j \in DOMAIN k.seen, i < j
      PROVE  Ahead(k.event, k.seen[i], k.seen[j])'
  BY <1>1, <1>2, <1>3, <1>4, <1>6 DEF OnTheWay
<1>7. ASSUME k.at # Nil, NEW i \in DOMAIN k.seen
      PROVE  k.seen[i] = k.at \/ Ahead(k.event, k.seen[i], k.at)'
  BY <1>1, <1>2, <1>3, <1>4, <1>7 DEF OnTheWay
<1>8. ASSUME NEW m \in k.must
      PROVE  /\ (k.event \in Casts(m))'
             /\ m \in Range(k.seen) \/ (k.at # Nil /\ Ahead(k.event, k.at, m)')
  <2>1. (k.event \in Casts(m))'
    BY <1>1, <1>3, <1>8 DEF OnTheWay, OrderKept
  <2> QED BY <1>1, <1>2, <1>3, <2>1 DEF OnTheWay
<1> QED BY <1>1, <1>3, <1>5, <1>6, <1>7, <1>8 DEF OnTheWay

-------------------------------------------------------------------------------
(* Adding *)

\* A new chain has a head and a tail.
LEMMA PipelineBoot == PipelineInit => PipelineInv
<1> SUFFICES ASSUME PipelineInit PROVE PipelineInv
  OBVIOUS
<1>0. Idle \in Walk /\ NotAdding \in [where : {"", "first", "last"}, ctx : Nodes, other : Nodes \cup {Nil}]
  <2>1. 0 \in Nodes
    BY PipelineAssumption DEF Nodes
  <2> QED BY <2>1 DEF Idle, Walk, NotAdding
<1> USE PipelineAssumption DEF PipelineInit, First, Rear, Nil, Stopped, Nodes
<1>1. PipelineType
  <2>1. handler \in Seq(DOMAIN Handlers) /\ Len(handler) <= MaxContexts /\ linked \subseteq DOMAIN handler
    OBVIOUS
  <2>2. next \in [Nodes -> Nodes \cup {Nil}] /\ prev \in [Nodes -> Nodes \cup {Nil}]
    OBVIOUS
  <2>3. adding \in [Adders -> [where : {"", "first", "last"}, ctx : Nodes, other : Nodes \cup {Nil}]]
    BY <1>0
  <2>4. walk \in [Walkers -> Walk]
    BY <1>0
  <2>5. mu \in BOOLEAN
    OBVIOUS
  <2> QED BY <2>1, <2>2, <2>3, <2>4, <2>5 DEF PipelineType
<1>2. OrderInv
  BY DEF OrderInv
<1>3. Live = {First, Rear} /\ Known = {First, Rear}
  BY DEF Live, Known
<1>4. Place(First) = 0 /\ Place(Rear) = MaxContexts + 1
  BY DEF Place
<1>5. NextInv /\ PrevInv
  <2>1. Adjacent(First, Rear)
    BY <1>3, <1>4 DEF Adjacent, Before
  <2>2. next[First] = Rear /\ next[Rear] = Nil /\ prev[Rear] = First /\ prev[First] = Nil
    OBVIOUS
  <2> QED BY <1>3, <2>1, <2>2 DEF NextInv, PrevInv
<1>6. AddInv
  <2>1. linked = DOMAIN handler /\ \A a \in Adders : adding[a] = NotAdding
    OBVIOUS
  <2> QED BY <2>1 DEF AddInv
<1>7. WalkInv
  BY DEF WalkInv, Idle
<1> QED BY <1>1, <1>2, <1>5, <1>6, <1>7 DEF PipelineInv

\* What both additions have in common: the new context is the next number, and
\* every other one is known.
Fresh ==
    /\ New \in Contexts /\ New \notin Live /\ New # First /\ New # Rear
    /\ linked = DOMAIN handler
    /\ \A a \in Adders : adding[a] = NotAdding

\* Who gets the mutex finds every context known.
LEMMA AddsFresh ==
    ASSUME PipelineInv, ~mu, Len(handler) < MaxContexts
    PROVE  Fresh
<1>1. Len(handler) \in Nat /\ DOMAIN handler = 1..Len(handler)
  BY NodeFacts DEF NodeOK, PipelineInv
<1>2. \A a \in Adders : adding[a] = NotAdding
  BY DEF PipelineInv, AddInv
<1>3. linked = DOMAIN handler
  BY <1>2 DEF PipelineInv, AddInv
<1> QED BY <1>1, <1>2, <1>3, PipelineAssumption DEF Fresh, New, Contexts, Live, First, Rear

\* addFirst moves every context one place back and takes the first.
LEMMA AddFirstPlaces ==
    ASSUME PipelineInv, NEW a \in Adders, NEW h \in DOMAIN Handlers, AddFirst(a, h),
           NEW n, n = New
    PROVE  /\ PipelineType' /\ OrderInv' /\ OrderKept
           /\ Place(n)' = 1 /\ \A c \in DOMAIN handler : Place(c)' = Place(c) + 1
<1>1. Len(handler) \in Nat /\ DOMAIN handler = 1..Len(handler) /\ Live \subseteq Nodes
  BY NodeFacts DEF NodeOK, PipelineInv
<1>2. Fresh /\ Len(handler) < MaxContexts
  BY AddsFresh DEF AddFirst, Lock
<1>3. Len(handler') = New /\ DOMAIN handler' = 1..New /\ handler' \in Seq(DOMAIN Handlers)
      /\ (\A c \in DOMAIN handler : handler'[c] = handler[c])
  <2>1. handler \in Seq(DOMAIN Handlers) /\ handler' = Append(handler, h)
    BY DEF AddFirst, PipelineInv, PipelineType
  <2> QED BY <1>1, <2>1 DEF New
<1>4. PipelineType'
  <2>1. next[First] \in Nodes \cup {Nil} /\ New \in Nodes /\ First \in Nodes
    <3>1. New \in Nodes /\ First \in Nodes
      BY <1>2, PipelineAssumption DEF Fresh, Contexts, Nodes, First
    <3> QED BY <3>1 DEF PipelineInv, PipelineType
  <2>2. next' \in [Nodes -> Nodes \cup {Nil}] /\ prev' \in [Nodes -> Nodes \cup {Nil}]
    BY <2>1 DEF AddFirst, PipelineInv, PipelineType
  <2>3. adding' \in [Adders -> [where : {"", "first", "last"}, ctx : Nodes, other : Nodes \cup {Nil}]]
    BY <2>1 DEF AddFirst, PipelineInv, PipelineType
  <2>4. linked' \subseteq DOMAIN handler' /\ Len(handler') <= MaxContexts
    <3>1. linked' \subseteq DOMAIN handler
      BY DEF AddFirst, PipelineInv, PipelineType
    <3> QED BY <3>1, <1>1, <1>2, <1>3, PipelineAssumption DEF New
  <2>5. mu' \in BOOLEAN /\ walk' \in [Walkers -> Walk]
    BY DEF AddFirst, Lock, PipelineInv, PipelineType
  <2> QED BY <1>3, <2>2, <2>3, <2>4, <2>5 DEF PipelineType
<1>5. Len(order) = Len(handler) /\ order \in Seq(DOMAIN handler') /\ <<New>> \in Seq(DOMAIN handler')
  <2>1. order \in Seq(DOMAIN handler) /\ DOMAIN handler \subseteq DOMAIN handler'
    BY <1>1, <1>3 DEF PipelineInv, OrderInv, New
  <2>2. New \in DOMAIN handler'
    BY <1>1, <1>3 DEF New
  <2> QED BY <2>1, <2>2, SMTT(20) DEF PipelineInv, OrderInv
<1>6. /\ order' \in Seq(DOMAIN handler') /\ Len(order') = New /\ order'[1] = New
      /\ \A i \in 1..Len(handler) : order'[i + 1] = order[i]
  <2>1. New \in DOMAIN handler' /\ order' = <<New>> \o order
    BY <1>1, <1>3 DEF AddFirst, New
  <2>2. Len(order') = Len(order) + 1
    BY <2>1, <1>5, Prepended
  <2> QED BY <2>1, <2>2, <1>1, <1>5, Prepended DEF New
<1>7. OrderInv'
  <2>1. ASSUME NEW i \in 1..New PROVE order'[i] = IF i = 1 THEN New ELSE order[i - 1]
    <3>1. CASE i = 1
      BY <3>1, <1>6
    <3>2. CASE i # 1
      <4>1. i - 1 \in 1..Len(handler) /\ (i - 1) + 1 = i
        BY <3>2, <1>1 DEF New
      <4> QED BY <3>2, <4>1, <1>6
    <3> QED BY <3>1, <3>2
  <2>2. ASSUME NEW i \in 1..Len(handler) PROVE order[i] \in DOMAIN handler /\ order[i] # New
    BY <1>1, <1>2 DEF PipelineInv, OrderInv, Fresh, Live
  <2>3. ASSUME NEW i \in 1..New, NEW j \in 1..New, order'[i] = order'[j] PROVE i = j
    <3>1. i = 1 \/ i - 1 \in 1..Len(handler)
      BY <1>1 DEF New
    <3>2. j = 1 \/ j - 1 \in 1..Len(handler)
      BY <1>1 DEF New
    <3>3. \A x, y \in 1..Len(handler) : order[x] = order[y] => x = y
      <4>1. OrderInv /\ DOMAIN order = 1..Len(handler)
        BY DEF PipelineInv, OrderInv
      <4> QED BY <4>1 DEF OrderInv
    <3>4. CASE i # 1 /\ j # 1
      <4>1. order[i - 1] = order[j - 1]
        BY <2>1, <2>3, <3>4
      <4>2. i - 1 = j - 1
        BY <3>1, <3>2, <3>3, <3>4, <4>1
      <4> QED BY <4>2
    <3> QED BY <2>1, <2>2, <2>3, <3>1, <3>2, <3>4
  <2>4. ASSUME NEW c \in DOMAIN handler' PROVE \E i \in 1..New : order'[i] = c
    <3>1. CASE c = New
      BY <3>1, <1>6, <1>1 DEF New
    <3>2. CASE c # New
      <4>0. c \in DOMAIN handler
        BY <3>2, <1>1, <1>3 DEF New
      <4>1. PICK i \in 1..Len(handler) : order[i] = c
        <5>1. OrderInv /\ DOMAIN order = 1..Len(handler)
          BY DEF PipelineInv, OrderInv
        <5> QED BY <4>0, <5>1 DEF OrderInv
      <4>2. order'[i + 1] = c /\ i + 1 \in 1..New
        BY <4>1, <1>6, <1>1 DEF New
      <4> QED BY <4>2
    <3> QED BY <3>1, <3>2
  <2>5. DOMAIN order' = 1..New
    BY <1>6
  <2> QED BY <2>3, <2>4, <2>5, <1>3, <1>6 DEF OrderInv
<1>8. PlaceOK /\ PlaceOK'
  BY <1>4, <1>7, PlaceIs, PlaceIsAfter DEF PipelineInv
<1>9. Place(n)' = 1
  <2>1. n \in DOMAIN handler' /\ (Place(n) \in 1..Len(handler))' /\ (order[Place(n)] = n)'
    BY <1>1, <1>3, <1>8 DEF PlaceOK, New
  <2>2. order'[1] = order'[Place(n)'] /\ 1 \in DOMAIN order' /\ Place(n)' \in DOMAIN order'
    BY <2>1, <1>1, <1>3, <1>6 DEF New
  <2> QED BY <2>2, <1>7 DEF OrderInv
<1>10. ASSUME NEW c \in DOMAIN handler PROVE Place(c)' = Place(c) + 1
  <2>1. c \in DOMAIN handler' /\ (Place(c) \in 1..Len(handler))' /\ (order[Place(c)] = c)'
    BY <1>1, <1>3, <1>8 DEF PlaceOK, New
  <2>2. Place(c) \in 1..Len(handler) /\ order[Place(c)] = c
    BY <1>8 DEF PlaceOK
  <2>3. order'[Place(c) + 1] = order'[Place(c)'] /\ Place(c) + 1 \in DOMAIN order' /\ Place(c)' \in DOMAIN order'
    BY <2>1, <2>2, <1>1, <1>3, <1>6 DEF New
  <2> QED BY <2>3, <1>7 DEF OrderInv
<1>11. OrderKept
  <2>1. /\ Place(First) = 0 /\ Place(Rear) = MaxContexts + 1
        /\ Place(First)' = 0 /\ Place(Rear)' = MaxContexts + 1
        /\ \A c \in DOMAIN handler : Place(c) \in 1..Len(handler)
    BY <1>8 DEF PlaceOK, First, Rear
  <2>2. ASSUME NEW c \in Live PROVE Place(c) \in Int /\ Place(c)' \in Int
    BY <2>1, <1>1, <1>10, PipelineAssumption DEF Live
  <2>3. ASSUME NEW c \in Live, NEW d \in Live PROVE (Place(c) < Place(d))' <=> Place(c) < Place(d)
    <3>1. Len(handler) \in Nat /\ Len(handler) < MaxContexts /\ MaxContexts \in Nat
      BY <1>1, <1>2, PipelineAssumption
    <3>2. ASSUME NEW x \in Live
          PROVE  \/ x = First /\ Place(x) = 0 /\ Place(x)' = 0
                 \/ x = Rear /\ Place(x) = MaxContexts + 1 /\ Place(x)' = MaxContexts + 1
                 \/ Place(x) \in 1..Len(handler) /\ Place(x)' = Place(x) + 1
      BY <2>1, <1>10 DEF Live
    <3> QED BY <3>1, <3>2
  <2>4. Known \subseteq Live /\ Live \subseteq Live' /\ Known \subseteq Known'
    BY <1>1, <1>2, <1>3 DEF Known, Live, AddFirst, Fresh, New, First, Rear
  <2>5. ASSUME NEW c \in Live, NEW e \in Events PROVE (e \in Casts(c))' <=> e \in Casts(c)
    BY <1>3 DEF Casts, Live, EndCasts, First, Rear
  <2> QED BY <2>2, <2>3, <2>4, <2>5 DEF OrderKept
<1> QED BY <1>4, <1>7, <1>9, <1>10, <1>11

\* addFirst up to its first store: what follows the head follows the new context.
LEMMA AddFirstKeeps ==
    ASSUME PipelineInv, NEW a \in Adders, NEW h \in DOMAIN Handlers, AddFirst(a, h)
    PROVE  PipelineInv'
<1>0. PICK n : n = New
  OBVIOUS
<1>1. Len(handler) \in Nat /\ DOMAIN handler = 1..Len(handler) /\ Live \subseteq Nodes
      /\ First \notin DOMAIN handler /\ Rear \notin DOMAIN handler /\ First # Rear
  BY NodeFacts DEF NodeOK, PipelineInv
<1>2. Fresh
  BY AddsFresh DEF AddFirst, Lock
<1>3. PipelineType' /\ OrderInv' /\ OrderKept
      /\ Place(n)' = 1 /\ (\A c \in DOMAIN handler : Place(c)' = Place(c) + 1)
  BY <1>0, AddFirstPlaces
<1>4. PlaceOK /\ PlaceOK'
  BY <1>3, PlaceIs, PlaceIsAfter DEF PipelineInv
<1>5. n \notin Live /\ n \in Nodes /\ n # First /\ n # Rear /\ First \in Nodes
  BY <1>0, <1>2, PipelineAssumption DEF Fresh, Contexts, Nodes, First
<1>6. Live' = Live \cup {n} /\ Known' = Known /\ Known = Live
  <2>1. DOMAIN handler' = DOMAIN handler \cup {n}
    <3>1. handler \in Seq(DOMAIN Handlers) /\ handler' = Append(handler, h)
      BY DEF AddFirst, PipelineInv, PipelineType
    <3>2. DOMAIN handler' = 1..(Len(handler) + 1)
      BY <3>1
    <3> QED BY <3>2, <1>0, <1>1 DEF New
  <2> QED BY <2>1, <1>2 DEF Live, Known, Fresh, AddFirst, First, Rear
<1>7. /\ next'[n] = next[First] /\ next'[First] = n
      /\ \A c \in Live : c # First => next'[c] = next[c]
  BY <1>0, <1>1, <1>5 DEF AddFirst, PipelineInv, PipelineType
<1>8. prev'[n] = First /\ \A c \in Live : prev'[c] = prev[c]
  BY <1>0, <1>1, <1>5 DEF AddFirst, PipelineInv, PipelineType
<1>9. /\ Place(First) = 0 /\ Place(Rear) = MaxContexts + 1
      /\ Place(First)' = 0 /\ Place(Rear)' = MaxContexts + 1
      /\ \A c \in DOMAIN handler : Place(c) \in 1..Len(handler)
  BY <1>4 DEF PlaceOK, First, Rear
<1>10. /\ \A c \in Live : Place(c) \in Int /\ Place(c)' \in Int
       /\ \A c, d \in Live : (Place(c) < Place(d))' <=> Place(c) < Place(d)
  BY <1>3 DEF OrderKept
<1>11. \A d \in Live : d # First => (Place(d) > 0 /\ Place(d)' > 1)
  BY <1>1, <1>3, <1>9, <1>2, PipelineAssumption DEF Live, Fresh, Contexts
<1>12. NextInv'
  <2>1. Rear \in Live /\ First \in Live /\ next[Rear] = Nil
    BY DEF Live, PipelineInv, NextInv
  <2>2. next'[Rear] = Nil
    BY <2>1, <1>1, <1>7
  <2>3. ASSUME NEW c \in Live \ {Rear}
        PROVE  /\ next[c] \in Live /\ Place(c) < Place(next[c])
               /\ \A d \in Live : Place(c) < Place(d) => ~(Place(d) < Place(next[c]))
    <3>1. PICK m \in Live : next[c] = m /\ Adjacent(c, m)
      BY DEF PipelineInv, NextInv
    <3> QED BY <3>1, <1>6 DEF Adjacent, Before
  <2>4. ASSUME NEW c \in Live' \ {Rear}
        PROVE  \E m \in Live' : /\ m = next'[c] /\ (Place(c) < Place(m))'
                                /\ \A d \in Live : (Place(c) < Place(d))' => ~(Place(d) < Place(m))'
    <3>1. CASE c = First
      BY <3>1, <1>3, <1>6, <1>7, <1>9, <1>10, <1>11
    <3>2. CASE c = n
      <4>1. next[First] \in Live /\ First # Rear
        BY <2>1, <2>3, <1>1
      <4>2. PICK m \in Live : m = next[First]
        BY <4>1
      <4>3. Place(m)' > 1 /\ m # First
        BY <4>1, <4>2, <2>1, <2>3, <1>9, <1>11
      <4>4. ASSUME NEW d \in Live, (Place(n) < Place(d))' PROVE ~(Place(d) < Place(m))'
        <5>1. d # First
          BY <4>4, <1>3, <1>9
        <5>2. ~(Place(d) < Place(m))
          BY <5>1, <4>2, <2>1, <2>3, <1>1, <1>9, <1>11
        <5> QED BY <5>2, <1>10
      <4> QED BY <3>2, <4>2, <4>3, <4>4, <1>3, <1>6, <1>7
    <3>3. CASE c \in Live /\ c # First
      <4>1. next[c] \in Live /\ c # Rear
        BY <2>3, <3>3
      <4>2. PICK m \in Live : m = next[c]
        BY <4>1
      <4>3. Place(c) < Place(m) /\ \A d \in Live : Place(c) < Place(d) => ~(Place(d) < Place(m))
        BY <2>3, <3>3, <4>1, <4>2
      <4> QED BY <3>3, <4>2, <4>3, <1>6, <1>7, <1>10
    <3> QED BY <3>1, <3>2, <3>3, <1>6
  <2>5. ASSUME NEW c \in Live' \ {Rear} PROVE \E m \in Live' : m = next'[c] /\ Adjacent(c, m)'
    BY <2>4, <1>6 DEF Adjacent, Before
  <2> QED BY <2>2, <2>5 DEF NextInv, Rear
<1>13. PrevInv'
  <2>1. Rear \in Live /\ First \in Live /\ prev[First] = Nil
    BY DEF Live, PipelineInv, PrevInv
  <2>2. prev'[First] = Nil
    BY <2>1, <1>8
  <2>3. ASSUME NEW c \in Live' \ {First} PROVE \E m \in Live' : m = prev'[c] /\ Adjacent(m, c)'
    <3>1. CASE c = n
      <4>1. \A x \in Live : ~(Place(First) < Place(x) /\ Place(x) < Place(n))'
        BY <1>3, <1>9, <1>10, <1>11
      <4> QED BY <3>1, <4>1, <2>1, <1>3, <1>6, <1>8, <1>9 DEF Adjacent, Before
    <3>2. CASE c \in Live
      <4>1. PICK m \in Live : prev[c] = m /\ Adjacent(m, c)
        BY <3>2 DEF PipelineInv, PrevInv
      <4>2. Adjacent(m, c)'
        BY <4>1, <3>2, <1>6, <1>10 DEF Adjacent, Before
      <4> QED BY <4>1, <4>2, <3>2, <1>6, <1>8
    <3> QED BY <3>1, <3>2, <1>6
  <2> QED BY <2>2, <2>3 DEF PrevInv
<1>14. AddInv'
  <2>1. \A b \in Adders : adding[b] = NotAdding
    BY <1>2 DEF Fresh
  <2>2. adding' = [adding EXCEPT ![a] = [where |-> "first", ctx |-> n, other |-> next[First]]]
    BY <1>0 DEF AddFirst
  <2>3. adding'[a] = [where |-> "first", ctx |-> n, other |-> next[First]]
        /\ \A b \in Adders : b # a => adding'[b] = NotAdding
    BY <2>1, <2>2 DEF PipelineInv, PipelineType
  <2>4. adding'[a] # NotAdding
    <3>1. adding'[a].where = "first"
      BY <2>3
    <3>2. NotAdding.where = ""
      BY DEF NotAdding
    <3> QED BY <3>1, <3>2
  <2>5. mu' = TRUE /\ n \in DOMAIN handler' /\ linked' = DOMAIN handler' \ {n}
    BY <1>1, <1>2, <1>5, <1>6 DEF AddFirst, Lock, Live, Fresh, Known
  <2>6. \A d \in Live' : d \notin {First, n} => Before(n, d)'
    BY <1>3, <1>6, <1>11 DEF Before
  <2>7. AtFirst(adding[a])'
    <3>1. PICK p : p = adding'[a]
      OBVIOUS
    <3>2. p.ctx = n /\ p.other = next[First]
      BY <3>1, <2>3
    <3> QED BY <3>1, <3>2, <2>6, <1>7, <1>8 DEF AtFirst
  <2> QED BY <2>3, <2>4, <2>5, <2>7 DEF AddInv
<1>15. WalkInv'
  BY <1>3, WalkKept DEF PipelineInv, AddFirst
<1> QED BY <1>3, <1>12, <1>13, <1>14, <1>15 DEF PipelineInv

\* addLast takes the place behind all contexts.
LEMMA AddLastPlaces ==
    ASSUME PipelineInv, NEW a \in Adders, NEW h \in DOMAIN Handlers, AddLast(a, h),
           NEW n, n = New
    PROVE  /\ PipelineType' /\ OrderInv' /\ OrderKept
           /\ Place(n)' = n /\ \A c \in DOMAIN handler : Place(c)' = Place(c)
<1>1. Len(handler) \in Nat /\ DOMAIN handler = 1..Len(handler) /\ Live \subseteq Nodes
  BY NodeFacts DEF NodeOK, PipelineInv
<1>2. Fresh /\ Len(handler) < MaxContexts
  BY AddsFresh DEF AddLast, Lock
<1>3. Len(handler') = New /\ DOMAIN handler' = 1..New /\ handler' \in Seq(DOMAIN Handlers)
      /\ (\A c \in DOMAIN handler : handler'[c] = handler[c])
  <2>1. handler \in Seq(DOMAIN Handlers) /\ handler' = Append(handler, h)
    BY DEF AddLast, PipelineInv, PipelineType
  <2> QED BY <1>1, <2>1 DEF New
<1>4. PipelineType'
  <2>1. prev[Rear] \in Nodes \cup {Nil} /\ New \in Nodes /\ Rear \in Nodes
    <3>1. New \in Nodes /\ Rear \in Nodes
      BY <1>2, PipelineAssumption DEF Fresh, Contexts, Nodes, Rear
    <3> QED BY <3>1 DEF PipelineInv, PipelineType
  <2>2. next' \in [Nodes -> Nodes \cup {Nil}] /\ prev' \in [Nodes -> Nodes \cup {Nil}]
    BY <2>1 DEF AddLast, PipelineInv, PipelineType
  <2>3. adding' \in [Adders -> [where : {"", "first", "last"}, ctx : Nodes, other : Nodes \cup {Nil}]]
    BY <2>1 DEF AddLast, PipelineInv, PipelineType
  <2>4. linked' \subseteq DOMAIN handler' /\ Len(handler') <= MaxContexts
    <3>1. linked' \subseteq DOMAIN handler
      BY DEF AddLast, PipelineInv, PipelineType
    <3> QED BY <3>1, <1>1, <1>2, <1>3, PipelineAssumption DEF New
  <2>5. mu' \in BOOLEAN /\ walk' \in [Walkers -> Walk]
    BY DEF AddLast, Lock, PipelineInv, PipelineType
  <2> QED BY <1>3, <2>2, <2>3, <2>4, <2>5 DEF PipelineType
<1>5. /\ order' \in Seq(DOMAIN handler') /\ Len(order') = New /\ order'[New] = New
      /\ \A i \in 1..Len(handler) : order'[i] = order[i]
  <2>1. order \in Seq(DOMAIN handler) /\ DOMAIN handler \subseteq DOMAIN handler'
        /\ Len(order) = Len(handler)
    BY <1>1, <1>3 DEF PipelineInv, OrderInv, New
  <2>2. order \in Seq(DOMAIN handler') /\ New \in DOMAIN handler' /\ order' = Append(order, New)
    BY <1>1, <1>3, <2>1 DEF AddLast, New
  <2> QED BY <2>1, <2>2, <1>1 DEF New
<1>6. OrderInv'
  <2>1. ASSUME NEW i \in 1..Len(handler)
        PROVE  order[i] \in DOMAIN handler /\ order[i] # New
    BY <1>1, <1>2 DEF PipelineInv, OrderInv, Fresh, Live
  <2>2. ASSUME NEW i \in 1..New, NEW j \in 1..New, order'[i] = order'[j] PROVE i = j
    <3>1. i = New \/ i \in 1..Len(handler)
      BY <1>1 DEF New
    <3>2. j = New \/ j \in 1..Len(handler)
      BY <1>1 DEF New
    <3>3. \A x, y \in 1..Len(handler) : order[x] = order[y] => x = y
      <4>1. OrderInv /\ DOMAIN order = 1..Len(handler)
        BY DEF PipelineInv, OrderInv
      <4> QED BY <4>1 DEF OrderInv
    <3> QED BY <2>1, <2>2, <3>1, <3>2, <3>3, <1>5
  <2>3. ASSUME NEW c \in DOMAIN handler' PROVE \E i \in 1..New : order'[i] = c
    <3>1. CASE c = New
      BY <3>1, <1>5, <1>1 DEF New
    <3>2. CASE c # New
      <4>0. c \in DOMAIN handler
        BY <3>2, <1>1, <1>3 DEF New
      <4>1. PICK i \in 1..Len(handler) : order[i] = c
        <5>1. OrderInv /\ DOMAIN order = 1..Len(handler)
          BY DEF PipelineInv, OrderInv
        <5> QED BY <4>0, <5>1 DEF OrderInv
      <4>2. order'[i] = c /\ i \in 1..New
        BY <4>1, <1>5, <1>1 DEF New
      <4> QED BY <4>2
    <3> QED BY <3>1, <3>2
  <2>4. DOMAIN order' = 1..New
    BY <1>5
  <2> QED BY <2>2, <2>3, <2>4, <1>3, <1>5 DEF OrderInv
<1>8. PlaceOK /\ PlaceOK'
  BY <1>4, <1>6, PlaceIs, PlaceIsAfter DEF PipelineInv
<1>9. Place(n)' = n
  <2>1. n \in DOMAIN handler' /\ (Place(n) \in 1..Len(handler))' /\ (order[Place(n)] = n)'
    BY <1>1, <1>3, <1>8 DEF PlaceOK, New
  <2>2. order'[n] = order'[Place(n)'] /\ n \in DOMAIN order' /\ Place(n)' \in DOMAIN order'
    BY <2>1, <1>1, <1>3, <1>5 DEF New
  <2> QED BY <2>2, <1>6 DEF OrderInv
<1>10. ASSUME NEW c \in DOMAIN handler PROVE Place(c)' = Place(c)
  <2>1. c \in DOMAIN handler' /\ (Place(c) \in 1..Len(handler))' /\ (order[Place(c)] = c)'
    BY <1>1, <1>3, <1>8 DEF PlaceOK, New
  <2>2. Place(c) \in 1..Len(handler) /\ order[Place(c)] = c
    BY <1>8 DEF PlaceOK
  <2>3. order'[Place(c)] = order'[Place(c)'] /\ Place(c) \in DOMAIN order' /\ Place(c)' \in DOMAIN order'
    BY <2>1, <2>2, <1>1, <1>3, <1>5 DEF New
  <2> QED BY <2>3, <1>6 DEF OrderInv
<1>11. OrderKept
  <2>1. /\ Place(First) = 0 /\ Place(Rear) = MaxContexts + 1
        /\ Place(First)' = 0 /\ Place(Rear)' = MaxContexts + 1
        /\ \A c \in DOMAIN handler : Place(c) \in 1..Len(handler)
    BY <1>8 DEF PlaceOK, First, Rear
  <2>2. ASSUME NEW c \in Live PROVE Place(c) \in Int /\ Place(c)' \in Int
    BY <2>1, <1>1, <1>10, PipelineAssumption DEF Live
  <2>3. ASSUME NEW c \in Live, NEW d \in Live PROVE (Place(c) < Place(d))' <=> Place(c) < Place(d)
    <3>1. Len(handler) \in Nat /\ Len(handler) < MaxContexts /\ MaxContexts \in Nat
      BY <1>1, <1>2, PipelineAssumption
    <3>2. ASSUME NEW x \in Live
          PROVE  \/ x = First /\ Place(x) = 0 /\ Place(x)' = 0
                 \/ x = Rear /\ Place(x) = MaxContexts + 1 /\ Place(x)' = MaxContexts + 1
                 \/ Place(x) \in 1..Len(handler) /\ Place(x)' = Place(x)
      BY <2>1, <1>10 DEF Live
    <3> QED BY <3>1, <3>2
  <2>4. Known \subseteq Live /\ Live \subseteq Live' /\ Known \subseteq Known'
    BY <1>1, <1>2, <1>3 DEF Known, Live, AddLast, Fresh, New, First, Rear
  <2>5. ASSUME NEW c \in Live, NEW e \in Events PROVE (e \in Casts(c))' <=> e \in Casts(c)
    BY <1>3 DEF Casts, Live, EndCasts, First, Rear
  <2> QED BY <2>2, <2>3, <2>4, <2>5 DEF OrderKept
<1> QED BY <1>4, <1>6, <1>9, <1>10, <1>11

\* addLast up to its first store: what precedes the tail precedes the new context.
LEMMA AddLastKeeps ==
    ASSUME PipelineInv, NEW a \in Adders, NEW h \in DOMAIN Handlers, AddLast(a, h)
    PROVE  PipelineInv'
<1>0. PICK n : n = New
  OBVIOUS
<1>1. Len(handler) \in Nat /\ DOMAIN handler = 1..Len(handler) /\ Live \subseteq Nodes
      /\ First \notin DOMAIN handler /\ Rear \notin DOMAIN handler /\ First # Rear
  BY NodeFacts DEF NodeOK, PipelineInv
<1>2. Fresh
  BY AddsFresh DEF AddLast, Lock
<1>3. PipelineType' /\ OrderInv' /\ OrderKept
      /\ Place(n)' = n /\ (\A c \in DOMAIN handler : Place(c)' = Place(c))
  BY <1>0, AddLastPlaces
<1>4. PlaceOK /\ PlaceOK'
  BY <1>3, PlaceIs, PlaceIsAfter DEF PipelineInv
<1>5. n \notin Live /\ n \in Nodes /\ n # First /\ n # Rear /\ Rear \in Nodes
  BY <1>0, <1>2, PipelineAssumption DEF Fresh, Contexts, Nodes, Rear
<1>6. Live' = Live \cup {n} /\ Known' = Known /\ Known = Live
  <2>1. DOMAIN handler' = DOMAIN handler \cup {n}
    <3>1. handler \in Seq(DOMAIN Handlers) /\ handler' = Append(handler, h)
      BY DEF AddLast, PipelineInv, PipelineType
    <3>2. DOMAIN handler' = 1..(Len(handler) + 1)
      BY <3>1
    <3> QED BY <3>2, <1>0, <1>1 DEF New
  <2> QED BY <2>1, <1>2 DEF Live, Known, Fresh, AddLast, First, Rear
<1>7. /\ prev'[n] = prev[Rear] /\ prev'[Rear] = n
      /\ \A c \in Live : c # Rear => prev'[c] = prev[c]
  BY <1>0, <1>1, <1>5 DEF AddLast, PipelineInv, PipelineType
<1>8. next'[n] = Rear /\ \A c \in Live : next'[c] = next[c]
  BY <1>0, <1>1, <1>5 DEF AddLast, PipelineInv, PipelineType
<1>9. /\ Place(First) = 0 /\ Place(Rear) = MaxContexts + 1
      /\ Place(First)' = 0 /\ Place(Rear)' = MaxContexts + 1
      /\ \A c \in DOMAIN handler : Place(c) \in 1..Len(handler)
  BY <1>4 DEF PlaceOK, First, Rear
<1>10. /\ \A c \in Live : Place(c) \in Int /\ Place(c)' \in Int
       /\ \A c, d \in Live : (Place(c) < Place(d))' <=> Place(c) < Place(d)
  BY <1>3 DEF OrderKept
<1>11. /\ n \in Int /\ n < Place(Rear)'
       /\ \A d \in Live : d # Rear => (Place(d) < Place(Rear) /\ Place(d)' < n)
  BY <1>0, <1>1, <1>3, <1>9, <1>2, PipelineAssumption DEF Live, Fresh, Contexts, New
<1>12. PrevInv'
  <2>1. Rear \in Live /\ First \in Live /\ prev[First] = Nil
    BY DEF Live, PipelineInv, PrevInv
  <2>2. prev'[First] = Nil
    BY <2>1, <1>1, <1>7
  <2>3. ASSUME NEW c \in Live' \ {First} PROVE \E m \in Live' : m = prev'[c] /\ Adjacent(m, c)'
    <3>1. CASE c = Rear
      <4>1. \A x \in Live : ~(Place(n) < Place(x) /\ Place(x) < Place(Rear))'
        BY <1>3, <1>9, <1>10, <1>11
      <4> QED BY <3>1, <4>1, <2>1, <1>3, <1>6, <1>7, <1>11 DEF Adjacent, Before
    <3>2. CASE c = n
      <4>1. PICK m \in Live : prev[Rear] = m /\ Adjacent(m, Rear)
        BY <2>1, <1>1 DEF PipelineInv, PrevInv
      <4>2. Place(m) < Place(Rear) /\ m # Rear
        BY <4>1, <1>10 DEF Adjacent, Before
      <4>3. ASSUME NEW x \in Live, (Place(m) < Place(x))' PROVE ~(Place(x) < Place(n))'
        <5>1. CASE x = Rear
          BY <5>1, <1>3, <1>9, <1>10, <1>11
        <5>2. CASE x # Rear
          <6>1. Place(x) < Place(Rear) /\ Place(m) < Place(x)
            BY <5>2, <4>3, <1>10, <1>11
          <6> QED BY <6>1, <4>1, <1>6 DEF Adjacent, Before
        <5> QED BY <5>1, <5>2
      <4>4. (Place(m) < Place(n))'
        BY <4>2, <1>3, <1>11
      <4>5. Adjacent(m, n)'
        BY <4>3, <4>4, <1>6 DEF Adjacent, Before
      <4> QED BY <3>2, <4>1, <4>5, <1>6, <1>7
    <3>3. CASE c \in Live /\ c # Rear
      <4>1. PICK m \in Live : prev[c] = m /\ Adjacent(m, c)
        BY <3>3 DEF PipelineInv, PrevInv
      <4>2. Adjacent(m, c)'
        BY <4>1, <3>3, <1>6, <1>10 DEF Adjacent, Before
      <4> QED BY <4>1, <4>2, <3>3, <1>6, <1>7
    <3> QED BY <3>1, <3>2, <3>3, <1>6
  <2> QED BY <2>2, <2>3 DEF PrevInv
<1>13. NextInv'
  <2>1. Rear \in Live /\ First \in Live /\ next[Rear] = Nil
    BY DEF Live, PipelineInv, NextInv
  <2>2. next'[Rear] = Nil
    BY <2>1, <1>8
  <2>3. ASSUME NEW c \in Live' \ {Rear} PROVE \E m \in Live' : m = next'[c] /\ Adjacent(c, m)'
    <3>1. CASE c = n
      <4>1. \A x \in Live : ~(Place(n) < Place(x) /\ Place(x) < Place(Rear))'
        BY <1>3, <1>9, <1>10, <1>11
      <4> QED BY <3>1, <4>1, <2>1, <1>3, <1>6, <1>8, <1>11 DEF Adjacent, Before
    <3>2. CASE c \in Live
      <4>1. PICK m \in Live : next[c] = m /\ Adjacent(c, m)
        BY <3>2 DEF PipelineInv, NextInv
      <4>2. Adjacent(c, m)'
        BY <4>1, <3>2, <1>6, <1>10 DEF Adjacent, Before
      <4> QED BY <4>1, <4>2, <3>2, <1>6, <1>8
    <3> QED BY <3>1, <3>2, <1>6
  <2> QED BY <2>2, <2>3 DEF NextInv
<1>14. AddInv'
  <2>1. \A b \in Adders : adding[b] = NotAdding
    BY <1>2 DEF Fresh
  <2>2. adding' = [adding EXCEPT ![a] = [where |-> "last", ctx |-> n, other |-> prev[Rear]]]
    BY <1>0 DEF AddLast
  <2>3. adding'[a] = [where |-> "last", ctx |-> n, other |-> prev[Rear]]
        /\ \A b \in Adders : b # a => adding'[b] = NotAdding
    BY <2>1, <2>2 DEF PipelineInv, PipelineType
  <2>4. adding'[a] # NotAdding /\ adding'[a].where # "first"
    <3>1. adding'[a].where = "last"
      BY <2>3
    <3>2. NotAdding.where = ""
      BY DEF NotAdding
    <3> QED BY <3>1, <3>2
  <2>5. mu' = TRUE /\ n \in DOMAIN handler' /\ linked' = DOMAIN handler' \ {n}
    BY <1>1, <1>2, <1>5, <1>6 DEF AddLast, Lock, Live, Fresh, Known
  <2>6. \A d \in Live' : d \notin {Rear, n} => Before(d, n)'
    BY <1>3, <1>6, <1>11 DEF Before
  <2>7. AtLast(adding[a])'
    <3>1. PICK p : p = adding'[a]
      OBVIOUS
    <3>2. p.ctx = n /\ p.other = prev[Rear]
      BY <3>1, <2>3
    <3> QED BY <3>1, <3>2, <2>6, <1>7, <1>8 DEF AtLast
  <2> QED BY <2>3, <2>4, <2>5, <2>7 DEF AddInv
<1>15. WalkInv'
  BY <1>3, WalkKept DEF PipelineInv, AddLast
<1> QED BY <1>3, <1>12, <1>13, <1>14, <1>15 DEF PipelineInv

\* The second store makes the new context known; it stands next to what its
\* goroutine remembered, because nobody else has added meanwhile.
LEMMA AddEndsKeeps ==
    ASSUME PipelineInv, NEW a \in Adders, AddEnds(a)
    PROVE  PipelineInv'
<1>0. PICK p : p = adding[a]
  OBVIOUS
<1>1. /\ p # NotAdding /\ mu /\ p.ctx \in DOMAIN handler /\ linked = DOMAIN handler \ {p.ctx}
      /\ (IF p.where = "first" THEN AtFirst(p) ELSE AtLast(p))
      /\ \A b \in Adders : b # a => adding[b] = NotAdding
  BY <1>0 DEF AddEnds, PipelineInv, AddInv
<1>2. DOMAIN handler = 1..Len(handler) /\ Live \subseteq Nodes
      /\ First \notin DOMAIN handler /\ Rear \notin DOMAIN handler /\ First # Rear
      /\ First \in Live /\ Rear \in Live
  BY NodeFacts DEF NodeOK, PipelineInv, Live
<1>3. PlaceOK
  BY PlaceIs DEF PipelineInv
<1>4. UNCHANGED <<handler, order, walk>> /\ linked' = DOMAIN handler
  BY <1>0, <1>1 DEF AddEnds
<1>5. Live' = Live /\ Known' = Live /\ Known = Live \ {p.ctx}
  BY <1>1, <1>2, <1>4 DEF Live, Known, First, Rear
<1>6. ASSUME NEW c PROVE Place(c)' = Place(c)
  BY <1>4 DEF Place, First, Rear
<1>7. \A c, d \in Live : Place(c) = Place(d) => c = d
  BY <1>3 DEF PlaceOK
<1>8. \A c \in Live : Place(c) \in Int /\ (c # First => Place(First) < Place(c)) /\ (c # Rear => Place(c) < Place(Rear))
  <2>1. Len(handler) \in Nat /\ Len(handler) <= MaxContexts
    BY NodeFacts DEF NodeOK, PipelineInv, PipelineType
  <2> QED BY <2>1, <1>3, PipelineAssumption DEF PlaceOK, Live
<1>9. p.other \in Live
  <2>1. CASE p.where = "first"
    BY <2>1, <1>1, <1>2 DEF AtFirst, PipelineInv, NextInv, Live
  <2>2. CASE p.where # "first"
    BY <2>2, <1>1, <1>2 DEF AtLast, PipelineInv, PrevInv, Live
  <2> QED BY <2>1, <2>2
<1>10. PipelineType'
  <2>1. p.ctx \in Nodes /\ p.other \in Nodes
    BY <1>1, <1>2, <1>9 DEF Live
  <2>2. next' \in [Nodes -> Nodes \cup {Nil}] /\ prev' \in [Nodes -> Nodes \cup {Nil}]
    BY <1>0, <2>1 DEF AddEnds, PipelineInv, PipelineType
  <2>3. NotAdding \in [where : {"", "first", "last"}, ctx : Nodes, other : Nodes \cup {Nil}]
    <3>1. 0 \in Nodes
      BY PipelineAssumption DEF Nodes
    <3> QED BY <3>1 DEF NotAdding
  <2>4. adding' \in [Adders -> [where : {"", "first", "last"}, ctx : Nodes, other : Nodes \cup {Nil}]]
    BY <2>3 DEF AddEnds, PipelineInv, PipelineType
  <2>5. mu' \in BOOLEAN
    BY DEF AddEnds
  <2> QED BY <2>2, <2>4, <2>5, <1>4 DEF PipelineInv, PipelineType
<1>11. OrderInv'
  BY <1>4 DEF PipelineInv, OrderInv
<1>12. OrderKept
  <2>1. \A c \in Live : \A e \in Events : (e \in Casts(c))' <=> e \in Casts(c)
    BY <1>4 DEF Casts, EndCasts, First, Rear
  <2> QED BY <2>1, <1>5, <1>6, <1>8 DEF OrderKept
<1>13. AddInv'
  <2>1. \A b \in Adders : adding'[b] = NotAdding
    BY <1>1 DEF AddEnds, PipelineInv, PipelineType
  <2> QED BY <2>1, <1>4 DEF AddInv
<1>14. WalkInv'
  BY <1>4, <1>12, WalkKept DEF PipelineInv
<1>15. CASE p.where = "first"
  <2>1. AtFirst(p) /\ next' = next /\ prev' = [prev EXCEPT ![p.other] = p.ctx]
    BY <1>0, <1>1, <1>15 DEF AddEnds
  <2>2. /\ prev'[p.other] = p.ctx
        /\ \A c \in Live : c # p.other => prev'[c] = prev[c]
    BY <2>1, <1>2, <1>9 DEF PipelineInv, PipelineType
  <2>3. p.ctx \in Live /\ p.ctx # Rear /\ p.ctx # First
    BY <1>1, <1>2 DEF Live
  <2>4. next[p.ctx] = p.other /\ Adjacent(p.ctx, p.other)
    BY <2>1, <2>3 DEF AtFirst, PipelineInv, NextInv
  <2>5. \A d \in Live : d \notin {First, p.ctx} => Place(p.ctx) < Place(d)
    BY <2>1 DEF AtFirst, Before
  <2>6. NextInv'
    <3>1. ASSUME NEW c \in Live \ {Rear} PROVE \E m \in Live : next'[c] = m /\ Adjacent(c, m)'
      <4>1. PICK m \in Live : next[c] = m /\ Adjacent(c, m)
        BY DEF PipelineInv, NextInv
      <4>2. ~(Place(c) < Place(p.ctx) /\ Place(p.ctx) < Place(m))
        <5>1. CASE c = First
          BY <5>1, <4>1, <2>1, <1>8 DEF AtFirst
        <5>2. CASE c # First
          BY <5>2, <2>3, <2>5, <1>8
        <5> QED BY <5>1, <5>2
      <4>3. Adjacent(c, m)'
        BY <4>1, <4>2, <1>5, <1>6 DEF Adjacent, Before
      <4> QED BY <4>1, <4>3, <2>1
    <3> QED BY <3>1, <1>5, <2>1 DEF PipelineInv, NextInv
  <2>7. PrevInv'
    <3>1. p.other # First
      BY <2>3, <2>4, <1>2, <1>8, <1>9 DEF Adjacent, Before
    <3>2. ASSUME NEW c \in Live \ {First} PROVE \E m \in Live : prev'[c] = m /\ Adjacent(m, c)'
      <4>1. CASE c = p.other
        <5>1. Adjacent(p.ctx, p.other)'
          BY <2>3, <2>4, <1>5, <1>6, <1>8 DEF Adjacent, Before
        <5> QED BY <4>1, <5>1, <2>2, <2>3
      <4>2. CASE c # p.other
        <5>1. PICK m \in Live : prev[c] = m /\ Adjacent(m, c)
          BY DEF PipelineInv, PrevInv
        <5>2. ~(Place(m) < Place(p.ctx) /\ Place(p.ctx) < Place(c))
          <6> SUFFICES ASSUME Place(m) < Place(p.ctx), Place(p.ctx) < Place(c) PROVE FALSE
            OBVIOUS
          <6>1. m = First
            BY <2>3, <2>5, <1>8
          <6>2. c # p.ctx /\ p.other # p.ctx
            BY <2>4, <2>3, <1>8, <1>9 DEF Adjacent, Before
          <6>3. ~(Place(c) < Place(p.other))
            BY <6>2, <2>4, <1>5 DEF Adjacent, Before
          <6>4. ~(Place(p.other) < Place(c))
            BY <5>1, <6>1, <6>2, <3>1, <1>5, <1>8, <1>9 DEF Adjacent, Before
          <6> QED BY <6>3, <6>4, <4>2, <1>7, <1>8, <1>9
        <5>3. Adjacent(m, c)'
          BY <5>1, <5>2, <1>5, <1>6 DEF Adjacent, Before
        <5> QED BY <5>1, <5>3, <4>2, <2>2
      <4> QED BY <4>1, <4>2
    <3>3. prev'[First] = Nil
      BY <3>1, <2>2, <1>2 DEF PipelineInv, PrevInv
    <3> QED BY <3>2, <3>3, <1>5 DEF PrevInv
  <2> QED BY <2>6, <2>7, <1>10, <1>11, <1>13, <1>14 DEF PipelineInv
<1>16. CASE p.where # "first"
  <2>1. AtLast(p) /\ prev' = prev /\ next' = [next EXCEPT ![p.other] = p.ctx]
    BY <1>0, <1>1, <1>16 DEF AddEnds
  <2>2. /\ next'[p.other] = p.ctx
        /\ \A c \in Live : c # p.other => next'[c] = next[c]
    BY <2>1, <1>2, <1>9 DEF PipelineInv, PipelineType
  <2>3. p.ctx \in Live /\ p.ctx # Rear /\ p.ctx # First
    BY <1>1, <1>2 DEF Live
  <2>4. prev[p.ctx] = p.other /\ Adjacent(p.other, p.ctx)
    BY <2>1, <2>3 DEF AtLast, PipelineInv, PrevInv
  <2>5. \A d \in Live : d \notin {Rear, p.ctx} => Place(d) < Place(p.ctx)
    BY <2>1 DEF AtLast, Before
  <2>6. PrevInv'
    <3>1. ASSUME NEW c \in Live \ {First} PROVE \E m \in Live : prev'[c] = m /\ Adjacent(m, c)'
      <4>1. PICK m \in Live : prev[c] = m /\ Adjacent(m, c)
        BY DEF PipelineInv, PrevInv
      <4>2. ~(Place(m) < Place(p.ctx) /\ Place(p.ctx) < Place(c))
        <5>1. CASE c = Rear
          BY <5>1, <4>1, <2>1, <1>8 DEF AtLast
        <5>2. CASE c # Rear
          BY <5>2, <2>3, <2>5, <1>8
        <5> QED BY <5>1, <5>2
      <4>3. Adjacent(m, c)'
        BY <4>1, <4>2, <1>5, <1>6 DEF Adjacent, Before
      <4> QED BY <4>1, <4>3, <2>1
    <3> QED BY <3>1, <1>5, <2>1 DEF PipelineInv, PrevInv
  <2>7. NextInv'
    <3>1. p.other # Rear
      BY <2>3, <2>4, <1>2, <1>8, <1>9 DEF Adjacent, Before
    <3>2. ASSUME NEW c \in Live \ {Rear} PROVE \E m \in Live : next'[c] = m /\ Adjacent(c, m)'
      <4>1. CASE c = p.other
        <5>1. Adjacent(p.other, p.ctx)'
          BY <2>3, <2>4, <1>5, <1>6, <1>8 DEF Adjacent, Before
        <5> QED BY <4>1, <5>1, <2>2, <2>3
      <4>2. CASE c # p.other
        <5>1. PICK m \in Live : next[c] = m /\ Adjacent(c, m)
          BY DEF PipelineInv, NextInv
        <5>2. ~(Place(c) < Place(p.ctx) /\ Place(p.ctx) < Place(m))
          <6> SUFFICES ASSUME Place(c) < Place(p.ctx), Place(p.ctx) < Place(m) PROVE FALSE
            OBVIOUS
          <6>1. m = Rear
            BY <2>3, <2>5, <1>8
          <6>2. c # p.ctx /\ p.other # p.ctx
            BY <2>4, <2>3, <1>8, <1>9 DEF Adjacent, Before
          <6>3. ~(Place(p.other) < Place(c))
            BY <6>2, <2>4, <1>5 DEF Adjacent, Before
          <6>4. ~(Place(c) < Place(p.other))
            BY <5>1, <6>1, <6>2, <3>1, <1>5, <1>8, <1>9 DEF Adjacent, Before
          <6> QED BY <6>3, <6>4, <4>2, <1>7, <1>8, <1>9
        <5>3. Adjacent(c, m)'
          BY <5>1, <5>2, <1>5, <1>6 DEF Adjacent, Before
        <5> QED BY <5>1, <5>3, <4>2, <2>2
      <4> QED BY <4>1, <4>2
    <3>3. next'[Rear] = Nil
      BY <3>1, <2>2, <1>2 DEF PipelineInv, NextInv
    <3> QED BY <3>2, <3>3, <1>5 DEF NextInv
  <2> QED BY <2>6, <2>7, <1>10, <1>11, <1>13, <1>14 DEF PipelineInv
<1> QED BY <1>15, <1>16

-------------------------------------------------------------------------------
(* Delivery *)

\* What a goroutine that delivers leaves alone.
LEMMA ChainKept ==
    ASSUME PipelineInv, UNCHANGED <<chainVars, adding, mu, bound, order, linked>>,
           walk' \in [Walkers -> Walk]
    PROVE  PipelineType' /\ OrderInv' /\ NextInv' /\ PrevInv' /\ AddInv'
<1> USE DEF chainVars
<1>1. PipelineType'
  BY DEF PipelineInv, PipelineType
<1>2. OrderInv'
  BY DEF PipelineInv, OrderInv
<1>3. Live' = Live /\ Known' = Known
  BY DEF Live, Known, First, Rear
<1>4. ASSUME NEW c PROVE Place(c)' = Place(c)
  BY DEF Place, First, Rear
<1>5. ASSUME NEW c, NEW d PROVE Before(c, d)' <=> Before(c, d)
  BY <1>4 DEF Before
<1>6. ASSUME NEW c, NEW d PROVE Adjacent(c, d)' <=> Adjacent(c, d)
  BY <1>3, <1>5 DEF Adjacent
<1>7. NextInv'
  BY <1>3, <1>6 DEF PipelineInv, NextInv
<1>8. PrevInv'
  BY <1>3, <1>6 DEF PipelineInv, PrevInv
<1>9. ASSUME NEW p PROVE (AtFirst(p)' <=> AtFirst(p)) /\ (AtLast(p)' <=> AtLast(p))
  BY <1>3, <1>5 DEF AtFirst, AtLast
<1>10. AddInv'
  <2>1. \A a \in Adders : /\ AtFirst(adding[a])' <=> AtFirst(adding[a])
                          /\ AtLast(adding[a])' <=> AtLast(adding[a])
    BY <1>3, <1>5 DEF AtFirst, AtLast
  <2> QED BY <2>1 DEF PipelineInv, AddInv
<1> QED BY <1>1, <1>2, <1>7, <1>8, <1>10

\* One goroutine's delivery changes and stays on the way.
LEMMA WalkMoves ==
    ASSUME PipelineInv, UNCHANGED <<chainVars, adding, mu, bound, order, linked>>,
           NEW w \in Walkers, NEW k \in Walk, walk' = [walk EXCEPT ![w] = k],
           k.at # Stopped => OnTheWay(k)
    PROVE  PipelineInv'
<1>1. walk \in [Walkers -> Walk] /\ walk' \in [Walkers -> Walk]
  BY DEF PipelineInv, PipelineType
<1>2. PipelineType' /\ OrderInv' /\ NextInv' /\ PrevInv' /\ AddInv'
  BY <1>1, ChainKept
<1>3. Live' = Live /\ Known' = Known
  BY DEF Live, Known, First, Rear, chainVars
<1>4. ASSUME NEW c PROVE Place(c)' = Place(c) /\ Casts(c)' = Casts(c)
  BY DEF Place, Casts, EndCasts, First, Rear, chainVars
<1>5. ASSUME NEW e, NEW c, NEW d PROVE Ahead(e, c, d)' <=> Ahead(e, c, d)
  BY <1>4 DEF Ahead, Forward
<1>6. ASSUME NEW q, OnTheWay(q) PROVE OnTheWay(q)'
  BY <1>3, <1>4, <1>5, <1>6 DEF OnTheWay
<1>7. ASSUME NEW v \in Walkers, walk'[v].at # Stopped PROVE OnTheWay(walk[v])'
  <2>1. PICK q : q = walk'[v]
    OBVIOUS
  <2>2. OnTheWay(q)
    BY <2>1, <1>1, <1>7 DEF PipelineInv, WalkInv
  <2>3. OnTheWay(q)'
    BY <2>2, <1>6
  <2> QED BY <2>1, <2>3 DEF OnTheWay
<1> QED BY <1>2, <1>7 DEF PipelineInv, WalkInv

\* Places are numbers between that of the head and that of the tail.
LEMMA PlacesOrdered ==
    ASSUME PipelineInv
    PROVE  /\ Known \subseteq Live /\ Live \subseteq Nodes
           /\ \A c \in Live : /\ Place(c) \in Int
                              /\ c # First => Place(First) < Place(c)
                              /\ c # Rear => Place(c) < Place(Rear)
           /\ \A c, d \in Live : c # d => Place(c) < Place(d) \/ Place(d) < Place(c)
<1>1. PlaceOK /\ NodeOK /\ Len(handler) <= MaxContexts /\ linked \subseteq DOMAIN handler
  BY PlaceIs, NodeFacts DEF PipelineInv, PipelineType
<1>2. ASSUME NEW c \in Live
      PROVE  /\ Place(c) \in Int
             /\ c # First => Place(First) < Place(c)
             /\ c # Rear => Place(c) < Place(Rear)
  BY <1>1, PipelineAssumption DEF PlaceOK, NodeOK, Live
<1>3. ASSUME NEW c \in Live, NEW d \in Live, c # d PROVE Place(c) < Place(d) \/ Place(d) < Place(c)
  <2>1. Place(c) # Place(d)
    BY <1>1, <1>3 DEF PlaceOK
  <2> QED BY <1>2, <2>1
<1> QED BY <1>1, <1>2, <1>3 DEF Known, Live, NodeOK

\* One step along next or prev passes nothing that is known.
LEMMA NextContext ==
    ASSUME PipelineInv, NEW e \in Events, NEW c \in Live,
           NEW to, to = IF Forward(e) THEN next[c] ELSE prev[c]
    PROVE  IF to = Nil THEN \A m \in Known : ~Ahead(e, c, m)
           ELSE /\ to \in Live /\ Ahead(e, c, to)
                /\ \A m \in Known : Ahead(e, c, m) => m = to \/ Ahead(e, to, m)
<1>1. Known \subseteq Live /\ Live \subseteq Nodes /\ Nil \notin Nodes /\ First \in Live /\ Rear \in Live
  BY PlacesOrdered, NodeFacts DEF PipelineInv, NodeOK, Live
<1>2. /\ \A x \in Live : /\ Place(x) \in Int
                         /\ x # First => Place(First) < Place(x)
                         /\ x # Rear => Place(x) < Place(Rear)
      /\ \A x, y \in Live : x # y => Place(x) < Place(y) \/ Place(y) < Place(x)
  BY PlacesOrdered
<1>3. CASE Forward(e) /\ c = Rear
  <2>1. to = Nil
    BY <1>3 DEF PipelineInv, NextInv
  <2>2. \A m \in Known : ~Ahead(e, c, m)
    BY <1>1, <1>2, <1>3 DEF Ahead
  <2> QED BY <2>1, <2>2
<1>4. CASE Forward(e) /\ c # Rear
  <2>1. PICK m \in Live : next[c] = m /\ Adjacent(c, m)
    BY <1>4 DEF PipelineInv, NextInv
  <2>2. to = m /\ to # Nil
    BY <2>1, <1>1, <1>4
  <2>3. Place(c) < Place(to) /\ \A x \in Known : Place(c) < Place(x) => ~(Place(x) < Place(to))
    BY <2>1, <2>2 DEF Adjacent, Before
  <2>4. Ahead(e, c, to) /\ \A x \in Known : Ahead(e, c, x) => x = to \/ Ahead(e, to, x)
    BY <2>1, <2>2, <2>3, <1>1, <1>2, <1>4 DEF Ahead
  <2> QED BY <2>1, <2>2, <2>4
<1>5. CASE ~Forward(e) /\ c = First
  <2>1. to = Nil
    BY <1>5 DEF PipelineInv, PrevInv
  <2>2. \A m \in Known : ~Ahead(e, c, m)
    BY <1>1, <1>2, <1>5 DEF Ahead
  <2> QED BY <2>1, <2>2
<1>6. CASE ~Forward(e) /\ c # First
  <2>1. PICK m \in Live : prev[c] = m /\ Adjacent(m, c)
    BY <1>6 DEF PipelineInv, PrevInv
  <2>2. to = m /\ to # Nil
    BY <2>1, <1>1, <1>6
  <2>3. Place(to) < Place(c) /\ \A x \in Known : Place(to) < Place(x) => ~(Place(x) < Place(c))
    BY <2>1, <2>2 DEF Adjacent, Before
  <2>4. Ahead(e, c, to) /\ \A x \in Known : Ahead(e, c, x) => x = to \/ Ahead(e, to, x)
    BY <2>1, <2>2, <2>3, <1>1, <1>2, <1>6 DEF Ahead
  <2> QED BY <2>1, <2>2, <2>4
<1> QED BY <1>3, <1>4, <1>5, <1>6

\* An event sets out to reach what is known ahead of it.
LEMMA FireKeeps ==
    ASSUME PipelineInv, NEW w \in Walkers, NEW e \in Events, NEW f \in linked \cup {First, Rear},
           Fire(w, e, f)
    PROVE  PipelineInv'
<1>1. PICK k : k = [at |-> f, event |-> e, from |-> f, seen |-> <<>>,
                    must |-> {c \in linked \cup {First, Rear} : Ahead(e, f, c) /\ e \in Casts(c)}]
  OBVIOUS
<1>2. walk' = [walk EXCEPT ![w] = k] /\ UNCHANGED <<chainVars, adding, mu, bound, order, linked>>
  BY <1>1 DEF Fire
<1>3. Known \subseteq Live /\ Live \subseteq Nodes /\ f \in Known
  BY PlacesOrdered DEF Known
<1>4. k.at = f /\ k.event = e /\ k.from = f /\ k.seen = <<>>
      /\ k.must = {c \in Known : Ahead(e, f, c) /\ e \in Casts(c)}
  BY <1>1 DEF Known
<1>5. k \in Walk
  <2>1. f \in Nodes /\ e \in Events /\ <<>> \in Seq(Nodes)
    BY <1>3
  <2>2. {c \in linked \cup {First, Rear} : Ahead(e, f, c) /\ e \in Casts(c)} \in SUBSET Nodes
    BY <1>3 DEF Known
  <2> QED BY <1>1, <2>1, <2>2 DEF Walk
<1>6. f # Nil
  BY <1>3, NodeFacts DEF PipelineInv, NodeOK
<1>7. OnTheWay(k)
  BY <1>3, <1>4, <1>6 DEF OnTheWay
<1> QED BY <1>2, <1>5, <1>7, WalkMoves

\* What has been reached, and the context that is reached next.
LEMMA RangeAppend ==
    ASSUME NEW S, NEW s \in Seq(S), NEW x \in S
    PROVE  /\ Append(s, x) \in Seq(S) /\ DOMAIN Append(s, x) = DOMAIN s \cup {Len(s) + 1}
           /\ Append(s, x)[Len(s) + 1] = x /\ (\A i \in DOMAIN s : Append(s, x)[i] = s[i] /\ i < Len(s) + 1)
           /\ Range(Append(s, x)) = Range(s) \cup {x}
<1>1. Append(s, x) \in Seq(S) /\ DOMAIN Append(s, x) = DOMAIN s \cup {Len(s) + 1}
  OBVIOUS
<1>2. Append(s, x)[Len(s) + 1] = x /\ (\A i \in DOMAIN s : Append(s, x)[i] = s[i] /\ i < Len(s) + 1)
  OBVIOUS
<1>3. Range(Append(s, x)) = Range(s) \cup {x}
  BY <1>1, <1>2 DEF Range
<1> QED BY <1>1, <1>2, <1>3

\* One turn of a delivery loop.
LEMMA StepKeeps ==
    ASSUME PipelineInv, NEW w \in Walkers, Step(w)
    PROVE  PipelineInv'
<1>1. PICK q : q = walk[w]
  OBVIOUS
<1>2. q \in Walk /\ q.at # Stopped /\ q.at # Nil /\ OnTheWay(q) /\ q.at \in Live
  BY <1>1 DEF Step, PipelineInv, PipelineType, WalkInv, OnTheWay
<1>3. PICK to : to = IF Forward(q.event) THEN next[q.at] ELSE prev[q.at]
  OBVIOUS
<1>4. PICK seen : seen = IF to # Nil /\ q.event \in Casts(to) THEN Append(q.seen, to) ELSE q.seen
  OBVIOUS
<1>5. PICK k : k = [q EXCEPT !.at = to, !.seen = seen]
  OBVIOUS
<1>6. walk' = [walk EXCEPT ![w] = k] /\ UNCHANGED <<chainVars, adding, mu, bound, order, linked>>
  <2>1. walk' = [walk EXCEPT ![w].at = to,
                             ![w].seen = IF to # Nil /\ q.event \in Casts(to) THEN Append(@, to) ELSE @]
    BY <1>1, <1>3 DEF Step
  <2> QED BY <2>1, <1>1, <1>2, <1>4, <1>5 DEF Step, PipelineInv, PipelineType, Walk
<1>7. IF to = Nil THEN \A m \in Known : ~Ahead(q.event, q.at, m)
      ELSE /\ to \in Live /\ Ahead(q.event, q.at, to)
           /\ \A m \in Known : Ahead(q.event, q.at, m) => m = to \/ Ahead(q.event, to, m)
  BY <1>2, <1>3, NextContext DEF OnTheWay
<1>8. Known \subseteq Live /\ Live \subseteq Nodes /\ \A c \in Live : Place(c) \in Int
  BY PlacesOrdered
<1>9. k.at = to /\ k.event = q.event /\ k.from = q.from /\ k.seen = seen /\ k.must = q.must
  BY <1>2, <1>5 DEF Walk
<1>10. q.event \in Events /\ q.seen \in Seq(Live) /\ q.must \subseteq Known
       /\ (\A i \in DOMAIN q.seen : q.seen[i] \in Live)
  BY <1>2 DEF OnTheWay
<1>11. ASSUME NEW x \in Live, NEW y \in Live, NEW z \in Live, Ahead(q.event, x, y), Ahead(q.event, y, z)
       PROVE  Ahead(q.event, x, z)
  BY <1>8, <1>11 DEF Ahead
<1>12. seen \in Seq(Live) /\ Range(q.seen) \subseteq Range(seen)
  BY <1>4, <1>7, <1>10, RangeAppend
<1>13. k \in Walk
  <2>1. seen \in Seq(Nodes)
    BY <1>8, <1>12
  <2>2. to \in Nodes \cup {Nil, Stopped}
    BY <1>7, <1>8
  <2> QED BY <2>1, <2>2, <1>2, <1>5 DEF Walk
<1>14. \A m \in q.must : /\ q.event \in Casts(m)
                         /\ m \in Range(seen) \/ (to # Nil /\ Ahead(q.event, to, m))
  <2> SUFFICES ASSUME NEW m \in q.must
               PROVE  /\ q.event \in Casts(m)
                      /\ m \in Range(seen) \/ (to # Nil /\ Ahead(q.event, to, m))
    OBVIOUS
  <2>1. q.event \in Casts(m) /\ (m \in Range(q.seen) \/ Ahead(q.event, q.at, m))
    BY <1>2 DEF OnTheWay
  <2>2. CASE m \in Range(q.seen)
    BY <2>1, <2>2, <1>12
  <2>3. CASE Ahead(q.event, q.at, m)
    <3>1. to # Nil /\ (m = to \/ Ahead(q.event, to, m))
      BY <2>3, <1>7, <1>10
    <3>2. CASE m = to
      <4>1. seen = Append(q.seen, to) /\ to \in Live
        BY <2>1, <3>1, <3>2, <1>4, <1>7
      <4>2. to \in Range(seen)
        BY <4>1, <1>10, RangeAppend
      <4> QED BY <2>1, <3>2, <4>2
    <3> QED BY <2>1, <3>1, <3>2
  <2> QED BY <2>1, <2>2, <2>3
<1>15. ASSUME NEW i \in DOMAIN q.seen, to # Nil PROVE Ahead(q.event, q.seen[i], to)
  <2>1. q.seen[i] = q.at \/ Ahead(q.event, q.seen[i], q.at)
    BY <1>2 DEF OnTheWay
  <2>2. q.seen[i] \in Live
    BY <1>10
  <2> QED BY <2>1, <2>2, <1>2, <1>7, <1>11, <1>15
<1>16. CASE seen = q.seen
  <2>1. \A i, j \in DOMAIN seen : i < j => Ahead(q.event, seen[i], seen[j])
    BY <1>16, <1>2 DEF OnTheWay
  <2>2. to # Nil => \A i \in DOMAIN seen : Ahead(q.event, seen[i], to)
    BY <1>15, <1>16
  <2>3. OnTheWay(k)
    BY <2>1, <2>2, <1>7, <1>9, <1>10, <1>12, <1>14 DEF OnTheWay
  <2> QED BY <2>3, <1>6, <1>13, WalkMoves
<1>17. CASE to # Nil /\ seen = Append(q.seen, to)
  <2>1. /\ to \in Live /\ DOMAIN seen = DOMAIN q.seen \cup {Len(q.seen) + 1}
        /\ seen[Len(q.seen) + 1] = to /\ (\A i \in DOMAIN q.seen : seen[i] = q.seen[i] /\ i < Len(q.seen) + 1)
    BY <1>7, <1>10, <1>17, RangeAppend
  <2>2. ASSUME NEW i \in DOMAIN seen, NEW j \in DOMAIN seen, i < j
        PROVE  Ahead(q.event, seen[i], seen[j])
    <3>1. i \in DOMAIN q.seen
      <4>1. DOMAIN q.seen = 1..Len(q.seen) /\ Len(q.seen) \in Nat
        BY <1>10
      <4> QED BY <4>1, <2>1, <2>2
    <3>2. CASE j \in DOMAIN q.seen
      BY <2>1, <2>2, <3>1, <3>2, <1>2 DEF OnTheWay
    <3>3. CASE j = Len(q.seen) + 1
      BY <2>1, <3>1, <3>3, <1>15, <1>17
    <3> QED BY <3>2, <3>3, <2>1
  <2>3. \A i \in DOMAIN seen : seen[i] = to \/ Ahead(q.event, seen[i], to)
    BY <2>1, <1>15, <1>17
  <2>4. OnTheWay(k)
    BY <2>1, <2>2, <2>3, <1>9, <1>10, <1>12, <1>14 DEF OnTheWay
  <2> QED BY <2>4, <1>6, <1>13, WalkMoves
<1> QED BY <1>4, <1>16, <1>17

\* A delivery that ends.
LEMMA ReturnKeeps ==
    ASSUME PipelineInv, NEW w \in Walkers, Return(w)
    PROVE  PipelineInv'
<1>1. walk' = [walk EXCEPT ![w] = Idle] /\ UNCHANGED <<chainVars, adding, mu, bound, order, linked>>
  BY DEF Return
<1>2. Idle \in Walk /\ Idle.at = Stopped
  BY DEF Idle, Walk
<1> QED BY <1>1, <1>2, WalkMoves

-------------------------------------------------------------------------------
\* Every step of every goroutine keeps the invariant.
LEMMA PipelineStep == PipelineInv /\ [PipelineNext]_pipelineVars => PipelineInv'
<1> SUFFICES ASSUME PipelineInv, [PipelineNext]_pipelineVars PROVE PipelineInv'
  OBVIOUS
<1>1. ASSUME NEW a \in Adders, NEW h \in DOMAIN Handlers, AddFirst(a, h) PROVE PipelineInv'
  BY <1>1, AddFirstKeeps
<1>2. ASSUME NEW a \in Adders, NEW h \in DOMAIN Handlers, AddLast(a, h) PROVE PipelineInv'
  BY <1>2, AddLastKeeps
<1>3. ASSUME NEW a \in Adders, AddEnds(a) PROVE PipelineInv'
  BY <1>3, AddEndsKeeps
<1>4. ASSUME NEW w \in Walkers, NEW e \in Events, NEW f \in linked \cup {First, Rear}, Fire(w, e, f)
      PROVE  PipelineInv'
  BY <1>4, FireKeeps
<1>5. ASSUME NEW w \in Walkers, Step(w) PROVE PipelineInv'
  BY <1>5, StepKeeps
<1>6. ASSUME NEW w \in Walkers, Return(w) PROVE PipelineInv'
  BY <1>6, ReturnKeeps
<1>7. CASE UNCHANGED pipelineVars
  <2>1. UNCHANGED <<chainVars, adding, mu, bound, order, linked, walk>>
    BY <1>7 DEF pipelineVars
  <2>2. walk \in [Walkers -> Walk] /\ walk' = walk
    BY <2>1 DEF PipelineInv, PipelineType
  <2>3. PipelineType' /\ OrderInv' /\ NextInv' /\ PrevInv' /\ AddInv'
    BY <2>1, <2>2, ChainKept
  <2>4. OrderKept
    <3>1. Known \subseteq Live /\ \A c \in Live : Place(c) \in Int
      BY PlacesOrdered
    <3>2. Live' = Live /\ Known' = Known
      BY <2>1 DEF Live, Known, First, Rear, chainVars
    <3>3. ASSUME NEW c PROVE Place(c)' = Place(c) /\ Casts(c)' = Casts(c)
      BY <2>1 DEF Place, Casts, EndCasts, First, Rear, chainVars
    <3> QED BY <3>1, <3>2, <3>3 DEF OrderKept
  <2> QED BY <2>2, <2>3, <2>4, WalkKept DEF PipelineInv
<1> QED BY <1>1, <1>2, <1>3, <1>4, <1>5, <1>6, <1>7 DEF PipelineNext

\* Every event reaches the handlers of its kind in the order of the chain, none
\* twice, and misses none that was there when it set out (addFirst, addLast,
\* handlerContext.FireRead and its kin).
THEOREM PipelineDelivers == PipelineSpec => []DeliveredInOrder
<1>1. PipelineSpec => []PipelineInv
  BY PipelineBoot, PipelineStep, PTL DEF PipelineSpec
<1>2. PipelineInv => DeliveredInOrder
  BY DEF PipelineInv, WalkInv, OnTheWay, DeliveredInOrder
<1> QED BY <1>1, <1>2, PTL

-------------------------------------------------------------------------------
(* The idle handler *)

\* Types of what the argument is about.
IdleType ==
    /\ conn \in {"new", "active", "half", "closed"}
    /\ timer \in [Kinds -> BOOLEAN] /\ first \in [Kinds -> BOOLEAN] /\ told \in [Kinds -> BOOLEAN]
    /\ due \in [Kinds -> Int] /\ (\A k \in Kinds : due[k] >= Off)
    /\ firing \in [Kinds -> Nat] /\ tasks \in [Kinds -> Nat]
    /\ age \in [{"read", "write"} -> Int] /\ checksRefused \in Nat
    /\ check \in [at : {"none", "expired", "marked", "cleared"}, kind : Kinds \cup {"none"},
                  first : BOOLEAN, overtaken : BOOLEAN]

\* The context is there from HandleActive to HandleInactive, and the timers with it.
ContextInv ==
    /\ handlerCtx => conn \in {"active", "half"}
    /\ conn = "active" => handlerCtx /\ (\A k \in Kinds : timer[k])
    /\ conn = "new" => \A k \in Kinds : ~told[k]

\* A check under way has the context and found its silence long enough; only a
\* write can have ended it since.
CheckInv ==
    /\ check.at = "none" => check = NoCheck
    /\ check.at # "none" => /\ check.kind \in Kinds /\ handlerCtx
                            /\ ReadSilent(check.kind) /\ (WriteSilent(check.kind) \/ check.overtaken)

\* firstReadIdleEvent, or its copy once the check has cleared it, says whether
\* the silence has been reported.
ReaderInv ==
    "reader" \in Kinds =>
        /\ ~(check.kind = "reader" /\ check.at = "cleared") => (first["reader"] <=> ~told["reader"])
        /\ check.kind = "reader" /\ check.at = "cleared" => ~first["reader"]
        /\ check.kind = "reader" /\ check.at \in {"marked", "cleared"} => (check.first <=> ~told["reader"])

IdleInv == IdleType /\ ContextInv /\ CheckInv /\ ReaderInv /\ WatchKept

\* A new handler watches nothing.
LEMMA IdleBoot == IdleInit => IdleInv
BY DEF IdleInit, IdleInv, IdleType, ContextInv, CheckInv, ReaderInv, Never, NoCheck, Off, WatchKept

\* Every step keeps the types.
LEMMA IdleTypes == IdleInv /\ [IdleNext]_idleVars => IdleType'
<1> SUFFICES ASSUME IdleInv, [IdleNext]_idleVars PROVE IdleType'
  OBVIOUS
<1> USE IdleAssumption DEF Off, IdleInv, IdleType
<1>1. CASE HandleActive
  BY <1>1 DEF HandleActive
<1>2. CASE HandleInactive
  BY <1>2 DEF HandleInactive
<1>3. CASE HandleRead
  BY <1>3 DEF HandleRead, Reset
<1>4. CASE Tick
  BY <1>4 DEF Tick
<1>5. ASSUME NEW k \in Kinds, CheckIdle(k) PROVE IdleType'
  <2>1. /\ UNCHANGED <<conn, timer, firing, first, told, age, checksRefused>>
        /\ tasks' = [tasks EXCEPT ![k] = @ - 1] /\ tasks[k] > 0
        /\ due' = due \/ due' = [due EXCEPT ![k] = IdleTime]
        /\ check' = check \/ check' = [NoCheck EXCEPT !.at = "expired", !.kind = k]
    BY <1>5 DEF CheckIdle, Reset
  <2>2. check' \in [at : {"none", "expired", "marked", "cleared"}, kind : Kinds \cup {"none"},
                    first : BOOLEAN, overtaken : BOOLEAN]
    BY <2>1, ZenonT(30) DEF NoCheck
  <2>3. due' \in [Kinds -> Int] /\ (\A j \in Kinds : due'[j] >= Off) /\ tasks' \in [Kinds -> Nat]
    BY <2>1
  <2> QED BY <2>1, <2>2, <2>3
<1>6. CASE ReadFirst
  BY <1>6 DEF ReadFirst, CheckInv
<1>7. CASE ClearFirst
  BY <1>7 DEF ClearFirst, CheckInv
<1>8. CASE TriggerIdle
  <2>1. check.kind \in Kinds
    BY <1>8 DEF TriggerIdle, CheckInv
  <2>2. told' \in [Kinds -> BOOLEAN]
    BY <1>8, <2>1 DEF TriggerIdle
  <2> QED BY <1>8, <2>1, <2>2 DEF TriggerIdle, Reset, NoCheck
<1>9. ASSUME NEW k \in Kinds, TimerFires(k) PROVE IdleType'
  BY <1>9 DEF TimerFires
<1>10. ASSUME NEW k \in Kinds, OnTimeoutInEL(k) PROVE IdleType'
  BY <1>10 DEF OnTimeoutInEL
<1>11. CASE WriteStamps
  <2>1. check' = check \/ check' = [check EXCEPT !.overtaken = TRUE]
    BY <1>11 DEF WriteStamps
  <2>2. check' \in [at : {"none", "expired", "marked", "cleared"}, kind : Kinds \cup {"none"},
                    first : BOOLEAN, overtaken : BOOLEAN]
    BY <2>1
  <2> QED BY <1>11, <2>2 DEF WriteStamps
<1>12. CASE WriteFlags
  BY <1>12 DEF WriteFlags
<1>13. CASE WriteResets
  <2>1. /\ due' = due \/ due' = [due EXCEPT !["writer"] = IdleTime]
        /\ UNCHANGED <<conn, handlerCtx, timer, firing, tasks, first, age, checksRefused, check, told>>
    BY <1>13 DEF WriteResets, Reset
  <2> QED BY <2>1
<1>14. CASE UNCHANGED idleVars
  BY <1>14 DEF idleVars
<1> QED BY <1>1, <1>2, <1>3, <1>4, <1>5, <1>6, <1>7, <1>8, <1>9, <1>10, <1>11, <1>12, <1>13, <1>14
        DEF IdleNext, IdleLoopStep, CheckStep, TimerStep, WriterStep

\* Every step keeps the watch.
LEMMA IdleKept == IdleInv /\ [IdleNext]_idleVars => WatchKept'
<1> SUFFICES ASSUME IdleInv, [IdleNext]_idleVars PROVE WatchKept'
  OBVIOUS
<1> USE IdleAssumption DEF Off, IdleInv, IdleType, WatchKept
<1>1. CASE HandleActive
  BY <1>1 DEF HandleActive
<1>2. CASE HandleInactive
  BY <1>2 DEF HandleInactive
<1>3. CASE HandleRead
  BY <1>3 DEF HandleRead, Reset
<1>4. CASE Tick
  BY <1>4 DEF Tick
<1>5. ASSUME NEW k \in Kinds, CheckIdle(k) PROVE WatchKept'
  <2>1. /\ UNCHANGED <<conn, firing, checksRefused>> /\ check.kind = "none"
        /\ tasks' = [tasks EXCEPT ![k] = @ - 1]
    BY <1>5 DEF CheckIdle, NoCheck
  <2>2. \A j \in Kinds : j # k => tasks'[j] = tasks[j]
    BY <2>1
  <2>3. \/ conn # "active" /\ due' = due
        \/ due' = [due EXCEPT ![k] = IdleTime]
        \/ due' = due /\ check' = [NoCheck EXCEPT !.at = "expired", !.kind = k]
    BY <1>5 DEF CheckIdle, Reset, ContextInv
  <2>4. CASE conn # "active"
    BY <2>1, <2>4
  <2>5. CASE due' = [due EXCEPT ![k] = IdleTime]
    BY <2>1, <2>2, <2>5
  <2>6. CASE due' = due /\ check' = [NoCheck EXCEPT !.at = "expired", !.kind = k]
    <3>1. check'.kind = k
      BY <2>6 DEF NoCheck
    <3> QED BY <2>1, <2>2, <2>6, <3>1
  <2> QED BY <2>3, <2>4, <2>5, <2>6
<1>6. CASE ReadFirst
  BY <1>6 DEF ReadFirst
<1>7. CASE ClearFirst
  BY <1>7 DEF ClearFirst
<1>8. CASE TriggerIdle
  BY <1>8 DEF TriggerIdle, Reset, NoCheck, CheckInv
<1>9. ASSUME NEW k \in Kinds, TimerFires(k) PROVE WatchKept'
  BY <1>9 DEF TimerFires
<1>10. ASSUME NEW k \in Kinds, OnTimeoutInEL(k) PROVE WatchKept'
  BY <1>10 DEF OnTimeoutInEL, ContextInv
<1>11. CASE WriteStamps
  BY <1>11 DEF WriteStamps
<1>12. CASE WriteFlags
  BY <1>12 DEF WriteFlags
<1>13. CASE WriteResets
  <2>1. /\ due' = due \/ due' = [due EXCEPT !["writer"] = IdleTime]
        /\ UNCHANGED <<conn, firing, tasks, checksRefused, check>>
    BY <1>13 DEF WriteResets, Reset
  <2> QED BY <2>1
<1>14. CASE UNCHANGED idleVars
  BY <1>14 DEF idleVars
<1> QED BY <1>1, <1>2, <1>3, <1>4, <1>5, <1>6, <1>7, <1>8, <1>9, <1>10, <1>11, <1>12, <1>13, <1>14
        DEF IdleNext, IdleLoopStep, CheckStep, TimerStep, WriterStep

\* Every step keeps the context, the check under way and the reader's flag.
LEMMA IdleStep == IdleInv /\ [IdleNext]_idleVars => IdleInv'
<1> SUFFICES ASSUME IdleInv, [IdleNext]_idleVars PROVE ContextInv' /\ CheckInv' /\ ReaderInv'
  BY IdleTypes, IdleKept DEF IdleInv
<1> USE IdleAssumption DEF IdleInv, IdleType
<1>1. CASE HandleActive
  <2>1. check = NoCheck /\ check' = check
    BY <1>1 DEF HandleActive, ContextInv, CheckInv
  <2> QED BY <1>1, <2>1 DEF HandleActive, ContextInv, CheckInv, ReaderInv, NoCheck
<1>2. CASE HandleInactive
  BY <1>2 DEF HandleInactive, ContextInv, CheckInv, ReaderInv, NoCheck
<1>3. CASE HandleRead
  <2>1. check.at = "none" /\ check' = check /\ check = NoCheck
    BY <1>3 DEF HandleRead, NoCheck
  <2>2. ContextInv'
    BY <1>3 DEF HandleRead, ContextInv
  <2>3. "reader" \in Kinds => first'["reader"] /\ ~told'["reader"]
    BY <1>3 DEF HandleRead, EndedBy
  <2> QED BY <2>1, <2>2, <2>3 DEF CheckInv, ReaderInv
<1>4. CASE Tick
  <2>1. \A way \in {"read", "write"} : age[way] >= IdleTime => age'[way] >= IdleTime
    BY <1>4 DEF Tick
  <2> QED BY <1>4, <2>1 DEF Tick, ContextInv, CheckInv, ReaderInv, ReadSilent, WriteSilent
<1>5. ASSUME NEW k \in Kinds, CheckIdle(k) PROVE ContextInv' /\ CheckInv' /\ ReaderInv'
  <2>1. check = NoCheck /\ UNCHANGED <<conn, handlerCtx, timer, first, age, told>>
    BY <1>5 DEF CheckIdle
  <2>2. \/ check' = NoCheck
        \/ handlerCtx /\ Expired(k) /\ check' = [NoCheck EXCEPT !.at = "expired", !.kind = k]
    BY <1>5 DEF CheckIdle
  <2> QED BY <2>1, <2>2, ZenonT(30) DEF ContextInv, CheckInv, ReaderInv, NoCheck, Expired, ReadSilent, WriteSilent
<1>6. CASE ReadFirst
  BY <1>6 DEF ReadFirst, ContextInv, CheckInv, ReaderInv, ReadSilent, WriteSilent
<1>7. CASE ClearFirst
  BY <1>7 DEF ClearFirst, ContextInv, CheckInv, ReaderInv, ReadSilent, WriteSilent
<1>8. CASE TriggerIdle
  <2>1. /\ check.at = "cleared" /\ check.kind \in Kinds /\ handlerCtx /\ ReadSilent(check.kind)
        /\ check' = NoCheck /\ UNCHANGED <<conn, handlerCtx, timer, first>>
        /\ told' = [told EXCEPT ![check.kind] = @ \/ Expired(check.kind)]
    BY <1>8 DEF TriggerIdle, CheckInv
  <2>2. ContextInv' /\ CheckInv'
    <3>1. conn # "new" /\ conn' # "new"
      BY <2>1 DEF ContextInv
    <3> QED BY <2>1, <3>1 DEF ContextInv, CheckInv, NoCheck
  <2>3. CASE check.kind = "reader"
    <3>1. Expired("reader")
      BY <2>1, <2>3 DEF Expired, WriteSilent
    <3>2. told'["reader"]
      BY <2>1, <2>3, <3>1, ZenonT(30)
    <3>3. ~first["reader"]
      BY <2>1, <2>3 DEF ReaderInv
    <3> QED BY <2>1, <2>2, <2>3, <3>2, <3>3 DEF ReaderInv, NoCheck
  <2>4. CASE check.kind # "reader"
    BY <2>1, <2>2, <2>4 DEF ReaderInv, NoCheck
  <2> QED BY <2>3, <2>4
<1>9. ASSUME NEW k \in Kinds, TimerFires(k) PROVE ContextInv' /\ CheckInv' /\ ReaderInv'
  BY <1>9 DEF TimerFires, ContextInv, CheckInv, ReaderInv, ReadSilent, WriteSilent
<1>10. ASSUME NEW k \in Kinds, OnTimeoutInEL(k) PROVE ContextInv' /\ CheckInv' /\ ReaderInv'
  BY <1>10 DEF OnTimeoutInEL, ContextInv, CheckInv, ReaderInv, ReadSilent, WriteSilent
<1>11. CASE WriteStamps
  <2>1. CASE check.at = "none"
    <3>1. check' = NoCheck /\ check = NoCheck
      BY <1>11, <2>1 DEF WriteStamps, CheckInv, NoCheck
    <3> QED BY <1>11, <3>1 DEF WriteStamps, ContextInv, CheckInv, ReaderInv, NoCheck
  <2>2. CASE check.at # "none"
    <3>1. check' = [check EXCEPT !.overtaken = TRUE]
      BY <1>11, <2>2 DEF WriteStamps, NoCheck
    <3>2. age'["read"] = age["read"]
      BY <1>11 DEF WriteStamps
    <3> QED BY <1>11, <2>2, <3>1, <3>2 DEF WriteStamps, ContextInv, CheckInv, ReaderInv, ReadSilent
  <2> QED BY <2>1, <2>2
<1>12. CASE WriteFlags
  <2>1. "reader" \in Kinds => (first'["reader"] <=> first["reader"]) /\ (told'["reader"] <=> told["reader"])
    BY <1>12 DEF WriteFlags, EndedBy
  <2>2. \A k \in Kinds : told'[k] => told[k]
    BY <1>12 DEF WriteFlags
  <2>3. UNCHANGED <<conn, handlerCtx, timer, age, check>>
    BY <1>12 DEF WriteFlags
  <2> QED BY <2>1, <2>2, <2>3 DEF ContextInv, CheckInv, ReaderInv, ReadSilent, WriteSilent
<1>13. CASE WriteResets
  BY <1>13 DEF WriteResets, ContextInv, CheckInv, ReaderInv, ReadSilent, WriteSilent
<1>14. CASE UNCHANGED idleVars
  BY <1>14 DEF idleVars, ContextInv, CheckInv, ReaderInv, ReadSilent, WriteSilent
<1> QED BY <1>1, <1>2, <1>3, <1>4, <1>5, <1>6, <1>7, <1>8, <1>9, <1>10, <1>11, <1>12, <1>13, <1>14
        DEF IdleNext, IdleLoopStep, CheckStep, TimerStep, WriterStep

\* Only a check that found the silence long enough reports it.
LEMMA IdleTells ==
    ASSUME IdleInv, [IdleNext]_idleVars, event' # event
    PROVE  /\ conn # "closed"
           /\ ReadSilent(event'.kind)
           /\ WriteSilent(event'.kind) \/ check.overtaken
           /\ event'.kind = "reader" => (event'.first <=> ~told["reader"])
<1>1. TriggerIdle
  BY DEF IdleNext, IdleLoopStep, CheckStep, TimerStep, WriterStep, HandleActive, HandleInactive, HandleRead,
         Tick, CheckIdle, ReadFirst, ClearFirst, TimerFires, OnTimeoutInEL, WriteStamps, WriteFlags,
         WriteResets, idleVars
<1>2. event'.kind = check.kind /\ event'.first = check.first /\ check.at = "cleared"
  BY <1>1 DEF TriggerIdle
<1>3. check.kind \in Kinds /\ handlerCtx /\ ReadSilent(check.kind) /\ (WriteSilent(check.kind) \/ check.overtaken)
  BY <1>2 DEF IdleInv, CheckInv
<1>4. check.kind = "reader" => (check.first <=> ~told["reader"])
  BY <1>2, <1>3 DEF IdleInv, ReaderInv
<1>5. conn # "closed"
  BY <1>3 DEF IdleInv, ContextInv
<1>6. ReadSilent(event'.kind) /\ (WriteSilent(event'.kind) \/ check.overtaken)
  BY <1>2, <1>3 DEF ReadSilent, WriteSilent
<1> QED BY <1>2, <1>4, <1>5, <1>6, SMTT(30)

\* The watch on an active connection is never lost (checkIdle re-arms the timer,
\* HandleInactive alone takes the context away), and idle events are honest: a
\* reader's event reports a silence that lasts and says truly whether it is its
\* first, a writer's or an all event one that lasts or that a HandleWrite ended
\* between the check and the event, for every idle time and every set of idle
\* states.
THEOREM IdleIsSafe == IdleSpec => []WatchKept /\ IdleHonest
<1>1. IdleInv /\ [IdleNext]_idleVars => IdleInv'
  BY IdleStep
<1>2. IdleInv /\ [IdleNext]_idleVars =>
        [event' # event =>
          /\ conn # "closed"
          /\ ReadSilent(event'.kind)
          /\ WriteSilent(event'.kind) \/ check.overtaken
          /\ event'.kind = "reader" => (event'.first <=> ~told["reader"])]_idleVars
  BY IdleTells
<1>3. IdleInv => WatchKept
  BY DEF IdleInv
<1> QED BY IdleBoot, <1>1, <1>2, <1>3, PTL DEF IdleSpec, IdleHonest

-------------------------------------------------------------------------------
(* Options, listeners and dials *)

Configs(lists) == [set : BOOLEAN, certs : lists]
Pairs == Seq({"sign", "enc", "auth"})
Options == [type : Types, tls : Configs(Pairs), tlcp : Configs({<<>>, <<"sign", "enc">>}),
            cliType : Types, cliTls : Configs(Pairs), cliTlcp : Configs(Pairs)]
Listeners == [open : BOOLEAN, speaks : SUBSET {"plain", "tls", "tlcp"}]

\* What a constructor accepted is valid and stays as it is; a listener was opened
\* and a connection dialled under these options.
TransportInv ==
    /\ opts \in Options /\ lns \in Seq(Listeners)
    /\ made = "server" => ValidateServer(opts)
    /\ made = "client" => ValidateClient(opts)
    /\ run # "idle" => made = "server"
    /\ lns # <<>> => run # "idle"
    /\ \A i \in 1..Len(lns) : lns[i].speaks = tlsIfNeed
    /\ dial # "none" => made = "client" /\ dial \in Speaks(CliTLSType(opts))
    /\ run = "returned" => \A i \in 1..Len(lns) : ~lns[i].open

\* No options, no listeners.
LEMMA TransportBoot == TransportInit => TransportInv
<1> SUFFICES ASSUME TransportInit PROVE TransportInv
  OBVIOUS
<1>1. <<>> \in Pairs /\ NoConfig \in Configs(Pairs) /\ NoConfig \in Configs({<<>>, <<"sign", "enc">>})
  BY DEF NoConfig, Configs, Pairs
<1>2. NoOptions \in Options
  BY <1>1 DEF NoOptions, Options, Types
<1> QED BY <1>2 DEF TransportInit, TransportInv

\* The configurations the builders make.
LEMMA BuildersMake ==
    ASSUME NEW c, NEW iscli \in BOOLEAN
    PROVE  /\ buildTLSConfig(c, iscli).cfg \in Configs(Pairs) /\ buildTLSConfig(c, iscli).err \in BOOLEAN
           /\ buildTLCPConfig(c, iscli).cfg \in Configs(Pairs) /\ buildTLCPConfig(c, iscli).err \in BOOLEAN
           /\ ~iscli => buildTLCPConfig(c, iscli).cfg \in Configs({<<>>, <<"sign", "enc">>})
<1> DEFINE L == {<<>>, <<"sign">>, <<"auth">>, <<"sign", "enc">>}
<1>1. L \subseteq Pairs
  BY DEF Pairs
<1>2. \A certs \in L : Built(certs).cfg \in Configs(Pairs) /\ Built(certs).err = FALSE
  BY <1>1 DEF Built, Config, Configs
<1>3. Failed.cfg \in Configs(Pairs) /\ Failed.err = TRUE /\ Failed.cfg \in Configs({<<>>, <<"sign", "enc">>})
  BY DEF Failed, NoConfig, Configs, Pairs
<1>4. Built(<<"sign", "enc">>).cfg \in Configs({<<>>, <<"sign", "enc">>})
  BY DEF Built, Config, Configs
<1>5. buildTLSConfig(c, iscli) = Failed \/ \E certs \in L : buildTLSConfig(c, iscli) = Built(certs)
  BY DEF buildTLSConfig
<1>6. \/ buildTLCPConfig(c, iscli) = Failed
      \/ ~iscli /\ buildTLCPConfig(c, iscli) = Built(<<"sign", "enc">>)
      \/ iscli /\ \E certs \in L : buildTLCPConfig(c, iscli) = Built(certs)
  BY DEF buildTLCPConfig
<1>7. <<"sign", "enc">> \in L
  OBVIOUS
<1> HIDE DEF L
<1> QED BY <1>2, <1>3, <1>4, <1>5, <1>6, <1>7

\* Options stay options, whatever is configured.
LEMMA OptionsStay ==
    ASSUME NEW o \in Options, NEW sec \in Securities
    PROVE  WithAgTLSConfig(o, sec).opts \in Options /\ WithAgClientTLSConfig(o, sec).opts \in Options
<1>1. ASSUME NEW p \in Options, NEW iscli \in BOOLEAN PROVE SecurityOptions(p, sec, iscli).opts \in Options
  <2> DEFINE t == IF sec.type \in {"tls", "tls_tlcp"} THEN buildTLSConfig(sec.tls, iscli)
                  ELSE [err |-> FALSE, cfg |-> IF iscli THEN p.cliTls ELSE p.tls]
             l == IF sec.type \in {"tlcp", "tls_tlcp"} THEN buildTLCPConfig(sec.tlcp, iscli)
                  ELSE [err |-> FALSE, cfg |-> IF iscli THEN p.cliTlcp ELSE p.tlcp]
  <2>1. /\ p.tls \in Configs(Pairs) /\ p.cliTls \in Configs(Pairs) /\ p.cliTlcp \in Configs(Pairs)
        /\ p.tlcp \in Configs({<<>>, <<"sign", "enc">>})
    BY DEF Options
  <2>2. t.cfg \in Configs(Pairs)
    BY <2>1, BuildersMake
  <2>3. (iscli => l.cfg \in Configs(Pairs)) /\ (~iscli => l.cfg \in Configs({<<>>, <<"sign", "enc">>}))
    BY <2>1, BuildersMake
  <2>4. SecurityOptions(p, sec, iscli).opts =
          IF iscli THEN [p EXCEPT !.cliTls = t.cfg, !.cliTlcp = l.cfg]
          ELSE [p EXCEPT !.tls = t.cfg, !.tlcp = l.cfg]
    BY DEF SecurityOptions
  <2> HIDE DEF t, l
  <2> QED BY <2>2, <2>3, <2>4 DEF Options
<1>2. sec.type \in Types /\ sec.cliType \in Types
  BY TransportAssumption
<1>3. WithAgTLSConfig(o, sec).opts \in Options
  <2>1. [o EXCEPT !.type = sec.type] \in Options
    BY <1>2 DEF Options
  <2> QED BY <2>1, <1>1 DEF WithAgTLSConfig
<1>4. WithAgClientTLSConfig(o, sec).opts \in Options
  <2> DEFINE declared == IF sec.cliType = "" THEN sec.type ELSE sec.cliType
             t == IF declared = "tls_tlcp" THEN "tls" ELSE declared
  <2>1. t \in Types
    BY <1>2 DEF Types
  <2>2. [o EXCEPT !.cliType = t] \in Options
    BY <2>1 DEF Options
  <2>3. WithAgClientTLSConfig(o, sec) =
          IF t \notin {"tls", "tlcp"} THEN [err |-> FALSE, opts |-> o]
          ELSE SecurityOptions([o EXCEPT !.cliType = t], sec, TRUE)
    BY DEF WithAgClientTLSConfig
  <2> HIDE DEF t
  <2>4. CASE t \notin {"tls", "tlcp"}
    <3>1. WithAgClientTLSConfig(o, sec) = [err |-> FALSE, opts |-> o]
      BY <2>3, <2>4
    <3> QED BY <3>1
  <2>5. CASE t \in {"tls", "tlcp"}
    BY <2>2, <2>3, <2>5, <1>1
  <2> QED BY <2>4, <2>5
<1> QED BY <1>3, <1>4

\* While nothing is made, there are no listeners and no dial.
LEMMA MakesKeeps ==
    ASSUME TransportInv, made = "no", NEW o \in Options, opts' = o,
           made' = "server" => ValidateServer(o), made' = "client" => ValidateClient(o),
           UNCHANGED <<run, todo, lns, eng, dial>>
    PROVE  TransportInv'
<1>1. run = "idle" /\ lns = <<>> /\ dial = "none"
  BY DEF TransportInv
<1>2. ValidateServer(opts)' = ValidateServer(o) /\ ValidateClient(opts)' = ValidateClient(o)
  BY DEF ValidateServer, ValidateClient, CliTLSType, CliTLSConfig, CliTLCPConfig
<1>3. Len(lns') = 0
  BY <1>1
<1>4. opts' \in Options /\ lns' \in Seq(Listeners)
  BY DEF TransportInv
<1>5. \A i \in 1..Len(lns') : FALSE
  BY <1>3
<1> QED BY <1>1, <1>2, <1>4, <1>5 DEF TransportInv

\* Options are fixed once something is made.
LEMMA MadeKeeps ==
    ASSUME TransportInv, UNCHANGED <<opts, made>>, lns' \in Seq(Listeners),
           run' # "idle" => made = "server", lns' # <<>> => run' # "idle",
           \A i \in 1..Len(lns') : lns'[i].speaks = tlsIfNeed,
           dial' # "none" => made = "client" /\ dial' \in Speaks(CliTLSType(opts)),
           run' = "returned" => \A i \in 1..Len(lns') : ~lns'[i].open
    PROVE  TransportInv'
<1>1. /\ ValidateServer(opts)' = ValidateServer(opts) /\ ValidateClient(opts)' = ValidateClient(opts)
      /\ tlsIfNeed' = tlsIfNeed /\ CliTLSType(opts)' = CliTLSType(opts)
  BY DEF ValidateServer, ValidateClient, CliTLSType, CliTLSConfig, CliTLCPConfig, tlsIfNeed
<1> QED BY <1>1 DEF TransportInv

\* One functional option.
LEMMA WithKeeps ==
    ASSUME TransportInv, NEW c \in {NoConfig, Config(<<>>)}, NEW t \in Types,
           \/ WithTLSType(t) \/ WithCliTLSType(t)
           \/ WithTLSConfig(c) \/ WithCliTLSConfig(c) \/ WithTLCPConfig(c) \/ WithCliTLCPConfig(c)
    PROVE  TransportInv'
<1>1. opts \in Options
  BY DEF TransportInv
<1>2. c \in Configs(Pairs) /\ c \in Configs({<<>>, <<"sign", "enc">>})
  <2>1. <<>> \in Pairs
    BY DEF Pairs
  <2>2. PICK b \in BOOLEAN : c = [set |-> b, certs |-> <<>>]
    BY DEF NoConfig, Config
  <2> QED BY <2>1, <2>2 DEF Configs
<1>3. /\ made = "no" /\ UNCHANGED <<made, run, todo, lns, eng, dial>>
      /\ \/ opts' = [opts EXCEPT !["type"] = t] \/ opts' = [opts EXCEPT !["cliType"] = t]
         \/ opts' = [opts EXCEPT !["tls"] = c] \/ opts' = [opts EXCEPT !["cliTls"] = c]
         \/ opts' = [opts EXCEPT !["tlcp"] = c] \/ opts' = [opts EXCEPT !["cliTlcp"] = c]
  BY DEF WithTLSType, WithCliTLSType, WithTLSConfig, WithCliTLSConfig, WithTLCPConfig, WithCliTLCPConfig, With
<1>4. opts' \in Options
  BY <1>1, <1>2, <1>3 DEF Options
<1>5. PICK o \in Options : opts' = o
  BY <1>4
<1> QED BY <1>3, <1>5, MakesKeeps

\* The four constructors.
LEMMA NewKeeps ==
    ASSUME TransportInv,
           \/ NewServerWithOptions \/ NewClientWithOptions
           \/ \E sec \in Securities : NewServer(sec) \/ NewClient(sec)
    PROVE  TransportInv'
<1>1. opts \in Options
  BY DEF TransportInv
<1>2. CASE NewServerWithOptions
  BY <1>1, <1>2, MakesKeeps DEF NewServerWithOptions, Makes
<1>3. CASE NewClientWithOptions
  BY <1>1, <1>3, MakesKeeps DEF NewClientWithOptions, Makes
<1>4. ASSUME NEW sec \in Securities, NewServer(sec) PROVE TransportInv'
  <2>1. PICK w : w = WithAgTLSConfig(NoOptions, sec)
    OBVIOUS
  <2>2. w.opts \in Options
    BY <1>1, <1>4, <2>1, OptionsStay DEF NewServer
  <2>3. Makes("server", w.opts, ~w.err /\ ValidateServer(w.opts))
    BY <1>4, <2>1 DEF NewServer
  <2> QED BY <2>2, <2>3, MakesKeeps DEF Makes
<1>5. ASSUME NEW sec \in Securities, NewClient(sec) PROVE TransportInv'
  <2>1. PICK w : w = IF sec.type \in Plain THEN [err |-> FALSE, opts |-> NoOptions]
                     ELSE WithAgClientTLSConfig(NoOptions, sec)
    OBVIOUS
  <2>2. opts = NoOptions /\ Makes("client", w.opts, ~w.err /\ ValidateClient(w.opts))
    BY <1>5, <2>1 DEF NewClient
  <2>3. w.opts \in Options
    <3>1. CASE sec.type \in Plain
      <4>1. w.opts = NoOptions
        BY <2>1, <3>1
      <4> QED BY <4>1, <2>2, <1>1
    <3>2. CASE sec.type \notin Plain
      BY <2>1, <2>2, <3>2, <1>1, OptionsStay
    <3> QED BY <3>1, <3>2
  <2> QED BY <2>2, <2>3, MakesKeeps DEF Makes
<1> QED BY <1>2, <1>3, <1>4, <1>5

\* Closing the listeners.
LEMMA ReleasedAll ==
    ASSUME lns \in Seq(Listeners), Released
    PROVE  /\ lns' \in Seq(Listeners) /\ Len(lns') = Len(lns)
           /\ \A i \in 1..Len(lns) : lns'[i].open = FALSE /\ lns'[i].speaks = lns[i].speaks
<1>1. DOMAIN lns = 1..Len(lns) /\ Len(lns) \in Nat /\ (\A i \in 1..Len(lns) : lns[i] \in Listeners)
  OBVIOUS
<1>2. lns' = [i \in 1..Len(lns) |-> [lns[i] EXCEPT !.open = FALSE]]
  BY <1>1 DEF Released
<1>3. \A i \in 1..Len(lns) : /\ [lns[i] EXCEPT !.open = FALSE] \in Listeners
                             /\ [lns[i] EXCEPT !.open = FALSE].open = FALSE
                             /\ [lns[i] EXCEPT !.open = FALSE].speaks = lns[i].speaks
  BY <1>1 DEF Listeners
<1>4. PICK n \in Nat : n = Len(lns)
  BY <1>1
<1>5. lns' \in [1..n -> Listeners]
  BY <1>2, <1>3, <1>4
<1>6. lns' \in Seq(Listeners) /\ Len(lns') = n
  BY <1>5
<1> QED BY <1>2, <1>3, <1>4, <1>6

\* The server's run and Stop.
LEMMA RunKeeps ==
    ASSUME TransportInv, Run \/ StopServer
    PROVE  TransportInv'
<1>1. /\ lns \in Seq(Listeners) /\ (\A i \in 1..Len(lns) : lns[i].speaks = tlsIfNeed)
      /\ (run # "idle" => made = "server") /\ (lns # <<>> => run # "idle")
      /\ (run = "returned" => \A i \in 1..Len(lns) : ~lns[i].open)
      /\ (dial # "none" => made = "client" /\ dial \in Speaks(CliTLSType(opts)))
  BY DEF TransportInv
<1>2. CASE Start
  <2>1. lns = <<>>
    BY <1>1, <1>2 DEF Start
  <2> QED BY <2>1, <1>1, <1>2, MadeKeeps DEF Start
<1>3. CASE Listen
  <2>1. UNCHANGED <<opts, made, eng, dial>> /\ run = "listen"
    BY <1>3 DEF Listen
  <2>2. \/ lns' = Append(lns, [open |-> TRUE, speaks |-> tlsIfNeed]) /\ run' = run
        \/ run' = "failed" /\ lns' = lns
    BY <1>3 DEF Listen
  <2>3. CASE lns' = lns
    BY <2>1, <2>2, <2>3, <1>1, MadeKeeps
  <2>4. CASE lns' = Append(lns, [open |-> TRUE, speaks |-> tlsIfNeed]) /\ run' = run
    <3>1. PICK l : l = [open |-> TRUE, speaks |-> tlsIfNeed]
      OBVIOUS
    <3>2. l \in Listeners /\ l.speaks = tlsIfNeed
      BY <3>1 DEF Listeners, tlsIfNeed
    <3>3. /\ lns' \in Seq(Listeners) /\ Len(lns') = Len(lns) + 1 /\ lns'[Len(lns) + 1] = l
          /\ \A i \in 1..Len(lns) : lns'[i] = lns[i]
      BY <2>4, <3>1, <3>2, <1>1
    <3>4. \A i \in 1..Len(lns') : lns'[i].speaks = tlsIfNeed
      BY <3>2, <3>3, <1>1
    <3> QED BY <2>1, <2>4, <3>3, <3>4, <1>1, MadeKeeps
  <2> QED BY <2>2, <2>3, <2>4
<1>4. CASE Assign
  BY <1>1, <1>4, MadeKeeps DEF Assign
<1>5. CASE Boot
  <2>1. UNCHANGED <<opts, made, dial>> /\ run = "boot"
    BY <1>5 DEF Boot
  <2>2. CASE run' = "serve" /\ UNCHANGED lns
    BY <2>1, <2>2, <1>1, MadeKeeps
  <2>3. CASE run' = "returned" /\ Released
    BY <2>1, <2>3, <1>1, ReleasedAll, MadeKeeps
  <2> QED BY <2>2, <2>3, <1>5 DEF Boot
<1>6. CASE AcceptFails
  BY <1>1, <1>6, MadeKeeps DEF AcceptFails
<1>7. CASE Ends
  <2>1. UNCHANGED <<opts, made, dial>> /\ run = "serve" /\ run' = "returned" /\ Released
    BY <1>7 DEF Ends
  <2> QED BY <2>1, <1>1, ReleasedAll, MadeKeeps
<1>8. CASE StopServer
  BY <1>1, <1>8, MadeKeeps DEF StopServer
<1> QED BY <1>2, <1>3, <1>4, <1>5, <1>6, <1>7, <1>8 DEF Run

\* A dial with options ValidateClient accepted.
LEMMA DialKeeps == ASSUME TransportInv, DialContext PROVE TransportInv'
<1>1. /\ made = "client" /\ ValidateClient(opts) /\ UNCHANGED <<opts, made, run, lns>>
      /\ lns \in Seq(Listeners) /\ (\A i \in 1..Len(lns) : lns[i].speaks = tlsIfNeed)
      /\ (run # "idle" => made = "server") /\ (lns # <<>> => run # "idle")
      /\ (run = "returned" => \A i \in 1..Len(lns) : ~lns[i].open)
  BY DEF TransportInv, DialContext
<1>2. dial' \in Speaks(CliTLSType(opts))
  BY <1>1 DEF DialContext, ValidateClient, Speaks, Plain
<1> QED BY <1>1, <1>2, MadeKeeps

\* Every step keeps the invariant.
LEMMA TransportStep == TransportInv /\ [TransportNext]_transportVars => TransportInv'
<1> SUFFICES ASSUME TransportInv, [TransportNext]_transportVars PROVE TransportInv'
  OBVIOUS
<1>1. CASE \E t \in Types : WithTLSType(t) \/ WithCliTLSType(t)
  BY <1>1, WithKeeps
<1>2. CASE \E c \in {NoConfig, Config(<<>>)} : \/ WithTLSConfig(c) \/ WithCliTLSConfig(c)
                                               \/ WithTLCPConfig(c) \/ WithCliTLCPConfig(c)
  <2>1. "none" \in Types
    BY DEF Types
  <2> QED BY <1>2, <2>1, WithKeeps
<1>3. CASE \/ NewServerWithOptions \/ NewClientWithOptions
           \/ \E sec \in Securities : NewServer(sec) \/ NewClient(sec)
  BY <1>3, NewKeeps
<1>4. CASE Run \/ StopServer
  BY <1>4, RunKeeps
<1>5. CASE DialContext
  BY <1>5, DialKeeps
<1>6. CASE UNCHANGED transportVars
  <2>1. UNCHANGED <<opts, made, run, lns, dial>>
    BY <1>6 DEF transportVars
  <2> QED BY <2>1, MadeKeeps DEF TransportInv
<1> QED BY <1>1, <1>2, <1>3, <1>4, <1>5, <1>6 DEF TransportNext

\* What the invariant says of listeners, dials and ports.
LEMMA TransportSafe == TransportInv => DeclaredIsSpoken /\ PortsReleased
<1> SUFFICES ASSUME TransportInv PROVE DeclaredIsSpoken /\ PortsReleased
  OBVIOUS
<1>1. DOMAIN lns = 1..Len(lns) /\ (\A i \in 1..Len(lns) : lns # <<>>)
  BY DEF TransportInv
<1>2. opts.tlcp.certs \in {<<>>, <<"sign", "enc">>}
  BY DEF TransportInv, Options, Configs
<1>3. ASSUME ValidateServer(opts)
      PROVE  /\ Speaks(opts.type) \subseteq tlsIfNeed /\ ("plain" \in tlsIfNeed <=> opts.type \in Plain)
             /\ tlsIfNeed \subseteq Speaks(opts.type) \cup {p \in {"tls", "tlcp"} : opts[p].set}
  BY <1>3 DEF ValidateServer, Speaks, tlsIfNeed, Plain
<1>4. \A i \in DOMAIN lns :
        /\ Speaks(opts.type) \subseteq lns[i].speaks /\ ("plain" \in lns[i].speaks <=> opts.type \in Plain)
        /\ lns[i].speaks \subseteq Speaks(opts.type) \cup {p \in {"tls", "tlcp"} : opts[p].set}
  BY <1>1, <1>3 DEF TransportInv
<1>5. dial # "none" => dial \in Speaks(CliTLSType(opts))
  BY DEF TransportInv
<1>6. PortsReleased
  BY <1>1 DEF TransportInv, PortsReleased
<1> QED BY <1>2, <1>4, <1>5, <1>6 DEF DeclaredIsSpoken

\* What is declared is spoken, nothing that is not configured is, and a server
\* that returns after its listeners were made holds no port, for all
\* configurations, all orders of options and all lists of addresses
\* (ValidateServer, ValidateClient, tlsIfNeed, server.run).
THEOREM TransportIsSafe == TransportSpec => [](DeclaredIsSpoken /\ PortsReleased)
<1>1. TransportInv /\ [TransportNext]_transportVars => TransportInv'
  BY TransportStep
<1> QED BY TransportBoot, <1>1, TransportSafe, PTL DEF TransportSpec

-------------------------------------------------------------------------------
(* A request and the close of a poisoned connection *)

Queued(t, q) == \E i \in 1..Len(q) : q[i] = t
Pends(t) == posting[t] > 0 \/ sending[t] > 0 \/ Queued(t, queue)

RequestType ==
    /\ queue \in Seq(Tasks) /\ posting \in [Tasks -> Nat] /\ sending \in [Tasks -> Nat] /\ refused \in Nat

\* The two tasks somebody waits for are under way once at most, and as long as
\* the caller waits.
Single(t, q) == \A i, j \in 1..Len(q) : q[i] = t /\ q[j] = t => i = j
OneTask(t) ==
    /\ posting[t] + sending[t] <= 1 /\ Single(t, queue)
    /\ posting[t] + sending[t] = 1 => ~Queued(t, queue)
WaitInv ==
    /\ OneTask("get") /\ (Pends("get") => caller = "wait")
    /\ OneTask("write") /\ (Pends("write") => caller = "written?")

\* The close of the channel is under way, or nothing is left to close.
Closing == ~reg \/ ctxDone \/ refused > 0 \/ Pends("closeChannel")

\* One goroutine at a time is in the exception chain, and the one that leaves the
\* flag behind closes the connection or the channel.
PoisonInv ==
    /\ inShutdown => ctxDone
    /\ loop = "gone" => ctxDone
    /\ caller = "dial" => ~reg /\ ~handling /\ ~closed /\ loop # "exception"
    /\ closed => Closing
    /\ loop = "exception" => handling /\ caller # "exception"
    /\ caller = "exception" => handling
    /\ handling /\ loop # "exception" /\ caller # "exception" => closed \/ ~reg

RequestInv == RequestType /\ WaitInv /\ PoisonInv

\* Queues.
LEMMA QueueTail ==
    ASSUME NEW q \in Seq(Tasks), q # <<>>, NEW t
    PROVE  /\ Tail(q) \in Seq(Tasks) /\ Queued(Head(q), q)
           /\ Queued(t, Tail(q)) => Queued(t, q)
           /\ Queued(t, q) /\ Head(q) # t => Queued(t, Tail(q))
           /\ Single(t, q) => Single(t, Tail(q))
           /\ Single(t, q) /\ Head(q) = t => ~Queued(t, Tail(q))
<1>1. /\ Len(q) \in Nat /\ Len(q) > 0 /\ Tail(q) \in Seq(Tasks) /\ Len(Tail(q)) = Len(q) - 1
      /\ Head(q) = q[1] /\ \A i \in 1..(Len(q) - 1) : Tail(q)[i] = q[i + 1]
  OBVIOUS
<1>2. PICK r, n : r = Tail(q) /\ n = Len(q)
  OBVIOUS
<1>3. Queued(t, r) => Queued(t, q)
  <2> SUFFICES ASSUME NEW i \in 1..Len(r), r[i] = t PROVE \E j \in 1..n : q[j] = t
    BY <1>2 DEF Queued
  <2>1. i + 1 \in 1..n /\ q[i + 1] = t
    BY <1>1, <1>2
  <2> QED BY <2>1
<1>4. Queued(t, q) /\ Head(q) # t => Queued(t, r)
  <2> SUFFICES ASSUME NEW i \in 1..n, q[i] = t, q[1] # t PROVE \E j \in 1..Len(r) : r[j] = t
    BY <1>1, <1>2 DEF Queued
  <2>1. i - 1 \in 1..Len(r) /\ (i - 1) + 1 = i
    BY <1>1, <1>2
  <2>2. r[i - 1] = q[(i - 1) + 1]
    BY <2>1, <1>1, <1>2
  <2> QED BY <2>1, <2>2
<1>5. Single(t, q) => Single(t, r)
  <2> SUFFICES ASSUME Single(t, q), NEW i \in 1..Len(r), NEW j \in 1..Len(r), r[i] = t, r[j] = t PROVE i = j
    BY DEF Single
  <2>1. i + 1 \in 1..Len(q) /\ j + 1 \in 1..Len(q) /\ q[i + 1] = t /\ q[j + 1] = t
    BY <1>1, <1>2
  <2>2. i + 1 = j + 1
    BY <2>1 DEF Single
  <2> QED BY <2>2, <1>1, <1>2
<1>6. Single(t, q) /\ Head(q) = t => ~Queued(t, r)
  <2> SUFFICES ASSUME Single(t, q), q[1] = t, NEW i \in 1..Len(r), r[i] = t PROVE FALSE
    BY <1>1 DEF Queued
  <2>1. i + 1 \in 1..Len(q) /\ q[i + 1] = t /\ 1 \in 1..Len(q) /\ i + 1 # 1
    BY <1>1, <1>2
  <2> QED BY <2>1 DEF Single
<1>7. Queued(Head(q), q)
  BY <1>1 DEF Queued
<1> QED BY <1>1, <1>2, <1>3, <1>4, <1>5, <1>6, <1>7

LEMMA QueueAppend ==
    ASSUME NEW q \in Seq(Tasks), NEW u \in Tasks, NEW t
    PROVE  /\ Append(q, u) \in Seq(Tasks) /\ Queued(u, Append(q, u))
           /\ Queued(t, q) => Queued(t, Append(q, u))
           /\ Queued(t, Append(q, u)) => Queued(t, q) \/ t = u
           /\ Single(t, q) /\ (t # u \/ ~Queued(t, q)) => Single(t, Append(q, u))
<1>1. PICK r, n : r = Append(q, u) /\ n = Len(q)
  OBVIOUS
<1>2. /\ n \in Nat /\ r \in Seq(Tasks) /\ Len(r) = n + 1 /\ r[n + 1] = u
      /\ \A i \in 1..n : r[i] = q[i]
  BY <1>1, Appended
<1>3. \A i \in 1..Len(r) : i \in 1..n \/ i = n + 1
  BY <1>2
<1>4. (\A i \in 1..n : i \in 1..Len(r)) /\ n + 1 \in 1..Len(r)
  BY <1>2
<1>5. Queued(u, r) /\ (Queued(t, q) => Queued(t, r)) /\ (Queued(t, r) => Queued(t, q) \/ t = u)
  BY <1>1, <1>2, <1>3, <1>4, Zenon DEF Queued
<1>6. Single(t, q) /\ (t # u \/ ~Queued(t, q)) => Single(t, r)
  BY <1>1, <1>2, <1>3, <1>4 DEF Queued, Single
<1> QED BY <1>1, <1>2, <1>5, <1>6

\* A step that leaves the task t alone, or takes it from the queue.
Calm(t) ==
    /\ posting'[t] = posting[t] /\ sending'[t] = sending[t]
    /\ Queued(t, queue') => Queued(t, queue)
    /\ Single(t, queue) => Single(t, queue')

\* What closing does to the pool: it may post the close of the channel.
PoolGrows ==
    /\ posting' \in [Tasks -> Nat] /\ sending' = sending /\ refused' \in Nat /\ refused' >= refused
    /\ \A t \in Tasks : posting'[t] >= posting[t]
    /\ \A t \in Tasks \ {"closeChannel"} : posting'[t] = posting[t]

LEMMA WaitKept ==
    ASSUME RequestInv, Calm("get"), Calm("write"),
           caller' = caller \/ caller \notin {"wait", "written?"}
    PROVE  WaitInv'
<1>1. ASSUME NEW t, Calm(t), OneTask(t) PROVE OneTask(t)' /\ (Pends(t)' => Pends(t))
  BY <1>1 DEF Calm, OneTask, Pends, Queued, Single
<1>2. OneTask("get") /\ OneTask("write")
  BY DEF RequestInv, WaitInv
<1>3. /\ OneTask("get")' /\ (Pends("get")' => Pends("get"))
      /\ OneTask("write")' /\ (Pends("write")' => Pends("write"))
  BY <1>1, <1>2
<1> QED BY <1>3 DEF RequestInv, WaitInv

LEMMA Submits ==
    ASSUME RequestType, NEW t \in Tasks, NEW ok \in BOOLEAN, Submit(t, ok)
    PROVE  /\ posting' \in [Tasks -> Nat] /\ sending' = sending /\ refused' \in Nat /\ refused' >= refused
           /\ \A u \in Tasks : posting'[u] >= posting[u] /\ (u # t => posting'[u] = posting[u])
           /\ ok => posting'[t] = posting[t] + 1
           /\ ~ok => refused' > 0 /\ posting' = posting
<1>1. CASE ok
  <2>1. posting' = [posting EXCEPT ![t] = @ + 1] /\ refused' = refused /\ sending' = sending
    BY <1>1 DEF Submit
  <2> QED BY <1>1, <2>1 DEF RequestType
<1>2. CASE ~ok
  <2>1. posting' = posting /\ refused' = refused + 1 /\ sending' = sending
    BY <1>2 DEF Submit
  <2> QED BY <1>2, <2>1 DEF RequestType
<1> QED BY <1>1, <1>2

\* channel.Close: the first one posts the task, unless the pool refuses it or the
\* engine has shut down.
LEMMA ChannelCloses ==
    ASSUME RequestInv, ChannelClose
    PROVE  /\ PoolGrows /\ closed'
           /\ closed \/ ctxDone \/ refused' > 0 \/ posting'["closeChannel"] > 0
<1>1. RequestType /\ "closeChannel" \in Tasks /\ (inShutdown => ctxDone)
  BY DEF RequestInv, PoisonInv, Tasks
<1>2. CASE closed /\ UNCHANGED <<closed, poolVars>>
  BY <1>1, <1>2 DEF poolVars, PoolGrows, RequestType
<1>3. CASE ~closed /\ closed' = TRUE /\ \E ok \in BOOLEAN : Execute("closeChannel", ok)
  <2>1. PICK ok \in BOOLEAN : Execute("closeChannel", ok)
    BY <1>3
  <2>2. CASE inShutdown
    BY <1>1, <1>3, <2>1, <2>2 DEF Execute, poolVars, PoolGrows, RequestType
  <2>3. CASE ~inShutdown
    <3>1. Submit("closeChannel", ok)
      BY <2>1, <2>3 DEF Execute
    <3>2. /\ posting' \in [Tasks -> Nat] /\ sending' = sending /\ refused' \in Nat /\ refused' >= refused
          /\ \A u \in Tasks : posting'[u] >= posting[u] /\ (u # "closeChannel" => posting'[u] = posting[u])
          /\ ok => posting'["closeChannel"] = posting["closeChannel"] + 1
          /\ ~ok => refused' > 0 /\ posting' = posting
      BY <1>1, <3>1, Submits
    <3>3. PoolGrows
      BY <3>2 DEF PoolGrows
    <3>4. ok => posting'["closeChannel"] > 0
      BY <1>1, <3>2 DEF RequestType
    <3> QED BY <1>3, <3>2, <3>3, <3>4
  <2> QED BY <2>2, <2>3
<1> QED BY <1>2, <1>3 DEF ChannelClose

\* eventloop.close leaves nothing open.
LEMMA LoopClosesAll ==
    ASSUME RequestInv, NEW ex, LoopClose(ex)
    PROVE  ~reg' /\ PoolGrows
<1>1. CASE ~reg
  BY <1>1 DEF LoopClose, poolVars, PoolGrows, RequestInv, RequestType
<1>2. CASE reg
  <2>1. OnClose(ex) /\ reg' = FALSE
    BY <1>2 DEF LoopClose
  <2>2. CASE connCtx = "channel"
    BY <2>1, <2>2, ChannelCloses DEF OnClose
  <2>3. CASE connCtx # "channel"
    BY <2>1, <2>3 DEF OnClose, poolVars, PoolGrows, RequestInv, RequestType
  <2> QED BY <2>1, <2>2, <2>3
<1> QED BY <1>1, <1>2

\* With the queue as it is, or without its head.
LEMMA PoolGrowsKeeps ==
    ASSUME RequestInv, PoolGrows, queue' = queue \/ (queue # <<>> /\ queue' = Tail(queue)) \/ queue' = <<>>
    PROVE  /\ RequestType' /\ Calm("get") /\ Calm("write")
           /\ /\ Pends("closeChannel")
              /\ queue' = queue \/ (queue # <<>> /\ queue' = Tail(queue) /\ Head(queue) # "closeChannel")
              => Pends("closeChannel")'
<1>1. /\ queue \in Seq(Tasks) /\ posting \in [Tasks -> Nat] /\ sending \in [Tasks -> Nat]
      /\ {"get", "write", "closeChannel"} \subseteq Tasks
  BY DEF RequestInv, RequestType, Tasks
<1>2. queue' \in Seq(Tasks)
  <2>1. <<>> \in Seq(Tasks)
    OBVIOUS
  <2>2. queue # <<>> => Tail(queue) \in Seq(Tasks)
    BY <1>1, QueueTail
  <2> QED BY <1>1, <2>1, <2>2
<1>3. RequestType'
  BY <1>1, <1>2 DEF PoolGrows, RequestType
<1>4. ASSUME NEW t PROVE (Queued(t, queue') => Queued(t, queue)) /\ (Single(t, queue) => Single(t, queue'))
  <2>1. CASE queue' = <<>>
    BY <2>1 DEF Queued, Single
  <2>2. CASE queue # <<>> /\ queue' = Tail(queue)
    BY <2>2, <1>1, QueueTail
  <2> QED BY <2>1, <2>2
<1>5. Calm("get") /\ Calm("write")
  BY <1>1, <1>4 DEF PoolGrows, Calm
<1>6. ASSUME Pends("closeChannel"),
             queue' = queue \/ (queue # <<>> /\ queue' = Tail(queue) /\ Head(queue) # "closeChannel")
      PROVE  Pends("closeChannel")'
  <2>1. CASE posting["closeChannel"] > 0 \/ sending["closeChannel"] > 0
    BY <2>1, <1>1, <1>3 DEF PoolGrows, Pends, RequestType
  <2>2. CASE Queued("closeChannel", queue)
    <3>1. queue # <<>> /\ Head(queue) # "closeChannel" => Queued("closeChannel", Tail(queue))
      BY <2>2, <1>1, QueueTail
    <3>2. Queued("closeChannel", queue')
      BY <2>2, <3>1, <1>6
    <3> QED BY <3>2 DEF Pends, Queued
  <2> QED BY <2>1, <2>2, <1>6 DEF Pends
<1> QED BY <1>3, <1>5, <1>6

\* The pool and the queue stay as they are.
LEMMA SamePool ==
    ASSUME RequestInv, UNCHANGED <<queue, poolVars>>
    PROVE  PoolGrows /\ queue' = queue
BY DEF RequestInv, RequestType, PoolGrows, poolVars

\* trySend: the task is queued, or given to the pool.
LEMMA TrySends ==
    ASSUME RequestInv, NEW q \in Seq(Tasks), NEW t \in Tasks, NEW ok \in BOOLEAN, TrySend(q, t, ok)
    PROVE  /\ RequestType' /\ sending' = sending /\ refused' >= refused
           /\ \A u \in Tasks : posting'[u] >= posting[u] /\ (u # t => posting'[u] = posting[u])
           /\ \/ ok /\ queue' = Append(q, t) /\ posting' = posting
              \/ ok /\ queue' = q /\ posting'[t] = posting[t] + 1
              \/ ~ok /\ queue' = q /\ posting' = posting /\ refused' > 0
<1>1. RequestType
  BY DEF RequestInv
<1>2. CASE Len(q) < QueueCap
  <2>1. ok /\ queue' = Append(q, t) /\ posting' = posting /\ sending' = sending /\ refused' = refused
    BY <1>2 DEF TrySend, poolVars
  <2>2. Append(q, t) \in Seq(Tasks)
    BY QueueAppend
  <2> QED BY <1>1, <2>1, <2>2 DEF RequestType
<1>3. CASE ~(Len(q) < QueueCap)
  <2>1. queue' = q /\ Submit(t, ok)
    BY <1>3 DEF TrySend
  <2>2. /\ posting' \in [Tasks -> Nat] /\ sending' = sending /\ refused' \in Nat /\ refused' >= refused
        /\ \A u \in Tasks : posting'[u] >= posting[u] /\ (u # t => posting'[u] = posting[u])
        /\ ok => posting'[t] = posting[t] + 1
        /\ ~ok => refused' > 0 /\ posting' = posting
    BY <1>1, <2>1, Submits
  <2> QED BY <1>1, <2>1, <2>2 DEF RequestType
<1> QED BY <1>2, <1>3

\* Such a task leaves the others alone.
LEMMA TrySendKeeps ==
    ASSUME RequestInv, NEW t \in Tasks, NEW ok \in BOOLEAN, TrySend(queue, t, ok)
    PROVE  /\ RequestType' /\ refused' >= refused
           /\ \A u \in Tasks \ {t} : Calm(u)
           /\ Pends("closeChannel") => Pends("closeChannel")'
           /\ ~Pends(t) => OneTask(t)'
           /\ ~ok /\ ~Pends(t) => ~Pends(t)'
<1>1. queue \in Seq(Tasks) /\ posting \in [Tasks -> Nat] /\ sending \in [Tasks -> Nat] /\ "closeChannel" \in Tasks
  BY DEF RequestInv, RequestType, Tasks
<1>2. /\ RequestType' /\ sending' = sending /\ refused' >= refused
      /\ \A u \in Tasks : posting'[u] >= posting[u] /\ (u # t => posting'[u] = posting[u])
      /\ \/ ok /\ queue' = Append(queue, t) /\ posting' = posting
         \/ ok /\ queue' = queue /\ posting'[t] = posting[t] + 1
         \/ ~ok /\ queue' = queue /\ posting' = posting /\ refused' > 0
  BY <1>1, TrySends
<1>3. ASSUME NEW u \in Tasks \ {t} PROVE Calm(u)
  <2>1. /\ Queued(u, Append(queue, t)) => Queued(u, queue)
        /\ Single(u, queue) => Single(u, Append(queue, t))
    BY <1>1, QueueAppend
  <2>2. queue' = queue \/ queue' = Append(queue, t)
    BY <1>2
  <2>3. (Queued(u, queue') => Queued(u, queue)) /\ (Single(u, queue) => Single(u, queue'))
    BY <2>1, <2>2
  <2> QED BY <2>3, <1>2 DEF Calm
<1>4. Pends("closeChannel") => Pends("closeChannel")'
  <2>1. Queued("closeChannel", queue) => Queued("closeChannel", queue')
    <3>1. Queued("closeChannel", queue) => Queued("closeChannel", Append(queue, t))
      BY <1>1, QueueAppend
    <3> QED BY <1>2, <3>1
  <2>2. posting'["closeChannel"] \in Nat /\ posting["closeChannel"] \in Nat
        /\ posting'["closeChannel"] >= posting["closeChannel"]
    BY <1>1, <1>2 DEF RequestType
  <2> QED BY <1>2, <2>1, <2>2 DEF Pends, Queued
<1>5. ASSUME ~Pends(t) PROVE OneTask(t)' /\ (~ok => ~Pends(t)')
  <2>1. posting[t] = 0 /\ sending[t] = 0 /\ ~Queued(t, queue)
    BY <1>1, <1>5 DEF Pends
  <2>2. Single(t, queue)
    BY <2>1 DEF Single, Queued
  <2>3. CASE ok /\ queue' = Append(queue, t) /\ posting' = posting
    <3>1. Single(t, queue')
      BY <2>1, <2>2, <2>3, <1>1, QueueAppend
    <3> QED BY <2>1, <2>3, <3>1, <1>2 DEF OneTask, Single, Queued
  <2>4. CASE ok /\ queue' = queue /\ posting'[t] = posting[t] + 1
    BY <2>1, <2>2, <2>4, <1>2 DEF OneTask, Single, Queued
  <2>5. CASE ~ok /\ queue' = queue /\ posting' = posting
    BY <2>1, <2>2, <2>5, <1>2 DEF OneTask, Single, Queued, Pends
  <2> QED BY <2>3, <2>4, <2>5, <1>2
<1> QED BY <1>2, <1>3, <1>4, <1>5

\* Workers of the pool post for others.
LEMMA WorkerKeeps ==
    ASSUME RequestInv, NEW t \in Tasks, WorkerChecks(t) \/ WorkerSends(t)
    PROVE  RequestInv'
<1>1. /\ queue \in Seq(Tasks) /\ posting \in [Tasks -> Nat] /\ sending \in [Tasks -> Nat] /\ refused \in Nat
      /\ {"get", "write", "closeChannel"} \subseteq Tasks
  BY DEF RequestInv, RequestType, Tasks
<1>2. UNCHANGED <<ctxDone, inShutdown, loop, refused, reg, closed, handling, caller>>
  BY DEF WorkerChecks, WorkerSends, engineVars
<1>3. /\ queue' \in Seq(Tasks) /\ posting' \in [Tasks -> Nat] /\ sending' \in [Tasks -> Nat]
      /\ \A u \in Tasks : u # t => Calm(u)
      /\ \A u \in Tasks : OneTask(u) => OneTask(u)' /\ (Pends(u)' => Pends(u))
      /\ \A u \in Tasks : Pends(u) => ctxDone \/ Pends(u)'
  <2>1. CASE WorkerChecks(t)
    <3>1. /\ posting[t] > 0 /\ posting' = [posting EXCEPT ![t] = @ - 1] /\ queue' = queue
          /\ sending' = IF ctxDone THEN sending ELSE [sending EXCEPT ![t] = @ + 1]
      BY <2>1 DEF WorkerChecks
    <3>2. posting' \in [Tasks -> Nat] /\ posting'[t] = posting[t] - 1
          /\ (\A u \in Tasks : u # t => posting'[u] = posting[u])
      BY <1>1, <3>1
    <3>3. sending' \in [Tasks -> Nat] /\ sending'[t] = (IF ctxDone THEN sending[t] ELSE sending[t] + 1)
          /\ (\A u \in Tasks : u # t => sending'[u] = sending[u])
      BY <1>1, <3>1
    <3>4. posting[t] \in Nat /\ sending[t] \in Nat
      BY <1>1
    <3>5. ASSUME NEW u \in Tasks, u # t PROVE Calm(u) /\ (Pends(u) <=> Pends(u)') /\ (OneTask(u) => OneTask(u)')
      BY <3>1, <3>2, <3>3, <3>5 DEF Calm, Pends, Queued, OneTask, Single
    <3>6. (Pends(t)' => Pends(t)) /\ (Pends(t) => ctxDone \/ Pends(t)')
      BY <3>1, <3>2, <3>3, <3>4 DEF Pends, Queued
    <3>7. OneTask(t) => OneTask(t)'
      BY <3>1, <3>2, <3>3, <3>4 DEF OneTask, Queued, Single
    <3> QED BY <1>1, <3>1, <3>2, <3>3, <3>5, <3>6, <3>7
  <2>2. CASE WorkerSends(t)
    <3>1. /\ sending[t] > 0 /\ sending' = [sending EXCEPT ![t] = @ - 1] /\ posting' = posting
          /\ queue' = Append(queue, t) \/ (ctxDone /\ queue' = queue)
      BY <2>2 DEF WorkerSends
    <3>2. sending' \in [Tasks -> Nat] /\ sending'[t] = sending[t] - 1
          /\ (\A u \in Tasks : u # t => sending'[u] = sending[u])
      BY <1>1, <3>1
    <3>3. posting[t] \in Nat /\ sending[t] \in Nat
      BY <1>1
    <3>4. queue' \in Seq(Tasks) /\ (queue' = Append(queue, t) => Queued(t, queue'))
      <4>1. Append(queue, t) \in Seq(Tasks) /\ Queued(t, Append(queue, t))
        BY <1>1, QueueAppend
      <4> QED BY <1>1, <3>1, <4>1
    <3>5. ASSUME NEW u \in Tasks, u # t
          PROVE  Calm(u) /\ (Queued(u, queue') <=> Queued(u, queue))
      <4>1. /\ Queued(u, Append(queue, t)) <=> Queued(u, queue)
            /\ Single(u, queue) => Single(u, Append(queue, t))
        BY <1>1, <3>5, QueueAppend
      <4>2. (Queued(u, queue') <=> Queued(u, queue)) /\ (Single(u, queue) => Single(u, queue'))
        BY <3>1, <4>1
      <4> QED BY <3>1, <3>2, <3>5, <4>2 DEF Calm
    <3>6. ASSUME NEW u \in Tasks, u # t PROVE (Pends(u) <=> Pends(u)') /\ (OneTask(u) => OneTask(u)')
      BY <3>5, <3>6 DEF Calm, Pends, Queued, OneTask, Single
    <3>7. (Pends(t)' => Pends(t)) /\ (Pends(t) => ctxDone \/ Pends(t)')
      <4>1. Pends(t)
        BY <3>1 DEF Pends
      <4>2. ctxDone \/ Pends(t)'
        BY <3>1, <3>4 DEF Pends, Queued
      <4> QED BY <4>1, <4>2
    <3>8. ASSUME OneTask(t) PROVE OneTask(t)'
      <4>1. posting[t] + sending[t] = 1 /\ sending[t] = 1 /\ posting[t] = 0 /\ ~Queued(t, queue) /\ Single(t, queue)
        BY <3>1, <3>3, <3>8 DEF OneTask
      <4>2. posting'[t] + sending'[t] = 0
        BY <3>1, <3>2, <4>1
      <4>3. Single(t, queue')
        <5>1. Single(t, Append(queue, t))
          BY <1>1, <4>1, QueueAppend
        <5> QED BY <3>1, <4>1, <5>1
      <4> QED BY <4>2, <4>3 DEF OneTask, Single
    <3> QED BY <1>1, <3>1, <3>2, <3>4, <3>5, <3>6, <3>7, <3>8
  <2> QED BY <2>1, <2>2
<1>4. RequestType'
  BY <1>1, <1>2, <1>3 DEF RequestType
<1>5. WaitInv'
  BY <1>1, <1>2, <1>3 DEF RequestInv, WaitInv
<1>6. PoisonInv'
  <2>1. Closing => Closing'
    BY <1>1, <1>2, <1>3 DEF Closing
  <2> QED BY <1>2, <2>1 DEF RequestInv, PoisonInv
<1> QED BY <1>4, <1>5, <1>6 DEF RequestInv

\* A step of the loop that closes, with the queue as it is or without its head.
LEMMA LoopClosing ==
    ASSUME RequestInv, NEW ex, LoopClose(ex),
           queue' = queue \/ (queue # <<>> /\ queue' = Tail(queue)) \/ queue' = <<>>,
           UNCHANGED <<ctxDone, inShutdown, caller>>, handling' = handling,
           loop' = "run" \/ (loop' = "gone" /\ ctxDone), loop \in {"run", "exception"}
    PROVE  RequestInv'
<1>1. ~reg' /\ PoolGrows
  BY LoopClosesAll
<1>2. RequestType' /\ Calm("get") /\ Calm("write")
  BY <1>1, PoolGrowsKeeps
<1>3. WaitInv'
  BY <1>2, WaitKept
<1>4. caller = "dial" => closed' = closed
  BY DEF RequestInv, PoisonInv, LoopClose
<1>5. PoisonInv'
  BY <1>1, <1>4 DEF RequestInv, PoisonInv, Closing
<1> QED BY <1>2, <1>3, <1>5 DEF RequestInv

\* A step that leaves pool and queue alone, or posts the close of the channel.
LEMMA QuietStep ==
    ASSUME RequestInv, PoolGrows, queue' = queue, ctxDone => ctxDone', reg' => reg,
           caller' = caller \/ caller \notin {"wait", "written?"}
    PROVE  RequestType' /\ WaitInv' /\ (Closing => Closing')
<1>1. RequestType' /\ Calm("get") /\ Calm("write") /\ (Pends("closeChannel") => Pends("closeChannel")')
  BY PoolGrowsKeeps
<1>2. refused > 0 => refused' > 0
  BY DEF PoolGrows, RequestInv, RequestType
<1> QED BY <1>1, <1>2, WaitKept DEF Closing

\* The tasks of ChannelFromConn and AsyncWrite, for which the caller waits.
LEMMA LoopAnswers ==
    ASSUME RequestInv, LoopGet \/ LoopWrite
    PROVE  RequestInv'
<1>1. queue \in Seq(Tasks) /\ RequestType /\ WaitInv /\ PoisonInv /\ {"get", "write"} \subseteq Tasks
  BY DEF RequestInv, RequestType, Tasks
<1>2. PICK t \in {"get", "write"} :
        /\ t = "get" => LoopGet
        /\ t = "write" => LoopWrite
  BY Zenon
<1>3. /\ loop = "run" /\ queue # <<>> /\ Head(queue) = t /\ queue' = Tail(queue)
      /\ UNCHANGED <<ctxDone, inShutdown, loop, posting, sending, refused, reg, closed, handling>>
      /\ caller' \in {"got", "wrote"}
  BY <1>2 DEF LoopGet, LoopWrite, Takes, engineVars, poolVars
<1>4. PoolGrows
  BY <1>1, <1>3 DEF RequestType, PoolGrows
<1>5. RequestType' /\ Calm("get") /\ Calm("write")
  BY <1>3, <1>4, PoolGrowsKeeps
<1>6. Queued(t, queue) /\ Pends(t) /\ ~Queued(t, Tail(queue))
  <2>1. Queued(t, queue) /\ (Single(t, queue) => ~Queued(t, Tail(queue)))
    BY <1>1, <1>3, QueueTail
  <2> QED BY <2>1, <1>1 DEF Pends, WaitInv, OneTask
<1>7. caller = (IF t = "get" THEN "wait" ELSE "written?")
  BY <1>1, <1>6 DEF WaitInv
<1>8. posting[t] = 0 /\ sending[t] = 0
  <2>1. posting[t] \in Nat /\ sending[t] \in Nat /\ posting[t] + sending[t] <= 1
        /\ posting[t] + sending[t] # 1
    BY <1>1, <1>6 DEF WaitInv, OneTask, RequestType
  <2> QED BY <2>1
<1>9. ~Pends(t)'
  <2>1. ~Queued(t, queue')
    BY <1>3, <1>6
  <2> QED BY <2>1, <1>3, <1>8 DEF Pends, Queued
<1>10. WaitInv'
  <2>1. ASSUME NEW u, Calm(u), OneTask(u) PROVE OneTask(u)' /\ (Pends(u)' => Pends(u))
    BY <2>1 DEF Calm, OneTask, Pends, Queued, Single
  <2>2. /\ OneTask("get")' /\ (Pends("get")' => Pends("get"))
        /\ OneTask("write")' /\ (Pends("write")' => Pends("write"))
    BY <2>1, <1>1, <1>5 DEF WaitInv
  <2> QED BY <2>2, <1>1, <1>7, <1>9 DEF WaitInv
<1>11. Closing => Closing'
  <2>1. Pends("closeChannel") => Pends("closeChannel")'
    BY <1>2, <1>3, <1>4, PoolGrowsKeeps
  <2> QED BY <2>1, <1>3 DEF Closing
<1>12. PoisonInv'
  BY <1>1, <1>3, <1>7, <1>11 DEF PoisonInv
<1> QED BY <1>5, <1>10, <1>12 DEF RequestInv

\* netErr, conn.Close and the task of channel.Close.
LEMMA LoopClosesKeeps == ASSUME RequestInv, LoopCloses PROVE RequestInv'
<1>1. /\ loop = "run" /\ queue # <<>> /\ queue' = Tail(queue)
      /\ UNCHANGED <<ctxDone, inShutdown, loop, handling, caller>>
      /\ \E ex : LoopClose(ex)
  BY DEF LoopCloses, Takes, engineVars
<1> QED BY <1>1, LoopClosing

\* The end of run.
LEMMA LoopLeavesKeeps == ASSUME RequestInv, LoopLeaves PROVE RequestInv'
<1>1. /\ loop = "run" /\ ctxDone /\ loop' = "gone" /\ queue' = <<>>
      /\ UNCHANGED <<ctxDone, inShutdown, handling, caller>> /\ LoopClose("nil")
  BY DEF LoopLeaves, engineVars
<1> QED BY <1>1, LoopClosing

\* A packet, and perhaps another wake-up of the loop.
LEMMA TrafficKeeps == ASSUME RequestInv, Traffic PROVE RequestInv'
<1>1. queue \in Seq(Tasks) /\ RequestType /\ {"get", "write", "closeChannel", "wake"} \subseteq Tasks
  BY DEF RequestInv, RequestType, Tasks
<1>2. /\ queue # <<>> /\ Head(queue) \in {"data", "wake"}
      /\ UNCHANGED <<ctxDone, inShutdown, loop, reg, closed, handling, caller>>
      /\ \/ queue' = Tail(queue) /\ UNCHANGED poolVars
         \/ \E ok \in BOOLEAN : TrySend(Tail(queue), "wake", ok)
  BY DEF Traffic, Takes, engineVars
<1>3. ASSUME NEW u PROVE /\ Tail(queue) \in Seq(Tasks) /\ (Queued(u, Tail(queue)) => Queued(u, queue))
                         /\ (Single(u, queue) => Single(u, Tail(queue)))
                         /\ (Queued(u, queue) /\ Head(queue) # u => Queued(u, Tail(queue)))
  BY <1>1, <1>2, QueueTail
<1>4. /\ RequestType' /\ sending' = sending /\ refused' >= refused
      /\ \A u \in Tasks : posting'[u] >= posting[u] /\ (u # "wake" => posting'[u] = posting[u])
      /\ queue' = Tail(queue) \/ queue' = Append(Tail(queue), "wake")
  <2>1. CASE queue' = Tail(queue) /\ UNCHANGED poolVars
    <3>1. posting' = posting /\ sending' = sending /\ refused' = refused /\ queue' \in Seq(Tasks)
      BY <2>1, <1>3 DEF poolVars
    <3> QED BY <2>1, <3>1, <1>1, SMTT(30) DEF RequestType
  <2>2. ASSUME NEW ok \in BOOLEAN, TrySend(Tail(queue), "wake", ok)
        PROVE  /\ RequestType' /\ sending' = sending /\ refused' >= refused
               /\ \A u \in Tasks : posting'[u] >= posting[u] /\ (u # "wake" => posting'[u] = posting[u])
               /\ queue' = Tail(queue) \/ queue' = Append(Tail(queue), "wake")
    <3>1. PICK q \in Seq(Tasks) : q = Tail(queue)
      BY <1>3
    <3> QED BY <2>2, <3>1, <1>1, TrySends, ZenonT(30)
  <2> QED BY <2>1, <2>2, <1>2
<1>5. ASSUME NEW u \in Tasks, u # "wake"
      PROVE  Calm(u) /\ (Queued(u, queue) /\ Head(queue) # u => Queued(u, queue'))
  <2>1. /\ Queued(u, Append(Tail(queue), "wake")) <=> Queued(u, Tail(queue))
        /\ Single(u, Tail(queue)) => Single(u, Append(Tail(queue), "wake"))
    <3>1. PICK q \in Seq(Tasks) : q = Tail(queue)
      BY <1>3
    <3>2. /\ Queued(u, Append(q, "wake")) <=> Queued(u, q)
          /\ Single(u, q) => Single(u, Append(q, "wake"))
      BY <1>1, <1>5, QueueAppend
    <3> QED BY <3>1, <3>2
  <2>2. /\ Queued(u, queue') => Queued(u, queue)
        /\ Single(u, queue) => Single(u, queue')
        /\ Queued(u, queue) /\ Head(queue) # u => Queued(u, queue')
    BY <2>1, <1>3, <1>4
  <2> QED BY <2>2, <1>4, <1>5 DEF Calm
<1>6. WaitInv'
  BY <1>1, <1>2, <1>5, WaitKept
<1>7. Closing => Closing'
  <2>1. Pends("closeChannel") => Pends("closeChannel")'
    <3>1. Queued("closeChannel", queue) => Queued("closeChannel", queue')
      BY <1>1, <1>2, <1>5
    <3> QED BY <1>1, <1>4, <3>1 DEF Pends, Queued
  <2>2. refused > 0 => refused' > 0
    BY <1>1, <1>4 DEF RequestType
  <2> QED BY <1>2, <2>1, <2>2 DEF Closing
<1>8. PoisonInv'
  BY <1>2, <1>7 DEF RequestInv, PoisonInv
<1> QED BY <1>4, <1>6, <1>8 DEF RequestInv

\* A handler panics: the chain is entered, or the connection is closed.
LEMMA TrafficPanicsKeeps == ASSUME RequestInv, TrafficPanics PROVE RequestInv'
<1>1. /\ loop = "run" /\ queue # <<>> /\ Head(queue) \in {"data", "wake"} /\ queue' = Tail(queue) /\ reg
      /\ UNCHANGED <<ctxDone, inShutdown, caller>>
  BY DEF TrafficPanics, Takes, engineVars
<1>2. CASE handling
  <2>1. LoopClose("nil") /\ UNCHANGED <<loop, handling>>
    BY <1>2 DEF TrafficPanics
  <2> QED BY <1>1, <2>1, LoopClosing
<1>3. CASE ~handling
  <2>1. handling' /\ loop' = "exception" /\ UNCHANGED <<reg, closed, posting, sending, refused>>
    BY <1>3 DEF TrafficPanics, poolVars
  <2>2. PoolGrows
    BY <2>1 DEF RequestInv, RequestType, PoolGrows
  <2>3. RequestType' /\ Calm("get") /\ Calm("write") /\ (Pends("closeChannel") => Pends("closeChannel")')
    BY <1>1, <2>2, PoolGrowsKeeps
  <2>4. WaitInv'
    BY <1>1, <2>3, WaitKept
  <2>5. Closing => Closing'
    BY <1>1, <2>1, <2>3 DEF Closing
  <2>6. PoisonInv'
    BY <1>1, <1>3, <2>1, <2>5 DEF RequestInv, PoisonInv
  <2> QED BY <2>3, <2>4, <2>6 DEF RequestInv
<1> QED BY <1>2, <1>3

\* The loop leaves the chain.
LEMMA LoopExceptionKeeps == ASSUME RequestInv, LoopExceptionEnds PROVE RequestInv'
<1>1. loop = "exception" /\ loop' = "run" /\ queue' = queue /\ UNCHANGED <<ctxDone, inShutdown, caller>>
  BY DEF LoopExceptionEnds, engineVars
<1>2. CASE UNCHANGED handling /\ LoopClose("nil")
  BY <1>1, <1>2, LoopClosing
<1>3. CASE handling' = FALSE /\ UNCHANGED <<reg, connCtx, promise, closed, poolVars>>
  <2>1. PoolGrows
    BY <1>1, <1>3, SamePool
  <2>2. RequestType' /\ WaitInv' /\ (Closing => Closing')
    BY <1>1, <1>3, <2>1, QuietStep
  <2> QED BY <1>1, <1>3, <2>2 DEF RequestInv, PoisonInv
<1>4. CASE handling' = FALSE /\ ChannelClose /\ UNCHANGED <<reg, connCtx, promise>>
  <2>1. /\ PoolGrows /\ closed'
        /\ closed \/ ctxDone \/ refused' > 0 \/ posting'["closeChannel"] > 0
    BY <1>4, ChannelCloses
  <2>2. RequestType' /\ WaitInv' /\ (Closing => Closing')
    BY <1>1, <1>4, <2>1, QuietStep
  <2>3. Closing'
    BY <1>1, <2>1, <2>2 DEF RequestInv, PoisonInv, Closing, Pends
  <2> QED BY <1>1, <1>4, <2>2, <2>3 DEF RequestInv, PoisonInv
<1> QED BY <1>2, <1>3, <1>4 DEF LoopExceptionEnds

\* Stop, and what the caller does without the loop's queue or the pool.
LEMMA OwnSteps ==
    ASSUME RequestInv, Stop \/ StopEnds \/ Dial \/ GotChannel \/ AddHandler \/ Wrote \/ Await
    PROVE  RequestInv'
<1>1. UNCHANGED <<queue, poolVars, closed, handling>>
  BY DEF Stop, StopEnds, Dial, GotChannel, AddHandler, Wrote, Await
<1>2. PoolGrows /\ queue' = queue
  BY <1>1, SamePool
<1>3. (ctxDone => ctxDone') /\ (inShutdown' => ctxDone') /\ (loop' = "gone" => ctxDone') /\ loop' = loop
  BY DEF Stop, StopEnds, Dial, GotChannel, AddHandler, Wrote, Await, engineVars, RequestInv, PoisonInv
<1>4. CASE Dial
  <2>1. /\ caller = "dial" /\ caller' # "dial" /\ caller' # "exception"
        /\ ~closed /\ ~handling /\ loop # "exception"
    BY <1>4 DEF Dial, RequestInv, PoisonInv
  <2>2. RequestType' /\ Calm("get") /\ Calm("write")
    BY <1>2, PoolGrowsKeeps
  <2>3. WaitInv'
    BY <2>1, <2>2, WaitKept
  <2>4. PoisonInv'
    BY <1>1, <1>3, <2>1 DEF PoisonInv
  <2> QED BY <2>2, <2>3, <2>4 DEF RequestInv
<1>5. CASE ~Dial
  <2>1. /\ reg' = reg /\ (caller' = "dial" => caller = "dial")
        /\ caller' = caller \/ caller \notin {"wait", "written?", "exception"}
        /\ caller' = "exception" => caller = "exception"
    BY <1>5 DEF Stop, StopEnds, GotChannel, AddHandler, Wrote, Await, Returns
  <2>2. RequestType' /\ WaitInv' /\ (Closing => Closing')
    BY <1>2, <1>3, <2>1, QuietStep
  <2>3. PoisonInv'
    BY <1>1, <1>3, <2>1, <2>2 DEF RequestInv, PoisonInv
  <2> QED BY <2>2, <2>3 DEF RequestInv
<1> QED BY <1>4, <1>5

\* ChannelFromConn gives the loop its task.
LEMMA ExecuteGetKeeps == ASSUME RequestInv, ExecuteGet PROVE RequestInv'
<1>1. /\ caller = "execute" /\ UNCHANGED <<ctxDone, inShutdown, loop, queue, reg, closed, handling>>
      /\ \E ok \in BOOLEAN : Execute("get", ok) /\ caller' = IF ok THEN "wait" ELSE "closing"
  BY DEF ExecuteGet, engineVars, Returns
<1>2. PICK ok \in BOOLEAN : Execute("get", ok) /\ caller' = IF ok THEN "wait" ELSE "closing"
  BY <1>1
<1>3. RequestType /\ {"get", "write", "closeChannel"} \subseteq Tasks /\ WaitInv /\ PoisonInv
  BY DEF RequestInv, Tasks
<1>4. /\ posting' \in [Tasks -> Nat] /\ sending' = sending /\ refused' \in Nat /\ refused' >= refused
      /\ \A u \in Tasks : posting'[u] >= posting[u] /\ (u # "get" => posting'[u] = posting[u])
      /\ ok => posting'["get"] = posting["get"] + 1
      /\ ~ok => posting' = posting
  <2>1. CASE inShutdown
    <3>1. ~ok /\ posting' = posting /\ sending' = sending /\ refused' = refused
      BY <1>2, <2>1 DEF Execute, poolVars
    <3> QED BY <3>1, <1>3 DEF RequestType
  <2>2. CASE ~inShutdown
    <3>1. Submit("get", ok)
      BY <1>2, <2>2 DEF Execute
    <3> QED BY <3>1, <1>3, Submits
  <2> QED BY <2>1, <2>2
<1>5. RequestType'
  BY <1>1, <1>3, <1>4 DEF RequestType
<1>6. ~Pends("get") /\ ~Pends("write")
  BY <1>1, <1>3 DEF WaitInv
<1>7. WaitInv'
  <2>1. /\ posting["get"] = 0 /\ sending["get"] = 0 /\ ~Queued("get", queue)
        /\ posting["write"] = 0 /\ sending["write"] = 0 /\ ~Queued("write", queue)
    BY <1>3, <1>6 DEF Pends, RequestType
  <2>2. Single("get", queue) /\ Single("write", queue)
    BY <2>1 DEF Single, Queued
  <2>3. /\ posting'["get"] = (IF ok THEN 1 ELSE 0) /\ posting'["write"] = 0
        /\ sending'["get"] = 0 /\ sending'["write"] = 0
    BY <2>1, <1>3, <1>4
  <2>4. OneTask("get")' /\ OneTask("write")'
    BY <1>1, <2>1, <2>2, <2>3 DEF OneTask, Single, Queued
  <2>5. ~Pends("write")' /\ (~ok => ~Pends("get")')
    BY <1>1, <2>1, <2>3 DEF Pends, Queued
  <2> QED BY <1>2, <2>4, <2>5 DEF WaitInv
<1>8. Closing => Closing'
  <2>1. Pends("closeChannel") => Pends("closeChannel")'
    BY <1>1, <1>3, <1>4 DEF Pends, Queued
  <2>2. refused > 0 => refused' > 0
    BY <1>3, <1>4 DEF RequestType
  <2> QED BY <1>1, <2>1, <2>2 DEF Closing
<1>9. PoisonInv'
  BY <1>1, <1>2, <1>3, <1>8 DEF PoisonInv
<1> QED BY <1>5, <1>7, <1>9 DEF RequestInv

\* A task of the caller goes to the loop: that of AsyncWrite, or the deferred Close.
LEMMA SendKeeps ==
    ASSUME RequestInv, NEW t \in {"write", "closeConn"}, NEW ok \in BOOLEAN, TrySend(queue, t, ok),
           caller \in {"write", "closing"}, caller' \notin {"dial", "exception"},
           ok /\ t = "write" => caller' = "written?",
           UNCHANGED <<ctxDone, inShutdown, loop, reg, closed, handling>>
    PROVE  RequestInv'
<1>1. WaitInv /\ PoisonInv /\ RequestType /\ {"get", "write", "closeConn"} \subseteq Tasks
  BY DEF RequestInv, Tasks
<1>2. ~Pends("get") /\ ~Pends("write")
  BY <1>1 DEF WaitInv
<1>3. /\ RequestType' /\ refused' >= refused
      /\ \A u \in Tasks \ {t} : Calm(u)
      /\ Pends("closeChannel") => Pends("closeChannel")'
      /\ ~Pends(t) => OneTask(t)'
      /\ ~ok /\ ~Pends(t) => ~Pends(t)'
  BY <1>1, TrySendKeeps
<1>4. ASSUME NEW u, Calm(u), OneTask(u) PROVE OneTask(u)' /\ (Pends(u)' => Pends(u))
  BY <1>4 DEF Calm, OneTask, Pends, Queued, Single
<1>5. OneTask("get")' /\ ~Pends("get")'
  BY <1>1, <1>2, <1>3, <1>4 DEF WaitInv
<1>6. OneTask("write")' /\ (Pends("write")' => caller' = "written?")
  <2>1. CASE t = "write"
    BY <2>1, <1>2, <1>3
  <2>2. CASE t # "write"
    BY <2>2, <1>1, <1>2, <1>3, <1>4 DEF WaitInv
  <2> QED BY <2>1, <2>2
<1>7. WaitInv'
  BY <1>5, <1>6 DEF WaitInv
<1>8. Closing => Closing'
  <2>1. refused > 0 => refused' > 0
    BY <1>1, <1>3 DEF RequestType
  <2> QED BY <2>1, <1>3 DEF Closing
<1>9. PoisonInv'
  BY <1>1, <1>8 DEF PoisonInv
<1> QED BY <1>3, <1>7, <1>9 DEF RequestInv

\* channel.Write, and the deferred conn.Close.
LEMMA WriteKeeps == ASSUME RequestInv, Write \/ CloseConn PROVE RequestInv'
<1>1. UNCHANGED <<ctxDone, inShutdown, loop, reg, closed, handling>>
  BY DEF Write, CloseConn, engineVars
<1>2. CASE CloseConn
  <2>1. caller = "closing" /\ caller' = "returned" /\ \E ok \in BOOLEAN : TrySend(queue, "closeConn", ok)
    BY <1>2 DEF CloseConn
  <2> QED BY <1>1, <2>1, SendKeeps
<1>3. CASE Write
  <2>1. caller = "write"
    BY <1>3 DEF Write
  <2>2. CASE UNCHANGED <<queue, poolVars>> /\ caller' \in {"closing", "panicked"}
    <3>1. PoolGrows /\ queue' = queue
      BY <2>2, SamePool
    <3>2. RequestType' /\ WaitInv' /\ (Closing => Closing')
      BY <1>1, <2>1, <3>1, QuietStep
    <3>3. PoisonInv'
      BY <1>1, <2>1, <2>2, <3>2 DEF RequestInv, PoisonInv
    <3> QED BY <3>2, <3>3 DEF RequestInv
  <2>3. CASE \E ok \in BOOLEAN :
               TrySend(queue, "write", ok) /\ caller' = IF ok THEN "written?" ELSE "panicked"
    BY <1>1, <2>1, <2>3, SendKeeps
  <2> QED BY <1>3, <2>2, <2>3 DEF Write, Returns
<1> QED BY <1>2, <1>3

\* invokeMethod recovers in the caller's goroutine, and leaves the chain.
LEMMA RecoverKeeps == ASSUME RequestInv, Recover \/ ExceptionEnds PROVE RequestInv'
<1>1. /\ queue' = queue /\ UNCHANGED <<ctxDone, inShutdown, loop, reg>>
      /\ caller \in {"panicked", "exception"} /\ caller' \in {"await", "exception"}
  BY DEF Recover, ExceptionEnds, engineVars
<1>2. CASE UNCHANGED <<closed, poolVars>>
  <2>1. PoolGrows
    BY <1>1, <1>2, SamePool
  <2>2. RequestType' /\ WaitInv' /\ (Closing => Closing')
    BY <1>1, <2>1, QuietStep
  <2>3. \/ closed /\ caller' = "await" /\ UNCHANGED handling /\ caller = "panicked"
        \/ ~handling /\ handling' = TRUE /\ caller' = "exception"
        \/ caller = "exception" /\ caller' = "await" /\ handling' = FALSE
        \/ ChannelClose
    BY <1>2 DEF Recover, ExceptionEnds
  <2>4. ASSUME ChannelClose PROVE closed'
    BY <2>4, ChannelCloses
  <2>5. PoisonInv'
    <3>1. CASE ~ChannelClose
      BY <1>1, <1>2, <2>2, <2>3, <3>1 DEF RequestInv, PoisonInv
    <3>2. CASE ChannelClose
      <4>1. closed /\ closed'
        BY <1>2, <2>4, <3>2
      <4>2. \/ caller = "panicked" /\ caller' = "exception" /\ handling' = TRUE /\ ~closed
            \/ caller' = "await" /\ (caller = "panicked" => handling' = handling)
        BY DEF Recover, ExceptionEnds
      <4> QED BY <1>1, <1>2, <2>2, <4>1, <4>2 DEF RequestInv, PoisonInv
    <3> QED BY <3>1, <3>2
  <2> QED BY <2>2, <2>5 DEF RequestInv
<1>3. CASE ChannelClose
  <2>1. /\ PoolGrows /\ closed'
        /\ closed \/ ctxDone \/ refused' > 0 \/ posting'["closeChannel"] > 0
    BY <1>3, ChannelCloses
  <2>2. RequestType' /\ WaitInv' /\ (Closing => Closing')
    BY <1>1, <2>1, QuietStep
  <2>3. Closing'
    BY <1>1, <2>1, <2>2 DEF RequestInv, PoisonInv, Closing, Pends
  <2>4. \/ caller' = "exception" /\ handling' = TRUE /\ ~handling
        \/ caller' = "await" /\ (caller = "panicked" => handling' = handling)
    BY DEF Recover, ExceptionEnds
  <2>5. caller = "exception" => handling /\ loop # "exception"
    BY DEF RequestInv, PoisonInv
  <2>6. PoisonInv'
    BY <1>1, <2>1, <2>3, <2>4, <2>5 DEF RequestInv, PoisonInv
  <2> QED BY <2>2, <2>6 DEF RequestInv
<1> QED BY <1>2, <1>3 DEF Recover, ExceptionEnds

\* The peer's packets.
LEMMA PeerKeeps == ASSUME RequestInv, NEW t \in Tasks, PeerSends(t) PROVE RequestInv'
<1>1. /\ t \in {"data", "netErr"} /\ queue' = Append(queue, t)
      /\ UNCHANGED <<ctxDone, inShutdown, loop, posting, sending, refused, reg, closed, handling, caller>>
  BY DEF PeerSends, engineVars, poolVars
<1>2. RequestType /\ queue \in Seq(Tasks) /\ {"get", "write", "closeChannel"} \subseteq Tasks
  BY DEF RequestInv, RequestType, Tasks
<1>3. ASSUME NEW u, u # t
      PROVE  /\ Append(queue, t) \in Seq(Tasks) /\ (Queued(u, Append(queue, t)) <=> Queued(u, queue))
             /\ (Single(u, queue) => Single(u, Append(queue, t)))
  BY <1>2, <1>3, QueueAppend
<1>4. ASSUME NEW u, u # t PROVE Calm(u) /\ queue' \in Seq(Tasks) /\ (Queued(u, queue') <=> Queued(u, queue))
  <2>1. /\ Append(queue, t) \in Seq(Tasks) /\ (Queued(u, Append(queue, t)) <=> Queued(u, queue))
        /\ (Single(u, queue) => Single(u, Append(queue, t)))
    BY <1>3, <1>4
  <2>2. /\ queue' \in Seq(Tasks) /\ (Queued(u, queue') <=> Queued(u, queue))
        /\ (Single(u, queue) => Single(u, queue'))
    BY <1>1, <2>1
  <2> QED BY <1>1, <2>2 DEF Calm
<1>5. Calm("get") /\ Calm("write") /\ queue' \in Seq(Tasks)
      /\ (Queued("closeChannel", queue') <=> Queued("closeChannel", queue))
  BY <1>1, <1>4
<1>6. RequestType'
  BY <1>1, <1>2, <1>5 DEF RequestType
<1>7. WaitInv'
  BY <1>1, <1>5, WaitKept
<1>8. Closing => Closing'
  BY <1>1, <1>5 DEF Closing, Pends, Queued
<1>9. PoisonInv'
  BY <1>1, <1>8 DEF RequestInv, PoisonInv
<1> QED BY <1>6, <1>7, <1>9 DEF RequestInv

\* Every step keeps the invariant.
LEMMA RequestStep == RequestInv /\ [Next]_vars => RequestInv'
<1> SUFFICES ASSUME RequestInv, [Next]_vars PROVE RequestInv'
  OBVIOUS
<1>1. CASE Worker
  BY <1>1, WorkerKeeps DEF Worker
<1>2. CASE LoopStep \/ LoopLeaves
  BY <1>2, LoopAnswers, LoopClosesKeeps, TrafficKeeps, TrafficPanicsKeeps, LoopExceptionKeeps,
     LoopLeavesKeeps DEF LoopStep
<1>3. CASE RequestSync \/ Stop \/ StopEnds
  BY <1>3, OwnSteps, ExecuteGetKeeps, WriteKeeps, RecoverKeeps DEF RequestSync
<1>4. CASE \E t \in Tasks : PeerSends(t)
  BY <1>4, PeerKeeps
<1>5. CASE UNCHANGED vars
  <2>1. UNCHANGED <<queue, poolVars>>
        /\ UNCHANGED <<ctxDone, inShutdown, loop, reg, closed, handling, caller>>
    BY <1>5 DEF vars, engineVars
  <2>2. RequestType' /\ WaitInv' /\ (Closing => Closing')
    BY <2>1, SamePool, QuietStep
  <2>3. PoisonInv'
    BY <2>1, <2>2 DEF RequestInv, PoisonInv
  <2> QED BY <2>2, <2>3 DEF RequestInv
<1> QED BY <1>1, <1>2, <1>3, <1>4, <1>5 DEF Next

\* Nothing is under way at first.
LEMMA RequestBoot == Init => RequestInv
<1> SUFFICES ASSUME Init PROVE RequestInv
  OBVIOUS
<1>1. RequestType /\ queue = <<>> /\ \A t \in Tasks : posting[t] = 0 /\ sending[t] = 0
  BY DEF Init, RequestType, NoTasks
<1>2. {"get", "write"} \subseteq Tasks /\ \A t : ~Queued(t, queue) /\ Single(t, queue)
  BY <1>1 DEF Queued, Single, Tasks
<1>3. WaitInv
  BY <1>1, <1>2 DEF WaitInv, OneTask, Pends
<1>4. PoisonInv
  BY DEF Init, PoisonInv
<1> QED BY <1>1, <1>3, <1>4 DEF RequestInv

\* The connection whose flag stays set is closed or about to be.
LEMMA RequestSafe == RequestInv => PoisonedCloses
<1> SUFFICES ASSUME RequestInv, handling, loop # "exception", caller # "exception", reg, ~ctxDone, ~(refused > 0)
             PROVE  \E t \in {"closeChannel", "closeConn"} :
                       posting[t] + sending[t] > 0 \/ \E i \in DOMAIN queue : queue[i] = t
  BY DEF PoisonedCloses
<1>1. Pends("closeChannel")
  BY DEF RequestInv, PoisonInv, Closing
<1>2. /\ posting["closeChannel"] \in Nat /\ sending["closeChannel"] \in Nat
      /\ queue \in Seq(Tasks) /\ DOMAIN queue = 1..Len(queue)
  BY DEF RequestInv, RequestType, Tasks
<1>3. posting["closeChannel"] + sending["closeChannel"] > 0 \/ \E i \in DOMAIN queue : queue[i] = "closeChannel"
  BY <1>1, <1>2 DEF Pends, Queued
<1> QED BY <1>3

\* The close of a connection whose exception handler panicked is never forgotten: it
\* is done, under way, or refused by the full pool or a stopping client, for every
\* capacity of the queue, number of packets and number of refusals
\* (TryFireException, channel.Close, eventloop.close).
THEOREM PoisonedConnectionsClose == Spec => []PoisonedCloses
<1>1. RequestInv /\ [Next]_vars => RequestInv'
  BY RequestStep
<1> QED BY RequestBoot, <1>1, RequestSafe, PTL DEF Spec

===============================================================================
