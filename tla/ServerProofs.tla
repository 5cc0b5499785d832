---------------------------- MODULE ServerProofs ----------------------------
(***************************************************************************)
(* Proofs about the dial scheduler and the server around it, for any nodes *)
(* and limits.                                                             *)
(*                                                                         *)
(* First the scheduler alone, in any surroundings that add a peer once and *)
(* remove only peers (DialSpec): its pool of static dials is exact.  Then  *)
(* the server: its peers, the scheduler's and both counters agree, the     *)
(* limits hold, and it is such surroundings, so that what holds for        *)
(* DialSpec holds for it.                                                  *)
(***************************************************************************)
EXTENDS Server, FiniteSetTheorems, TLAPS

DialTypeOK ==
    /\ loop \in {"launch", "select", "expire", "stopping", "exited"}
    /\ static \in SUBSET Node /\ dialing \in SUBSET Node /\ peers \in SUBSET Node
    /\ staticPool \in Seq(Node) /\ history \in Seq(Node)
    /\ poolIndex \in [Node -> Int]
    /\ \A n \in Node : poolIndex[n] >= -1
    /\ slots \in Int /\ dialPeers \in Int

\* The first part of PoolSound: entries know their place.
Placed ==
    /\ \A i \in 1 .. Len(staticPool) : poolIndex[staticPool[i]] = i - 1
    /\ \A n \in Node : poolIndex[n] # -1 =>
           poolIndex[n] + 1 \in 1 .. Len(staticPool) /\ staticPool[poolIndex[n] + 1] = n

\* A task is in the pool exactly if it should be.
Exact ==
    \A n \in Node : poolIndex[n] >= 0 <=>
        n \in static /\ CheckDial(n, dialing, peers, history)

Running == loop \in {"launch", "select", "expire"}
NoWaste == loop = "select" => slots <= 0 \/ Len(staticPool) = 0
Once == \A i, j \in 1 .. Len(history) : history[i] = history[j] => i = j

IInv ==
    /\ DialTypeOK /\ Once /\ NoWaste
    /\ Running => Placed /\ Exact

-----------------------------------------------------------------------------
(* Sequences                                                               *)

\* What AddToStaticPool and startDial rely on: Append adds one element at the
\* end and moves nothing.
LEMMA AppendOne ==
    ASSUME NEW S, NEW s \in Seq(S), NEW e \in S
    PROVE  /\ Append(s, e) \in Seq(S)
           /\ Len(Append(s, e)) = Len(s) + 1
           /\ \A i \in 1 .. Len(s) : Append(s, e)[i] = s[i]
           /\ Append(s, e)[Len(s) + 1] = e
  OBVIOUS

\* The membership test of the history after startDial.
LEMMA AppendHistory ==
    ASSUME NEW s \in Seq(Node), NEW e \in Node, NEW n
    PROVE  InHistory(n, Append(s, e)) <=> InHistory(n, s) \/ n = e
  <1>1. DOMAIN s = 1 .. Len(s) /\ DOMAIN Append(s, e) = 1 .. Len(s) + 1 /\ Len(s) \in Nat
    OBVIOUS
  <1>2. /\ \A i \in 1 .. Len(s) : Append(s, e)[i] = s[i]
        /\ Append(s, e)[Len(s) + 1] = e
    BY AppendOne
  <1>3. ASSUME InHistory(n, Append(s, e)) PROVE InHistory(n, s) \/ n = e
    <2>1. PICK i \in 1 .. Len(s) + 1 : Append(s, e)[i] = n
      BY <1>1, <1>3 DEF InHistory
    <2>2. CASE i = Len(s) + 1
      BY <1>2, <2>1, <2>2
    <2>3. CASE i \in 1 .. Len(s)
      BY <1>1, <1>2, <2>1, <2>3 DEF InHistory
    <2> QED BY <1>1, <2>1, <2>2, <2>3
  <1>4. ASSUME InHistory(n, s) PROVE InHistory(n, Append(s, e))
    <2>1. PICK i \in 1 .. Len(s) : s[i] = n
      BY <1>1, <1>4 DEF InHistory
    <2>2. i \in 1 .. Len(s) + 1 /\ Append(s, e)[i] = n
      BY <1>1, <1>2, <2>1
    <2> QED BY <1>1, <2>2 DEF InHistory
  <1>5. ASSUME n = e PROVE InHistory(n, Append(s, e))
    <2>1. Len(s) + 1 \in 1 .. Len(s) + 1
      BY <1>1
    <2> QED BY <1>1, <1>2, <1>5, <2>1 DEF InHistory
  <1> QED BY <1>3, <1>4, <1>5

\* A history stays without duplicates when a node that is not in it is added.
LEMMA AppendOnce ==
    ASSUME NEW s \in Seq(Node), NEW e \in Node, ~InHistory(e, s),
           \A i, j \in 1 .. Len(s) : s[i] = s[j] => i = j
    PROVE  \A i, j \in 1 .. Len(Append(s, e)) :
               Append(s, e)[i] = Append(s, e)[j] => i = j
  <1>1. DOMAIN s = 1 .. Len(s) /\ Len(s) \in Nat
    OBVIOUS
  <1>2. \A i \in 1 .. Len(s) : s[i] # e
    BY <1>1 DEF InHistory
  <1>3. /\ \A i \in 1 .. Len(s) : Append(s, e)[i] = s[i]
        /\ Append(s, e)[Len(s) + 1] = e
        /\ Len(Append(s, e)) = Len(s) + 1
    BY AppendOne
  <1> QED
    BY <1>1, <1>2, <1>3

\* expire takes the first item off; the others keep their order.
LEMMA TailHistory ==
    ASSUME NEW s \in Seq(Node), s # <<>>,
           \A i, j \in 1 .. Len(s) : s[i] = s[j] => i = j
    PROVE  /\ Tail(s) \in Seq(Node) /\ Head(s) \in Node
           /\ \A i, j \in 1 .. Len(Tail(s)) : Tail(s)[i] = Tail(s)[j] => i = j
           /\ \A n : InHistory(n, Tail(s)) <=> InHistory(n, s) /\ n # Head(s)
  <1>1. /\ Len(s) \in Nat /\ Len(s) > 0 /\ DOMAIN s = 1 .. Len(s)
        /\ Tail(s) \in Seq(Node) /\ Len(Tail(s)) = Len(s) - 1
        /\ DOMAIN Tail(s) = 1 .. Len(s) - 1
        /\ \A i \in 1 .. Len(s) - 1 : Tail(s)[i] = s[i + 1]
        /\ Head(s) = s[1] /\ Head(s) \in Node
    OBVIOUS
  <1>2. \A i, j \in 1 .. Len(Tail(s)) : Tail(s)[i] = Tail(s)[j] => i = j
    <2> SUFFICES ASSUME NEW i \in 1 .. Len(s) - 1, NEW j \in 1 .. Len(s) - 1,
                        Tail(s)[i] = Tail(s)[j]
                 PROVE  i = j
      BY <1>1
    <2>1. i + 1 \in 1 .. Len(s) /\ j + 1 \in 1 .. Len(s) /\ s[i + 1] = s[j + 1]
      BY <1>1
    <2>2. i + 1 = j + 1
      BY <2>1
    <2> QED BY <1>1, <2>2
  <1>3. ASSUME NEW n, InHistory(n, Tail(s)) PROVE InHistory(n, s) /\ n # Head(s)
    <2>1. PICK i \in 1 .. Len(s) - 1 : Tail(s)[i] = n
      BY <1>1, <1>3 DEF InHistory
    <2>2. i + 1 \in 1 .. Len(s) /\ 1 \in 1 .. Len(s) /\ s[i + 1] = n /\ i + 1 # 1
      BY <1>1, <2>1
    <2>3. s[1] # s[i + 1]
      BY <2>2
    <2> QED BY <1>1, <2>2, <2>3 DEF InHistory
  <1>4. ASSUME NEW n, InHistory(n, s), n # Head(s) PROVE InHistory(n, Tail(s))
    <2>1. PICK i \in 1 .. Len(s) : s[i] = n
      BY <1>1, <1>4 DEF InHistory
    <2>2. i # 1
      BY <1>1, <1>4, <2>1
    <2>3. i - 1 \in 1 .. Len(s) - 1 /\ (i - 1) + 1 = i
      BY <1>1, <2>1, <2>2
    <2>4. Tail(s)[i - 1] = n
      BY <1>1, <2>1, <2>3
    <2> QED BY <1>1, <2>3, <2>4 DEF InHistory
  <1> QED BY <1>1, <1>2, <1>3, <1>4

-----------------------------------------------------------------------------
(* The pool                                                                *)

\* addToStaticPool puts one task more in its place.
LEMMA PoolGrows ==
    ASSUME DialTypeOK, Placed, NEW n \in Node, poolIndex[n] < 0, AddToStaticPool(n)
    PROVE  /\ staticPool' \in Seq(Node) /\ poolIndex' \in [Node -> Int] /\ Placed'
           /\ \A m \in Node : poolIndex'[m] >= -1
           /\ \A m \in Node : poolIndex'[m] >= 0 <=> poolIndex[m] >= 0 \/ m = n
  <1>1. /\ Len(staticPool) \in Nat /\ Len(staticPool') = Len(staticPool) + 1
        /\ staticPool' \in Seq(Node)
        /\ \A i \in 1 .. Len(staticPool) : staticPool'[i] = staticPool[i]
        /\ staticPool'[Len(staticPool) + 1] = n
        /\ \A i \in 1 .. Len(staticPool) : staticPool[i] \in Node
    BY AppendOne DEF DialTypeOK, AddToStaticPool
  <1>2. /\ poolIndex' \in [Node -> Int]
        /\ poolIndex'[n] = Len(staticPool)
        /\ \A m \in Node : m # n => poolIndex'[m] = poolIndex[m]
    BY <1>1 DEF DialTypeOK, AddToStaticPool
  <1>3. \A i \in 1 .. Len(staticPool) : staticPool[i] # n
    BY <1>1 DEF Placed, DialTypeOK
  <1>4. \A i \in 1 .. Len(staticPool') : poolIndex'[staticPool'[i]] = i - 1
    <2> SUFFICES ASSUME NEW i \in 1 .. Len(staticPool) + 1
                 PROVE  poolIndex'[staticPool'[i]] = i - 1
      BY <1>1
    <2>1. CASE i = Len(staticPool) + 1
      BY <1>1, <1>2, <2>1
    <2>2. CASE i \in 1 .. Len(staticPool)
      <3>1. staticPool'[i] = staticPool[i] /\ staticPool[i] \in Node /\ staticPool[i] # n
        BY <1>1, <1>3, <2>2
      <3> QED BY <1>2, <2>2, <3>1 DEF Placed
    <2> QED BY <1>1, <2>1, <2>2
  <1>5. \A m \in Node : poolIndex'[m] # -1 =>
           poolIndex'[m] + 1 \in 1 .. Len(staticPool') /\ staticPool'[poolIndex'[m] + 1] = m
    <2> SUFFICES ASSUME NEW m \in Node, poolIndex'[m] # -1
                 PROVE  /\ poolIndex'[m] + 1 \in 1 .. Len(staticPool')
                        /\ staticPool'[poolIndex'[m] + 1] = m
      OBVIOUS
    <2>1. CASE m = n
      BY <1>1, <1>2, <2>1
    <2>2. CASE m # n
      BY <1>1, <1>2, <2>2 DEF Placed, DialTypeOK
    <2> QED BY <2>1, <2>2
  <1>6. ASSUME NEW m \in Node
        PROVE  poolIndex'[m] >= -1 /\ (poolIndex'[m] >= 0 <=> poolIndex[m] >= 0 \/ m = n)
    <2>1. CASE m = n
      BY <1>1, <1>2, <2>1
    <2>2. CASE m # n
      BY <1>2, <2>2 DEF DialTypeOK
    <2> QED BY <2>1, <2>2
  <1>7. Placed'
    BY <1>4, <1>5 DEF Placed
  <1> QED BY <1>1, <1>2, <1>6, <1>7

\* removeFromStaticPool takes one task away; the last one gets its place.
LEMMA PoolShrinks ==
    ASSUME DialTypeOK, Placed, NEW k \in 1 .. Len(staticPool), RemoveFromStaticPool(k - 1)
    PROVE  /\ staticPool' \in Seq(Node) /\ poolIndex' \in [Node -> Int] /\ Placed'
           /\ \A m \in Node : poolIndex'[m] >= -1
           /\ \A m \in Node : poolIndex'[m] >= 0 <=> poolIndex[m] >= 0 /\ m # staticPool[k]
  <1> DEFINE L == Len(staticPool)
             last == staticPool[L]
             task == staticPool[k]
  <1>1. /\ L \in Nat /\ L >= 1 /\ k \in 1 .. L /\ (k - 1) + 1 = k
        /\ \A i \in 1 .. L : staticPool[i] \in Node
        /\ last \in Node /\ task \in Node
    BY DEF DialTypeOK
  <1>2. staticPool' = [i \in 1 .. L - 1 |-> IF i = k THEN last ELSE staticPool[i]]
    BY <1>1 DEF RemoveFromStaticPool
  <1>3. /\ staticPool' \in Seq(Node) /\ Len(staticPool') = L - 1
        /\ \A i \in 1 .. L - 1 : staticPool'[i] = IF i = k THEN last ELSE staticPool[i]
    BY <1>1, <1>2
  <1>4. /\ poolIndex' = [poolIndex EXCEPT ![last] = k - 1, ![task] = -1]
    BY <1>1 DEF RemoveFromStaticPool
  <1>5. /\ poolIndex' \in [Node -> Int]
        /\ poolIndex'[task] = -1
        /\ last # task => poolIndex'[last] = k - 1
        /\ \A m \in Node : m # task /\ m # last => poolIndex'[m] = poolIndex[m]
    BY <1>1, <1>4 DEF DialTypeOK
  <1>6. \A i, j \in 1 .. L : staticPool[i] = staticPool[j] => i = j
    BY <1>1 DEF Placed
  <1>7. last = task <=> k = L
    BY <1>1, <1>6
  <1>8. \A i \in 1 .. Len(staticPool') : poolIndex'[staticPool'[i]] = i - 1
    <2> SUFFICES ASSUME NEW i \in 1 .. L - 1 PROVE poolIndex'[staticPool'[i]] = i - 1
      BY <1>3
    <2>1. CASE i = k
      BY <1>1, <1>3, <1>5, <1>7, <2>1
    <2>2. CASE i # k
      <3>1. staticPool'[i] = staticPool[i] /\ i \in 1 .. L /\ i # L
        BY <1>1, <1>3, <2>2
      <3>2. staticPool[i] # task /\ staticPool[i] # last
        BY <1>1, <1>6, <2>2, <3>1
      <3> QED BY <1>1, <1>5, <3>1, <3>2 DEF Placed
    <2> QED BY <2>1, <2>2
  <1>9. \A m \in Node : poolIndex'[m] # -1 =>
           poolIndex'[m] + 1 \in 1 .. Len(staticPool') /\ staticPool'[poolIndex'[m] + 1] = m
    <2> SUFFICES ASSUME NEW m \in Node, poolIndex'[m] # -1
                 PROVE  /\ poolIndex'[m] + 1 \in 1 .. Len(staticPool')
                        /\ staticPool'[poolIndex'[m] + 1] = m
      OBVIOUS
    <2>1. m # task
      BY <1>5
    <2>2. CASE m = last
      <3>1. poolIndex'[m] = k - 1 /\ k # L
        BY <1>5, <1>7, <2>1, <2>2
      <3> QED BY <1>1, <1>3, <2>2, <3>1
    <2>3. CASE m # last
      <3>1. poolIndex'[m] = poolIndex[m]
        BY <1>5, <2>1, <2>3
      <3>2. poolIndex[m] + 1 \in 1 .. L /\ staticPool[poolIndex[m] + 1] = m
        BY <3>1 DEF Placed
      <3>3. poolIndex[m] + 1 # L /\ poolIndex[m] + 1 # k
        BY <2>1, <2>3, <3>2
      <3> QED BY <1>1, <1>3, <3>1, <3>2, <3>3
    <2> QED BY <2>2, <2>3
  <1>10. poolIndex[task] = k - 1 /\ poolIndex[last] = L - 1
    <2>1. k \in 1 .. Len(staticPool) /\ L \in 1 .. Len(staticPool)
      BY <1>1
    <2> QED BY <2>1 DEF Placed
  <1>11. \A m \in Node : poolIndex'[m] >= 0 <=> poolIndex[m] >= 0 /\ m # task
    BY <1>1, <1>5, <1>10
  <1>12. ASSUME NEW m \in Node PROVE poolIndex'[m] >= -1
    <2>1. CASE m = task
      BY <1>5, <2>1
    <2>2. CASE m # task /\ m = last
      BY <1>1, <1>5, <2>2
    <2>3. CASE m # task /\ m # last
      BY <1>5, <2>3 DEF DialTypeOK
    <2> QED BY <2>1, <2>2, <2>3
  <1> QED BY <1>3, <1>5, <1>8, <1>9, <1>11, <1>12 DEF Placed

\* updateStaticPool after something about node n changed: the pool is exact
\* for the active tasks, peers and history it was called with.
LEMMA PoolUpdated ==
    ASSUME DialTypeOK, Placed, Exact, NEW n \in Node, NEW d, NEW p, NEW h,
           static' = static, UpdateStaticPool(n, d, p, h),
           \A m \in Node : m # n =>
               (CheckDial(m, d, p, h) <=> CheckDial(m, dialing, peers, history)),
           poolIndex[n] >= 0 => CheckDial(n, d, p, h)
    PROVE  /\ staticPool' \in Seq(Node) /\ poolIndex' \in [Node -> Int] /\ Placed'
           /\ \A m \in Node : poolIndex'[m] >= -1
           /\ \A m \in Node : poolIndex'[m] >= 0 <=> m \in static' /\ CheckDial(m, d, p, h)
  <1>1. poolIndex[n] \in Int
    BY DEF DialTypeOK
  <1>2. CASE n \in static /\ poolIndex[n] < 0 /\ CheckDial(n, d, p, h)
    <2>1. AddToStaticPool(n)
      BY <1>2 DEF UpdateStaticPool
    <2>2. /\ staticPool' \in Seq(Node) /\ poolIndex' \in [Node -> Int] /\ Placed'
          /\ \A m \in Node : poolIndex'[m] >= -1
          /\ \A m \in Node : poolIndex'[m] >= 0 <=> poolIndex[m] >= 0 \/ m = n
      BY <1>2, <2>1, PoolGrows
    <2>3. ASSUME NEW m \in Node
          PROVE  poolIndex'[m] >= 0 <=> m \in static' /\ CheckDial(m, d, p, h)
      <3>1. CASE m = n
        BY <1>2, <2>2, <3>1
      <3>2. CASE m # n
        BY <2>2, <3>2 DEF Exact
      <3> QED BY <3>1, <3>2
    <2> QED BY <2>2, <2>3
  <1>3. CASE ~(n \in static /\ poolIndex[n] < 0 /\ CheckDial(n, d, p, h))
    <2>1. staticPool' = staticPool /\ poolIndex' = poolIndex
      BY <1>3 DEF UpdateStaticPool
    <2>2. Placed'
      BY <2>1 DEF Placed
    <2>3. ASSUME NEW m \in Node
          PROVE  poolIndex'[m] >= 0 <=> m \in static' /\ CheckDial(m, d, p, h)
      <3>1. CASE m = n
        BY <1>1, <1>3, <2>1, <3>1 DEF Exact
      <3>2. CASE m # n
        BY <2>1, <3>2 DEF Exact
      <3> QED BY <3>1, <3>2
    <2> QED BY <2>1, <2>2, <2>3 DEF DialTypeOK
  <1> QED BY <1>2, <1>3

\* What addPeer and removeStatic do to the pool: node n is no longer there.
LEMMA PoolLeft ==
    ASSUME DialTypeOK, Placed, Exact, NEW n \in Node,
           IF n \in static /\ poolIndex[n] >= 0
           THEN RemoveFromStaticPool(poolIndex[n])
           ELSE UNCHANGED <<staticPool, poolIndex>>
    PROVE  /\ staticPool' \in Seq(Node) /\ poolIndex' \in [Node -> Int] /\ Placed'
           /\ \A m \in Node : poolIndex'[m] >= -1
           /\ \A m \in Node : poolIndex'[m] >= 0 <=> poolIndex[m] >= 0 /\ m # n
  <1>1. CASE n \in static /\ poolIndex[n] >= 0
    <2> DEFINE k == poolIndex[n] + 1
    <2>1. poolIndex[n] \in Int /\ k - 1 = poolIndex[n]
      BY DEF DialTypeOK
    <2>2. k \in 1 .. Len(staticPool) /\ staticPool[k] = n
      BY <1>1, <2>1 DEF Placed
    <2>3. RemoveFromStaticPool(k - 1)
      BY <1>1, <2>1
    <2> HIDE DEF k
    <2> QED BY <2>2, <2>3, PoolShrinks
  <1>2. CASE ~(n \in static /\ poolIndex[n] >= 0)
    <2>1. staticPool' = staticPool /\ poolIndex' = poolIndex
      BY <1>2
    <2>2. ~(poolIndex[n] >= 0)
      BY <1>2 DEF Exact
    <2>3. Placed'
      BY <2>1 DEF Placed
    <2> QED BY <2>1, <2>2, <2>3 DEF DialTypeOK
  <1> QED BY <1>1, <1>2

\* freeDialSlots is a number, negative when peers were added past the limit.
LEMMA SlotsInteger ==
    ASSUME NEW d \in SUBSET Node, NEW c \in Int
    PROVE  FreeDialSlots(d, c) \in Int
  <1>1. IsFiniteSet(d)
    BY DialAssumption, FS_Subset
  <1>2. Cardinality(d) \in Nat
    BY <1>1, FS_CardinalityType
  <1>3. (MaxDialPeers - c) * 2 \in Int /\ MaxActiveDials \in Int
    BY DialAssumption
  <1> QED BY <1>2, <1>3 DEF FreeDialSlots

-----------------------------------------------------------------------------
(* The steps of the loop                                                   *)

\* What the cases of the select have in common: the loop turns.
LEMMA Turned ==
    ASSUME Turn, dialing' \in SUBSET Node, dialPeers' \in Int
    PROVE  loop' = "launch" /\ slots' \in Int
  BY SlotsInteger DEF Turn

\* The scheduler starts with an empty pool.
LEMMA Initially == DialInit => IInv
  <1> SUFFICES ASSUME DialInit PROVE IInv
    OBVIOUS
  <1> USE DEF DialInit
  <1>1. slots \in Int
    BY SlotsInteger
  <1>2. DialTypeOK
    BY <1>1 DEF DialTypeOK
  <1>3. Len(staticPool) = 0 /\ Len(history) = 0
    OBVIOUS
  <1>4. Placed /\ Exact
    BY <1>3 DEF Placed, Exact
  <1> QED BY <1>2, <1>3, <1>4 DEF IInv, Once, NoWaste

\* startStaticDials moves a task of the pool to the active ones.
LEMMA StartKeeps ==
    ASSUME IInv, NEW i \in DOMAIN staticPool, StartStaticDial(i)
    PROVE  IInv'
  <1> DEFINE n == staticPool[i]
  <1>1. /\ DialTypeOK /\ Placed /\ Exact /\ Once /\ loop = "launch"
        /\ i \in 1 .. Len(staticPool) /\ n \in Node
    BY DEF IInv, Running, StartStaticDial, DialTypeOK
  <1>2. /\ loop' = loop /\ static' = static /\ peers' = peers /\ dialPeers' = dialPeers
        /\ dialing' = dialing \cup {n} /\ history' = Append(history, n)
        /\ slots' = slots - 1 /\ RemoveFromStaticPool(i - 1)
    BY DEF StartStaticDial
  <1>3. /\ staticPool' \in Seq(Node) /\ poolIndex' \in [Node -> Int] /\ Placed'
        /\ \A m \in Node : poolIndex'[m] >= -1
        /\ \A m \in Node : poolIndex'[m] >= 0 <=> poolIndex[m] >= 0 /\ m # n
    BY <1>1, <1>2, PoolShrinks
  <1>4. poolIndex[n] >= 0
    BY <1>1 DEF Placed
  <1>5. ~InHistory(n, history)
    BY <1>1, <1>4 DEF Exact, CheckDial
  <1>6. history' \in Seq(Node) /\ Once'
    BY <1>1, <1>2, <1>5, AppendOnce, AppendOne DEF Once, DialTypeOK
  <1>7. \A m : InHistory(m, history') <=> InHistory(m, history) \/ m = n
    BY <1>1, <1>2, AppendHistory DEF DialTypeOK
  <1>8. Exact'
    BY <1>2, <1>3, <1>7, <1>1 DEF Exact, CheckDial
  <1>9. DialTypeOK'
    BY <1>1, <1>2, <1>3, <1>6 DEF DialTypeOK
  <1> QED BY <1>1, <1>2, <1>3, <1>6, <1>8, <1>9 DEF IInv, NoWaste

\* A candidate is dialed only when no static task waits, so it has none.
LEMMA FoundKeeps ==
    ASSUME IInv, NEW n \in Node, NodeFound(n)
    PROVE  IInv'
  <1>1. /\ DialTypeOK /\ Placed /\ Exact /\ Once /\ loop = "select"
        /\ slots > 0 /\ Len(staticPool) = 0
    BY DEF IInv, Running, NoWaste, NodeFound, DialTypeOK
  <1>2. /\ static' = static /\ peers' = peers /\ dialPeers' = dialPeers
        /\ staticPool' = staticPool /\ poolIndex' = poolIndex /\ Turn
    BY DEF NodeFound
  <1>3. Placed'
    BY <1>1, <1>2 DEF Placed
  <1>4. CASE CheckDial(n, dialing, peers, history)
    <2>1. dialing' = dialing \cup {n} /\ history' = Append(history, n)
      BY <1>4 DEF NodeFound
    <2>2. history' \in Seq(Node) /\ Once'
      BY <1>1, <1>4, <2>1, AppendOnce, AppendOne DEF Once, DialTypeOK, CheckDial
    <2>3. \A m : InHistory(m, history') <=> InHistory(m, history) \/ m = n
      BY <1>1, <2>1, AppendHistory DEF DialTypeOK
    <2>4. ~(poolIndex[n] >= 0)
      BY <1>1 DEF Placed, DialTypeOK
    <2>5. Exact'
      BY <1>1, <1>2, <2>1, <2>3, <2>4 DEF Exact, CheckDial
    <2>6. loop' = "launch" /\ slots' \in Int
      BY <1>1, <1>2, <2>1, Turned DEF DialTypeOK
    <2>7. DialTypeOK'
      BY <1>1, <1>2, <2>1, <2>2, <2>6 DEF DialTypeOK
    <2> QED BY <1>3, <2>2, <2>5, <2>6, <2>7 DEF IInv, NoWaste
  <1>5. CASE ~CheckDial(n, dialing, peers, history)
    <2>1. dialing' = dialing /\ history' = history
      BY <1>5 DEF NodeFound
    <2>2. loop' = "launch" /\ slots' \in Int
      BY <1>1, <1>2, <2>1, Turned DEF DialTypeOK
    <2>3. DialTypeOK' /\ Once' /\ Exact'
      BY <1>1, <1>2, <2>1, <2>2 DEF DialTypeOK, Once, Exact
    <2> QED BY <1>3, <2>2, <2>3 DEF IInv, NoWaste
  <1> QED BY <1>4, <1>5

\* The end of a dial, of a connection and of a history entry: the three
\* events after which a static node may be due again.
LEMMA TaskDoneKeeps ==
    ASSUME IInv, NEW n \in Node, TaskDone(n)
    PROVE  IInv'
  <1>1. /\ DialTypeOK /\ Placed /\ Exact /\ Once /\ loop = "select" /\ n \in dialing
    BY DEF IInv, Running, TaskDone
  <1>2. /\ static' = static /\ peers' = peers /\ dialPeers' = dialPeers
        /\ history' = history /\ dialing' = dialing \ {n}
        /\ UpdateStaticPool(n, dialing', peers, history) /\ Turn
    BY DEF TaskDone
  <1>3. /\ \A m \in Node : m # n => (CheckDial(m, dialing', peers, history) <=>
                                     CheckDial(m, dialing, peers, history))
        /\ ~(poolIndex[n] >= 0)
    BY <1>1, <1>2 DEF CheckDial, Exact
  <1>4. /\ staticPool' \in Seq(Node) /\ poolIndex' \in [Node -> Int] /\ Placed'
        /\ \A m \in Node : poolIndex'[m] >= -1
        /\ \A m \in Node : poolIndex'[m] >= 0 <=>
               m \in static' /\ CheckDial(m, dialing', peers, history)
    BY <1>1, <1>2, <1>3, PoolUpdated
  <1>5. Exact'
    BY <1>2, <1>4 DEF Exact
  <1>6. loop' = "launch" /\ slots' \in Int
    BY <1>1, <1>2, Turned DEF DialTypeOK
  <1>7. DialTypeOK' /\ Once'
    BY <1>1, <1>2, <1>4, <1>6 DEF DialTypeOK, Once
  <1> QED BY <1>4, <1>5, <1>6, <1>7 DEF IInv, NoWaste

\* case c := <-d.remPeerCh: the node may enter the pool again.
LEMMA PeerRemovedKeeps ==
    ASSUME IInv, NEW n \in peers, NEW dialed \in BOOLEAN, PeerRemoved(n, dialed)
    PROVE  IInv'
  <1>1. /\ DialTypeOK /\ Placed /\ Exact /\ Once /\ loop = "select" /\ n \in Node
    BY DEF IInv, Running, PeerRemoved, DialTypeOK
  <1>2. /\ static' = static /\ peers' = peers \ {n} /\ dialing' = dialing
        /\ history' = history /\ UpdateStaticPool(n, dialing, peers', history) /\ Turn
    BY DEF PeerRemoved
  <1>3. /\ \A m \in Node : m # n => (CheckDial(m, dialing, peers', history) <=>
                                     CheckDial(m, dialing, peers, history))
        /\ ~(poolIndex[n] >= 0)
    BY <1>1, <1>2 DEF CheckDial, Exact
  <1>4. /\ staticPool' \in Seq(Node) /\ poolIndex' \in [Node -> Int] /\ Placed'
        /\ \A m \in Node : poolIndex'[m] >= -1
        /\ \A m \in Node : poolIndex'[m] >= 0 <=>
               m \in static' /\ CheckDial(m, dialing, peers', history)
    BY <1>1, <1>2, <1>3, PoolUpdated
  <1>5. Exact'
    BY <1>2, <1>4 DEF Exact
  <1>6. dialPeers' \in Int
    BY <1>1 DEF PeerRemoved, DialTypeOK
  <1>7. loop' = "launch" /\ slots' \in Int
    BY <1>1, <1>2, <1>6, Turned DEF DialTypeOK
  <1>8. DialTypeOK' /\ Once'
    BY <1>1, <1>2, <1>4, <1>6, <1>7 DEF DialTypeOK, Once
  <1> QED BY <1>4, <1>5, <1>7, <1>8 DEF IInv, NoWaste

\* expireHistory: a node that leaves the history may enter the pool.
LEMMA ExpireKeeps ==
    ASSUME IInv, ExpireItem
    PROVE  IInv'
  <1> DEFINE n == Head(history)
  <1>1. /\ DialTypeOK /\ Placed /\ Exact /\ Once /\ loop = "expire" /\ history # <<>>
    BY DEF IInv, Running, ExpireItem
  <1>2. /\ static' = static /\ peers' = peers /\ dialing' = dialing /\ loop' = loop
        /\ slots' = slots /\ dialPeers' = dialPeers /\ history' = Tail(history)
        /\ UpdateStaticPool(n, dialing, peers, history')
    BY DEF ExpireItem
  <1>3. /\ history' \in Seq(Node) /\ n \in Node /\ Once'
        /\ \A m : InHistory(m, history') <=> InHistory(m, history) /\ m # n
    <2>1. /\ history \in Seq(Node) /\ history # <<>>
          /\ \A i, j \in 1 .. Len(history) : history[i] = history[j] => i = j
      BY <1>1 DEF DialTypeOK, Once
    <2>2. /\ Tail(history) \in Seq(Node) /\ Head(history) \in Node
          /\ \A i, j \in 1 .. Len(Tail(history)) : Tail(history)[i] = Tail(history)[j] => i = j
          /\ \A m : InHistory(m, Tail(history)) <=> InHistory(m, history) /\ m # Head(history)
      BY <2>1, TailHistory
    <2> QED BY <1>2, <2>2 DEF Once
  <1>4. InHistory(n, history)
    <2>1. history \in Seq(Node) /\ history # <<>>
      BY <1>1 DEF DialTypeOK
    <2>2. 1 \in DOMAIN history /\ history[1] = n
      BY <2>1
    <2> QED BY <2>2 DEF InHistory
  <1>5. /\ \A m \in Node : m # n => (CheckDial(m, dialing, peers, history') <=>
                                     CheckDial(m, dialing, peers, history))
        /\ ~(poolIndex[n] >= 0)
    BY <1>1, <1>3, <1>4 DEF CheckDial, Exact
  <1>6. /\ staticPool' \in Seq(Node) /\ poolIndex' \in [Node -> Int] /\ Placed'
        /\ \A m \in Node : poolIndex'[m] >= -1
        /\ \A m \in Node : poolIndex'[m] >= 0 <=>
               m \in static' /\ CheckDial(m, dialing, peers, history')
    BY <1>1, <1>2, <1>3, <1>5, PoolUpdated
  <1>7. Exact'
    BY <1>2, <1>6 DEF Exact
  <1>8. DialTypeOK'
    BY <1>1, <1>2, <1>3, <1>6 DEF DialTypeOK
  <1> QED BY <1>1, <1>2, <1>3, <1>6, <1>7, <1>8 DEF IInv, NoWaste

\* A peer was added, a static node removed: both leave the pool.
LEMMA PeerAddedKeeps ==
    ASSUME IInv, NEW n \in Node, NEW dialed \in BOOLEAN, PeerAdded(n, dialed)
    PROVE  IInv'
  <1>1. /\ DialTypeOK /\ Placed /\ Exact /\ Once /\ loop = "select"
    BY DEF IInv, Running, PeerAdded
  <1>2. /\ static' = static /\ peers' = peers \cup {n} /\ dialing' = dialing
        /\ history' = history /\ Turn
    BY DEF PeerAdded
  <1>3. /\ staticPool' \in Seq(Node) /\ poolIndex' \in [Node -> Int] /\ Placed'
        /\ \A m \in Node : poolIndex'[m] >= -1
        /\ \A m \in Node : poolIndex'[m] >= 0 <=> poolIndex[m] >= 0 /\ m # n
    BY <1>1, PoolLeft DEF PeerAdded
  <1>4. Exact'
    BY <1>1, <1>2, <1>3 DEF Exact, CheckDial
  <1>5. dialPeers' \in Int
    BY <1>1 DEF PeerAdded, DialTypeOK
  <1>6. loop' = "launch" /\ slots' \in Int
    BY <1>1, <1>2, <1>5, Turned DEF DialTypeOK
  <1>7. DialTypeOK' /\ Once'
    BY <1>1, <1>2, <1>3, <1>5, <1>6 DEF DialTypeOK, Once
  <1> QED BY <1>3, <1>4, <1>6, <1>7 DEF IInv, NoWaste

\* case node := <-d.remStaticCh.
LEMMA RemoveStaticKeeps ==
    ASSUME IInv, NEW n \in Node, RemoveStatic(n)
    PROVE  IInv'
  <1>1. /\ DialTypeOK /\ Placed /\ Exact /\ Once /\ loop = "select"
    BY DEF IInv, Running, RemoveStatic
  <1>2. /\ static' = static \ {n} /\ peers' = peers /\ dialing' = dialing
        /\ dialPeers' = dialPeers /\ history' = history /\ Turn
    BY DEF RemoveStatic
  <1>3. /\ staticPool' \in Seq(Node) /\ poolIndex' \in [Node -> Int] /\ Placed'
        /\ \A m \in Node : poolIndex'[m] >= -1
        /\ \A m \in Node : poolIndex'[m] >= 0 <=> poolIndex[m] >= 0 /\ m # n
    BY <1>1, PoolLeft DEF RemoveStatic
  <1>4. Exact'
    BY <1>1, <1>2, <1>3 DEF Exact
  <1>5. loop' = "launch" /\ slots' \in Int
    BY <1>1, <1>2, Turned DEF DialTypeOK
  <1>6. DialTypeOK' /\ Once'
    BY <1>1, <1>2, <1>3, <1>5 DEF DialTypeOK, Once
  <1> QED BY <1>3, <1>4, <1>5, <1>6 DEF IInv, NoWaste

\* case node := <-d.addStaticCh.
LEMMA AddStaticKeeps ==
    ASSUME IInv, NEW n \in Node, AddStatic(n)
    PROVE  IInv'
  <1>1. /\ DialTypeOK /\ Placed /\ Exact /\ Once /\ loop = "select"
    BY DEF IInv, Running, AddStatic
  <1>2. /\ peers' = peers /\ dialing' = dialing
        /\ dialPeers' = dialPeers /\ history' = history /\ Turn
    BY DEF AddStatic
  <1>3. loop' = "launch" /\ slots' \in Int
    BY <1>1, <1>2, Turned DEF DialTypeOK
  <1>4. CASE n \notin static /\ CheckDial(n, dialing, peers, history)
    <2>1. static' = static \cup {n} /\ AddToStaticPool(n)
      BY <1>4 DEF AddStatic
    <2>2. poolIndex[n] < 0
      BY <1>1, <1>4 DEF Exact, DialTypeOK
    <2>3. /\ staticPool' \in Seq(Node) /\ poolIndex' \in [Node -> Int] /\ Placed'
          /\ \A m \in Node : poolIndex'[m] >= -1
          /\ \A m \in Node : poolIndex'[m] >= 0 <=> poolIndex[m] >= 0 \/ m = n
      BY <1>1, <2>1, <2>2, PoolGrows
    <2>4. Exact'
      BY <1>1, <1>2, <1>4, <2>1, <2>3 DEF Exact
    <2>5. DialTypeOK' /\ Once'
      BY <1>1, <1>2, <1>3, <2>1, <2>3 DEF DialTypeOK, Once
    <2> QED BY <1>3, <2>3, <2>4, <2>5 DEF IInv, NoWaste
  <1>5. CASE ~(n \notin static /\ CheckDial(n, dialing, peers, history))
    <2>1. staticPool' = staticPool /\ poolIndex' = poolIndex
      BY <1>5 DEF AddStatic
    <2>2. static' = static \cup {n}
      BY <1>5 DEF AddStatic
    <2>3. Placed' /\ Exact'
      BY <1>1, <1>2, <1>5, <2>1, <2>2 DEF Placed, Exact
    <2>4. DialTypeOK' /\ Once'
      BY <1>1, <1>2, <1>3, <2>1, <2>2 DEF DialTypeOK, Once
    <2> QED BY <1>3, <2>3, <2>4 DEF IInv, NoWaste
  <1> QED BY <1>4, <1>5

\* Steps that only move the loop, and the shutdown.
LEMMA MoveKeeps ==
    ASSUME IInv,
           \/ Listen \/ ExpireHistory \/ ExpireReturn \/ Cancelled \/ LoopExit
           \/ \E n \in Node : TaskDrained(n)
           \/ UNCHANGED dialVars
    PROVE  IInv'
  <1>1. DialTypeOK /\ Once /\ NoWaste /\ (Running => Placed /\ Exact)
    BY DEF IInv
  <1>2. CASE Listen \/ ExpireHistory \/ Cancelled \/ LoopExit \/ UNCHANGED dialVars
    <2>1. UNCHANGED <<slots, static, staticPool, poolIndex, dialing, peers, dialPeers, history>>
      BY <1>2 DEF Listen, ExpireHistory, Cancelled, LoopExit, dialVars
    <2>2. DialTypeOK' /\ Once'
      BY <1>1, <1>2, <2>1 DEF DialTypeOK, Once, Listen, ExpireHistory, Cancelled, LoopExit,
                              dialVars
    <2>3. Running' => Running
      BY <1>2 DEF Running, Listen, ExpireHistory, Cancelled, LoopExit, dialVars
    <2>4. Running' => Placed' /\ Exact'
      BY <1>1, <2>1, <2>3 DEF Placed, Exact
    <2>5. NoWaste'
      BY <1>1, <1>2, <2>1 DEF NoWaste, Listen, ExpireHistory, Cancelled, LoopExit, dialVars
    <2> QED BY <2>2, <2>4, <2>5 DEF IInv
  <1>3. CASE ExpireReturn
    <2>1. /\ loop = "expire"
          /\ UNCHANGED <<static, staticPool, poolIndex, dialing, peers, dialPeers, history>>
          /\ Turn
      BY <1>3 DEF ExpireReturn
    <2>2. loop' = "launch" /\ slots' \in Int
      BY <1>1, <2>1, Turned DEF DialTypeOK
    <2>3. DialTypeOK' /\ Once'
      BY <1>1, <2>1, <2>2 DEF DialTypeOK, Once
    <2>4. Placed' /\ Exact'
      BY <1>1, <2>1 DEF Placed, Exact, Running
    <2> QED BY <2>2, <2>3, <2>4 DEF IInv, NoWaste
  <1>4. CASE \E n \in Node : TaskDrained(n)
    <2>1. /\ loop = "stopping" /\ loop' = loop /\ dialing' \in SUBSET Node
          /\ UNCHANGED <<slots, static, staticPool, poolIndex, peers, dialPeers, history>>
      BY <1>1, <1>4 DEF TaskDrained, DialTypeOK
    <2>2. DialTypeOK' /\ Once'
      BY <1>1, <2>1 DEF DialTypeOK, Once
    <2> QED BY <2>1, <2>2 DEF IInv, NoWaste, Running
  <1> QED BY <1>2, <1>3, <1>4

\* One step of the scheduler.
LEMMA Stepwise == IInv /\ [DialNext]_dialVars => IInv'
  <1> SUFFICES ASSUME IInv, [DialNext]_dialVars PROVE IInv'
    OBVIOUS
  <1>1. DialTypeOK
    BY DEF IInv
  <1>2. CASE LoopStep
    BY <1>2, StartKeeps, ExpireKeeps, MoveKeeps DEF LoopStep
  <1>3. CASE Cancelled \/ UNCHANGED dialVars
    BY <1>3, MoveKeeps
  <1>4. ASSUME NEW n \in Node,
               \/ NodeFound(n) \/ TaskDone(n) \/ TaskDrained(n)
               \/ AddStatic(n) \/ RemoveStatic(n)
        PROVE  IInv'
    BY <1>4, FoundKeeps, TaskDoneKeeps, MoveKeeps, AddStaticKeeps, RemoveStaticKeeps
  <1>5. ASSUME NEW n \in Node, NEW dialed \in BOOLEAN,
               \/ n \notin peers /\ PeerAdded(n, dialed)
               \/ n \in peers /\ PeerRemoved(n, dialed)
        PROVE  IInv'
    BY <1>5, PeerAddedKeeps, PeerRemovedKeeps
  <1> QED BY <1>2, <1>3, <1>4, <1>5 DEF DialNext

\* The invariant says more than PoolExact.
LEMMA ExactPool == IInv => PoolExact
  <1> SUFFICES ASSUME IInv PROVE PoolExact
    OBVIOUS
  <1>1. DialTypeOK /\ Once /\ NoWaste /\ (Running => Placed /\ Exact)
    BY DEF IInv
  <1>2. DOMAIN staticPool = 1 .. Len(staticPool) /\ DOMAIN history = 1 .. Len(history)
    BY <1>1 DEF DialTypeOK
  <1>3. ASSUME loop # "stopping", loop # "exited" PROVE PoolSound /\ PoolComplete
    <2>1. Placed /\ Exact
      BY <1>1, <1>3 DEF Running, DialTypeOK
    <2>2. ASSUME NEW i \in 1 .. Len(staticPool)
          PROVE  /\ poolIndex[staticPool[i]] = i - 1
                 /\ staticPool[i] \in static
                 /\ CheckDial(staticPool[i], dialing, peers, history)
      <3>1. staticPool[i] \in Node /\ poolIndex[staticPool[i]] = i - 1
        BY <1>1, <2>1 DEF DialTypeOK, Placed
      <3>2. poolIndex[staticPool[i]] >= 0
        BY <3>1
      <3> QED BY <2>1, <3>1, <3>2 DEF Exact
    <2>3. PoolSound
      BY <1>2, <2>1, <2>2 DEF PoolSound, Placed
    <2>4. loop = "select" => slots <= 0 \/ staticPool = <<>>
      BY <1>1 DEF NoWaste, DialTypeOK
    <2>5. PoolComplete
      BY <1>1, <2>1, <2>4 DEF PoolComplete, Exact, DialTypeOK
    <2> QED BY <2>3, <2>5
  <1> QED BY <1>1, <1>2, <1>3 DEF PoolExact, Once

\* The bookkeeping of the dial loop is exact in every reachable state: the
\* pool of static tasks, kept up to date by single additions and removals in
\* eight cases of the select, holds exactly the static nodes that may be
\* dialed, each at the place its index says.
THEOREM PoolStaysExact == DialSpec => []PoolExact
  <1>1. DialInit => IInv
    BY Initially
  <1>2. IInv /\ [DialNext]_dialVars => IInv'
    BY Stepwise
  <1>3. IInv => PoolExact
    BY ExactPool
  <1> QED BY <1>1, <1>2, <1>3, PTL DEF DialSpec

-----------------------------------------------------------------------------
(* The server: its invariant                                               *)

ServerTypeOK ==
    /\ srv \in {"select", "added", "removed", "op", "disconnect", "ending", "dialer", "stopped"}
    /\ peer \in [Node -> [at : {"none", "adding", "running", "ended"}, dir : Direction,
                          asked : BOOLEAN]]
    /\ srv \in {"added", "removed"} => at \in Node \X Direction
    /\ srv \in {"op", "disconnect"} => remove = "op"
    /\ remove \in {"calling", "op"} => removing \in Node

\* The peers of a direction, and those that the scheduler and the counters know.
Side(d) == {n \in Peers : peer[n].dir = d}
Told(d) ==
    IF srv = "added" THEN Side(d) \ {at[1]}
    ELSE IF srv = "removed" /\ at[2] = d THEN Side(d) \cup {at[1]}
    ELSE Side(d)

\* The connection the main loop is about to report.
AtWork ==
    /\ srv = "added" => at[1] \in Peers /\ peer[at[1]].dir = at[2]
    /\ srv = "removed" => at[1] \notin Peers

\* At the end of run peers are only awaited, and nobody is told.
Ending == srv \in {"ending", "dialer", "stopped"}
Counted == ~Ending =>
    /\ peers = Told("out") \cup Told("in")
    /\ dialPeers = Cardinality(Told("out"))
    /\ inboundCount = Cardinality(Told("in"))

SInv == ServerTypeOK /\ AtWork /\ Counted /\ LimitsKept

-----------------------------------------------------------------------------
(* Steps that leave the peers as they are                                  *)

\* All sets of nodes are finite.
LEMMA NodesFinite ==
    ASSUME NEW S, S \subseteq Node
    PROVE  IsFiniteSet(S) /\ Cardinality(S) \in Nat
  BY DialAssumption, FS_Subset, FS_CardinalityType

\* The counts depend on who is a peer, on the directions and on the report that
\* is under way, not on what the goroutine of a peer does.
LEMMA SameCounts ==
    ASSUME SInv, ServerTypeOK',
           peers' = peers, dialPeers' = dialPeers, inboundCount' = inboundCount,
           \A n \in Node : (peer'[n].at = "none") <=> (peer[n].at = "none"),
           \A n \in Node : peer'[n].dir = peer[n].dir,
           \/ srv' = srv /\ at' = at
           \/ /\ srv \notin {"added", "removed"} /\ srv' \notin {"added", "removed"}
              /\ Ending => Ending'
    PROVE  SInv'
  <1>1. Peers' = Peers
    BY DEF Peers
  <1>2. Peers \subseteq Node
    BY DEF Peers
  <1>3. Side("out")' = Side("out") /\ Side("in")' = Side("in")
    BY <1>1, <1>2 DEF Side
  <1>4. Told("out")' = Told("out") /\ Told("in")' = Told("in")
    BY <1>3 DEF Told
  <1>5. AtWork'
    BY <1>1, <1>2 DEF SInv, AtWork
  <1>6. Counted'
    BY <1>4 DEF SInv, Counted, Ending
  <1>7. {n \in Peers \ Trusted : peer[n].dir = "in"}' = {n \in Peers \ Trusted : peer[n].dir = "in"}
    BY <1>1, <1>2
  <1>8. LimitsKept'
    BY <1>1, <1>7 DEF SInv, LimitsKept
  <1> QED BY <1>5, <1>6, <1>8 DEF SInv

\* The scheduler's own steps and the setup of connections.
LEMMA OthersKeep ==
    ASSUME SInv, UNCHANGED <<srv, at, peer, inboundCount, remove, removing, peers, dialPeers>>
    PROVE  SInv'
  <1>1. ServerTypeOK'
    BY DEF SInv, ServerTypeOK
  <1> QED BY <1>1, SameCounts

\* The calls of RemovePeer, and the ends of the main loop.
LEMMA CallsKeep ==
    ASSUME SInv,
           \/ \E n \in Node : RemovePeer(n)
           \/ RemoveOp \/ RemoveQuits \/ RemoveStaticNode \/ RemoveEvent \/ RunBreaks
           \/ StopDialer \/ Stopped
    PROVE  SInv'
  <1>1. ServerTypeOK
    BY DEF SInv
  <1>2. /\ UNCHANGED <<at, peer, inboundCount, peers, dialPeers>>
        /\ \/ srv' = srv
           \/ srv' \notin {"added", "removed"} /\ srv \notin {"added", "removed"}
        /\ Ending => Ending'
    <2>1. CASE RemoveStaticNode
      BY <2>1 DEF RemoveStaticNode, RemoveStatic, Ending
    <2>2. CASE StopDialer \/ Stopped \/ RunBreaks
      BY <2>2 DEF RunBreaks, StopDialer, Stopped, Cancelled, dialVars, Ending
    <2>3. CASE RemoveEvent
      BY <2>3 DEF RemoveEvent, dialVars, Ending
    <2>4. CASE RemoveOp
      BY <2>4 DEF RemoveOp, dialVars, Ending
    <2>5. CASE RemoveQuits \/ \E n \in Node : RemovePeer(n)
      BY <2>5 DEF RemovePeer, RemoveQuits, dialVars, Ending
    <2> QED BY <2>1, <2>2, <2>3, <2>4, <2>5
  <1>3. /\ srv' \in {"select", "added", "removed", "op", "disconnect", "ending", "dialer",
                     "stopped"}
        /\ srv' \in {"op", "disconnect"} => remove' = "op"
    BY <1>1 DEF RemovePeer, RemoveOp, RemoveQuits, RemoveStaticNode, RemoveEvent, RunBreaks,
           StopDialer, Stopped, ServerTypeOK
  <1>4. remove' \in {"calling", "op"} => removing' \in Node
    BY <1>1 DEF RemovePeer, RemoveOp, RemoveQuits, RemoveStaticNode, RemoveEvent, RunBreaks,
           StopDialer, Stopped, ServerTypeOK
  <1>5. ServerTypeOK'
    BY <1>1, <1>2, <1>3, <1>4 DEF ServerTypeOK
  <1> QED BY <1>2, <1>5, SameCounts

\* The goroutine of a peer moves on.
LEMMA PeerMoves ==
    ASSUME SInv,
           \/ \E n \in Node : SendAdd(n) \/ PeerEnds(n) \/ StopDisconnect(n)
           \/ RemoveDisconnect
    PROVE  SInv'
  <1>1. ServerTypeOK
    BY DEF SInv
  <1>2. CASE \E n \in Node : SendAdd(n) \/ PeerEnds(n) \/ StopDisconnect(n)
    <2>1. PICK n \in Node : SendAdd(n) \/ PeerEnds(n) \/ StopDisconnect(n)
      BY <1>2
    <2>2. PICK a \in {"running", "ended"} : peer' = [peer EXCEPT ![n].at = a]
      BY <2>1 DEF SendAdd, PeerEnds, StopDisconnect
    <2>3. /\ peer[n].at # "none"
          /\ UNCHANGED <<srv, at, inboundCount, remove, removing, peers, dialPeers>>
      BY <2>1 DEF SendAdd, PeerEnds, StopDisconnect, dialVars
    <2>4. /\ \A m \in Node : (peer'[m].at = "none") <=> (peer[m].at = "none")
          /\ \A m \in Node : peer'[m].dir = peer[m].dir
      BY <1>1, <2>2, <2>3 DEF ServerTypeOK
    <2>5. ServerTypeOK'
      BY <1>1, <2>2, <2>3 DEF ServerTypeOK
    <2> QED BY <2>3, <2>4, <2>5, SameCounts
  <1>3. CASE RemoveDisconnect
    <2>1. /\ srv = "disconnect" /\ removing \in Node /\ peer[removing].at # "none"
          /\ peer' = [peer EXCEPT ![removing].at = "ended", ![removing].asked = TRUE]
          /\ srv' = "select" /\ remove' = "waiting"
          /\ UNCHANGED <<inboundCount, peers, dialPeers>>
      BY <1>1, <1>3 DEF RemoveDisconnect, ServerTypeOK, dialVars
    <2>2. /\ \A m \in Node : (peer'[m].at = "none") <=> (peer[m].at = "none")
          /\ \A m \in Node : peer'[m].dir = peer[m].dir
      BY <1>1, <2>1 DEF ServerTypeOK
    <2>3. ServerTypeOK'
      BY <1>1, <2>1 DEF ServerTypeOK
    <2> QED BY <2>1, <2>2, <2>3, SameCounts DEF Ending
  <1> QED BY <1>2, <1>3

-----------------------------------------------------------------------------
(* Steps that add or take away a peer                                      *)

\* The second checkpoint passes: both limits were just checked (postHandshakeChecks).
LEMMA AddKeeps ==
    ASSUME SInv, NEW n \in Node, NEW d \in Direction, CheckpointAddPeer(n, d)
    PROVE  SInv'
  <1>1. ServerTypeOK /\ Counted /\ LimitsKept /\ srv = "select"
    BY DEF SInv, CheckpointAddPeer
  <1>2. UNCHANGED <<inboundCount, remove, removing, peers, dialPeers>>
    BY DEF CheckpointAddPeer, dialVars
  <1>3. CASE ~PostHandshakeChecks(n, d)
    BY <1>2, <1>3, OthersKeep DEF CheckpointAddPeer
  <1>4. CASE PostHandshakeChecks(n, d)
    <2>1. /\ peer' = [peer EXCEPT ![n] = [NoPeer EXCEPT !.at = "adding", !.dir = d]]
          /\ srv' = "added" /\ at' = <<n, d>> /\ n \notin Peers
      BY <1>4 DEF CheckpointAddPeer, PostHandshakeChecks
    <2>2. /\ peer'[n] = [at |-> "adding", dir |-> d, asked |-> FALSE]
          /\ \A m \in Node : m # n => peer'[m] = peer[m]
      BY <1>1, <2>1 DEF ServerTypeOK, NoPeer
    <2>3. ServerTypeOK'
      <3>1. [at |-> "adding", dir |-> d, asked |-> FALSE] \in
              [at : {"none", "adding", "running", "ended"}, dir : Direction, asked : BOOLEAN]
        OBVIOUS
      <3>2. peer' = [m \in Node |-> peer'[m]]
        BY <1>1, <2>1 DEF ServerTypeOK
      <3>3. peer' \in [Node -> [at : {"none", "adding", "running", "ended"}, dir : Direction,
                                asked : BOOLEAN]]
        BY <1>1, <2>2, <3>1, <3>2 DEF ServerTypeOK
      <3> QED BY <1>1, <1>2, <2>1, <3>3 DEF ServerTypeOK
    <2>4. Peers' = Peers \cup {n} /\ n \notin Peers
      BY <2>1, <2>2 DEF Peers
    <2>5. Side("out")' \ {n} = Side("out") /\ Side("in")' \ {n} = Side("in")
      BY <2>2, <2>4 DEF Side, Peers
    <2>6. at'[1] = n /\ at'[2] = d
      BY <2>1
    <2>7. Told("out")' = Told("out") /\ Told("in")' = Told("in")
      BY <1>1, <2>1, <2>5, <2>6 DEF Told
    <2>8. Counted'
      BY <1>1, <1>2, <2>1, <2>7 DEF Counted, Ending
    <2>9. AtWork'
      BY <2>1, <2>2, <2>4, <2>6 DEF AtWork
    <2> DEFINE needy == Peers \ Trusted
               needyIn == {m \in Peers \ Trusted : peer[m].dir = "in"}
    <2>10. /\ IsFiniteSet(Peers) /\ IsFiniteSet(needy) /\ IsFiniteSet(needyIn)
           /\ IsFiniteSet(Side("in"))
           /\ Cardinality(Peers) \in Nat /\ Cardinality(needy) \in Nat
           /\ Cardinality(needyIn) \in Nat /\ Cardinality(Side("in")) \in Nat
      BY NodesFinite DEF Peers, Side
    <2>11. inboundCount = Cardinality(Side("in"))
      BY <1>1 DEF Counted, Told, Ending
    <2>12. MaxPeers \in Nat /\ MaxInbound \in Nat
      BY ServerAssumption
    <2>13. Cardinality(needy)' <= MaxPeers
      <3>1. CASE n \in Trusted
        <4>1. needy' = needy
          BY <2>4, <3>1
        <4> QED BY <1>1, <4>1 DEF LimitsKept
      <3>2. CASE n \notin Trusted
        <4>1. needy' = needy \cup {n} /\ n \notin needy
          BY <2>4, <3>2
        <4>2. Cardinality(needy') = Cardinality(needy) + 1
          BY <2>10, <4>1, FS_AddElement
        <4>3. Cardinality(needy) <= Cardinality(Peers)
          BY <2>10, FS_Subset
        <4>4. Cardinality(Peers) < MaxPeers
          BY <1>4, <3>2 DEF PostHandshakeChecks
        <4> HIDE DEF needy
        <4> QED BY <2>10, <2>12, <4>2, <4>3, <4>4
      <3> QED BY <3>1, <3>2
    <2>14. Cardinality(needyIn)' <= MaxInbound
      <3>1. CASE n \in Trusted \/ d = "out"
        <4>1. needyIn' = needyIn
          BY <2>2, <2>4, <3>1 DEF Peers
        <4> QED BY <1>1, <4>1 DEF LimitsKept
      <3>2. CASE n \notin Trusted /\ d = "in"
        <4>1. needyIn' = needyIn \cup {n} /\ n \notin needyIn
          BY <2>2, <2>4, <3>2 DEF Peers
        <4>2. Cardinality(needyIn') = Cardinality(needyIn) + 1
          BY <2>10, <4>1, FS_AddElement
        <4>3. needyIn \subseteq Side("in")
          BY DEF Side
        <4>4. Cardinality(needyIn) <= Cardinality(Side("in"))
          BY <2>10, <4>3, FS_Subset
        <4>5. Cardinality(Side("in")) < MaxInbound
          BY <1>4, <2>11, <3>2 DEF PostHandshakeChecks
        <4> HIDE DEF needyIn
        <4> QED BY <2>10, <2>12, <4>2, <4>4, <4>5
      <3> QED BY <3>1, <3>2 DEF Direction
    <2>15. LimitsKept'
      BY <2>13, <2>14 DEF LimitsKept
    <2> QED BY <2>3, <2>8, <2>9, <2>15 DEF SInv
  <1> QED BY <1>3, <1>4

\* TellAdded: only now the scheduler and the counters have the new peer.
LEMMA TellAddedKeeps ==
    ASSUME SInv, TellAdded
    PROVE  SInv'
  <1> DEFINE n == at[1]
             d == at[2]
  <1>1. /\ ServerTypeOK /\ Counted /\ LimitsKept /\ srv = "added"
        /\ n \in Node /\ d \in Direction /\ n \in Peers /\ peer[n].dir = d
    BY DEF SInv, TellAdded, ServerTypeOK, AtWork
  <1>2. /\ srv' = "select" /\ peer' = peer /\ remove' = remove /\ removing' = removing
        /\ inboundCount' = inboundCount + (IF d = "in" THEN 1 ELSE 0)
        /\ dialPeers' = dialPeers + (IF d = "out" THEN 1 ELSE 0)
        /\ peers' = peers \cup {n}
    BY DEF TellAdded, PeerAdded
  <1>3. Peers' = Peers /\ Side("out")' = Side("out") /\ Side("in")' = Side("in")
    BY <1>2 DEF Peers, Side
  <1>4. /\ Told("out") = Side("out") \ {n} /\ Told("in") = Side("in") \ {n}
        /\ Told("out")' = Side("out") /\ Told("in")' = Side("in")
    BY <1>1, <1>2, <1>3 DEF Told
  <1>5. /\ n \in Side("out") <=> d = "out"
        /\ n \in Side("in") <=> d = "in"
    BY <1>1 DEF Side
  <1>6. IsFiniteSet(Side("out")) /\ IsFiniteSet(Side("in"))
    BY NodesFinite DEF Side, Peers
  <1>7. /\ peers = Told("out") \cup Told("in")
        /\ dialPeers = Cardinality(Told("out")) /\ inboundCount = Cardinality(Told("in"))
    BY <1>1 DEF Counted, Ending
  <1>8. peers' = Told("out")' \cup Told("in")'
    BY <1>1, <1>2, <1>4, <1>5, <1>7 DEF Direction
  <1>9. dialPeers' = Cardinality(Told("out")')
    <2>1. /\ Cardinality(Side("out")) \in Nat
          /\ n \in Side("out") => Cardinality(Side("out") \ {n}) = Cardinality(Side("out")) - 1
      BY <1>6, FS_RemoveElement, FS_CardinalityType
    <2>2. dialPeers = Cardinality(Side("out") \ {n})
      BY <1>4, <1>7
    <2>3. dialPeers' = Cardinality(Side("out"))
      <3>1. CASE d = "out"
        BY <1>2, <1>5, <2>1, <2>2, <3>1
      <3>2. CASE d # "out"
        <4>1. Side("out") \ {n} = Side("out")
          BY <1>5, <3>2
        <4>2. dialPeers = Cardinality(Side("out"))
          BY <2>2, <4>1
        <4> QED BY <1>2, <2>1, <3>2, <4>2
      <3> QED BY <3>1, <3>2
    <2> QED BY <1>4, <2>3
  <1>10. inboundCount' = Cardinality(Told("in")')
    <2>1. /\ Cardinality(Side("in")) \in Nat
          /\ n \in Side("in") => Cardinality(Side("in") \ {n}) = Cardinality(Side("in")) - 1
      BY <1>6, FS_RemoveElement, FS_CardinalityType
    <2>2. inboundCount = Cardinality(Side("in") \ {n})
      BY <1>4, <1>7
    <2>3. inboundCount' = Cardinality(Side("in"))
      <3>1. CASE d = "in"
        BY <1>2, <1>5, <2>1, <2>2, <3>1
      <3>2. CASE d # "in"
        <4>1. Side("in") \ {n} = Side("in")
          BY <1>5, <3>2
        <4>2. inboundCount = Cardinality(Side("in"))
          BY <2>2, <4>1
        <4> QED BY <1>2, <2>1, <3>2, <4>2
      <3> QED BY <3>1, <3>2
    <2> QED BY <1>4, <2>3
  <1>11. Counted'
    BY <1>8, <1>9, <1>10 DEF Counted
  <1>12. ServerTypeOK' /\ AtWork'
    BY <1>1, <1>2 DEF ServerTypeOK, AtWork
  <1>13. LimitsKept'
    BY <1>1, <1>2, <1>3 DEF LimitsKept
  <1> QED BY <1>11, <1>12, <1>13 DEF SInv

\* delpeer: the peer is gone, and the scheduler still counts it.
LEMMA DelPeerKeeps ==
    ASSUME SInv, NEW n \in Node, DelPeer(n) \/ StopDelPeer(n)
    PROVE  SInv'
  <1>1. /\ ServerTypeOK /\ Counted /\ LimitsKept /\ peer[n].at = "ended"
        /\ peer[n].dir \in Direction
    BY DEF SInv, DelPeer, StopDelPeer, ServerTypeOK
  <1>2. /\ UNCHANGED <<inboundCount, remove, removing, peers, dialPeers>>
        /\ peer' = [peer EXCEPT ![n] = NoPeer]
    BY DEF DelPeer, StopDelPeer, dialVars
  <1>3. /\ peer'[n].at = "none"
        /\ \A m \in Node : m # n => peer'[m] = peer[m]
        /\ peer' \in [Node -> [at : {"none", "adding", "running", "ended"}, dir : Direction,
                               asked : BOOLEAN]]
    BY <1>1, <1>2 DEF ServerTypeOK, NoPeer, Direction
  <1>4. Peers' = Peers \ {n} /\ n \in Peers /\ Peers \subseteq Node
    BY <1>1, <1>3 DEF Peers
  <1>5. Side("out")' = Side("out") \ {n} /\ Side("in")' = Side("in") \ {n}
    BY <1>3, <1>4 DEF Side
  <1>6. LimitsKept'
    <2> DEFINE needy == Peers \ Trusted
               needyIn == {m \in Peers \ Trusted : peer[m].dir = "in"}
    <2>1. needy' \subseteq needy /\ needyIn' \subseteq needyIn
      BY <1>3, <1>4
    <2>2. needy \subseteq Node /\ needyIn \subseteq Node
      BY <1>4
    <2>3. IsFiniteSet(needy) /\ IsFiniteSet(needyIn)
      BY <2>2, NodesFinite
    <2>4. /\ Cardinality(needy') <= Cardinality(needy)
          /\ Cardinality(needyIn') <= Cardinality(needyIn)
          /\ IsFiniteSet(needy') /\ IsFiniteSet(needyIn')
      BY <2>1, <2>3, FS_Subset
    <2>5. Cardinality(needy) <= MaxPeers /\ Cardinality(needyIn) <= MaxInbound
      BY <1>1 DEF LimitsKept
    <2>6. /\ Cardinality(needy) \in Nat /\ Cardinality(needyIn) \in Nat
          /\ Cardinality(needy') \in Nat /\ Cardinality(needyIn') \in Nat
      BY <2>3, <2>4, FS_CardinalityType
    <2>7. Cardinality(needy') <= MaxPeers /\ Cardinality(needyIn') <= MaxInbound
      <3> HIDE DEF needy, needyIn
      <3> QED BY <2>4, <2>5, <2>6, ServerAssumption
    <2> QED BY <2>7 DEF LimitsKept
  <1>7. CASE DelPeer(n)
    <2>1. /\ srv = "select" /\ srv' = "removed" /\ at' = <<n, peer[n].dir>>
          /\ at'[1] = n /\ at'[2] = peer[n].dir
      BY <1>7 DEF DelPeer
    <2>2. Told("out")' = Side("out") /\ Told("in")' = Side("in")
      BY <1>1, <1>4, <1>5, <2>1 DEF Told, Side
    <2>3. Told("out") = Side("out") /\ Told("in") = Side("in")
      BY <2>1 DEF Told
    <2>4. Counted'
      BY <1>1, <1>2, <2>1, <2>2, <2>3 DEF Counted, Ending
    <2>5. ServerTypeOK' /\ AtWork'
      BY <1>1, <1>2, <1>3, <1>4, <2>1 DEF ServerTypeOK, AtWork
    <2> QED BY <1>6, <2>4, <2>5 DEF SInv
  <1>8. CASE StopDelPeer(n)
    <2>1. srv = "ending" /\ srv' = "ending"
      BY <1>8 DEF StopDelPeer
    <2>2. ServerTypeOK' /\ AtWork' /\ Counted'
      BY <1>1, <1>2, <1>3, <2>1 DEF ServerTypeOK, AtWork, Counted, Ending
    <2> QED BY <1>6, <2>2 DEF SInv
  <1> QED BY <1>7, <1>8

\* TellRemoved: the scheduler and the counters forget it.
LEMMA TellRemovedKeeps ==
    ASSUME SInv, TellRemoved
    PROVE  SInv'
  <1> DEFINE n == at[1]
             d == at[2]
  <1>1. /\ ServerTypeOK /\ Counted /\ LimitsKept /\ srv = "removed"
        /\ n \in Node /\ d \in Direction /\ n \notin Peers
    BY DEF SInv, TellRemoved, ServerTypeOK, AtWork
  <1>2. /\ srv' = "select" /\ peer' = peer /\ remove' = remove /\ removing' = removing
        /\ inboundCount' = inboundCount - (IF d = "in" THEN 1 ELSE 0)
        /\ dialPeers' = dialPeers - (IF d = "out" THEN 1 ELSE 0)
        /\ peers' = peers \ {n}
    BY DEF TellRemoved, PeerRemoved
  <1>3. Peers' = Peers /\ Side("out")' = Side("out") /\ Side("in")' = Side("in")
    BY <1>2 DEF Peers, Side
  <1>4. /\ Told("out") = IF d = "out" THEN Side("out") \cup {n} ELSE Side("out")
        /\ Told("in") = IF d = "in" THEN Side("in") \cup {n} ELSE Side("in")
        /\ Told("out")' = Side("out") /\ Told("in")' = Side("in")
    BY <1>1, <1>2, <1>3 DEF Told
  <1>5. n \notin Side("out") /\ n \notin Side("in")
    BY <1>1 DEF Side
  <1>6. IsFiniteSet(Side("out")) /\ IsFiniteSet(Side("in"))
    BY NodesFinite DEF Side, Peers
  <1>7. /\ peers = Told("out") \cup Told("in")
        /\ dialPeers = Cardinality(Told("out")) /\ inboundCount = Cardinality(Told("in"))
    BY <1>1 DEF Counted, Ending
  <1>8. peers' = Told("out")' \cup Told("in")'
    BY <1>1, <1>2, <1>4, <1>5, <1>7 DEF Direction
  <1>9. dialPeers' = Cardinality(Told("out")')
    <2>1. /\ Cardinality(Side("out")) \in Nat
          /\ Cardinality(Side("out") \cup {n}) = Cardinality(Side("out")) + 1
      BY <1>5, <1>6, FS_AddElement, FS_CardinalityType
    <2>2. dialPeers' = Cardinality(Side("out"))
      <3>1. CASE d = "out"
        <4>1. dialPeers = Cardinality(Side("out") \cup {n})
          BY <1>4, <1>7, <3>1
        <4> QED BY <1>2, <2>1, <3>1, <4>1
      <3>2. CASE d # "out"
        <4>1. dialPeers = Cardinality(Side("out"))
          BY <1>4, <1>7, <3>2
        <4> QED BY <1>2, <2>1, <3>2, <4>1
      <3> QED BY <3>1, <3>2
    <2> QED BY <1>4, <2>2
  <1>10. inboundCount' = Cardinality(Told("in")')
    <2>1. /\ Cardinality(Side("in")) \in Nat
          /\ Cardinality(Side("in") \cup {n}) = Cardinality(Side("in")) + 1
      BY <1>5, <1>6, FS_AddElement, FS_CardinalityType
    <2>2. inboundCount' = Cardinality(Side("in"))
      <3>1. CASE d = "in"
        <4>1. inboundCount = Cardinality(Side("in") \cup {n})
          BY <1>4, <1>7, <3>1
        <4> QED BY <1>2, <2>1, <3>1, <4>1
      <3>2. CASE d # "in"
        <4>1. inboundCount = Cardinality(Side("in"))
          BY <1>4, <1>7, <3>2
        <4> QED BY <1>2, <2>1, <3>2, <4>1
      <3> QED BY <3>1, <3>2
    <2> QED BY <1>4, <2>2
  <1>11. Counted'
    BY <1>8, <1>9, <1>10 DEF Counted
  <1>12. ServerTypeOK' /\ AtWork'
    BY <1>1, <1>2 DEF ServerTypeOK, AtWork
  <1>13. LimitsKept'
    BY <1>1, <1>2, <1>3 DEF LimitsKept
  <1> QED BY <1>11, <1>12, <1>13 DEF SInv

-----------------------------------------------------------------------------
(* The server                                                              *)

\* Nothing is connected or counted at the start.
LEMMA ServerInitially == Init => SInv
  <1> SUFFICES ASSUME Init PROVE SInv
    OBVIOUS
  <1>1. ServerTypeOK
    BY DEF Init, ServerTypeOK, NoPeer, Direction
  <1>2. Peers = {}
    BY DEF Init, Peers, NoPeer
  <1>3. Told("out") = {} /\ Told("in") = {}
    BY <1>2 DEF Init, Told, Side
  <1>4. Cardinality({}) = 0
    BY FS_EmptySet
  <1>5. Counted /\ AtWork
    BY <1>3, <1>4 DEF Init, DialInit, Counted, AtWork
  <1>6. Peers \ Trusted = {} /\ {n \in Peers \ Trusted : peer[n].dir = "in"} = {}
    BY <1>2
  <1>7. LimitsKept
    <2>1. /\ Cardinality(Peers \ Trusted) = 0
          /\ Cardinality({n \in Peers \ Trusted : peer[n].dir = "in"}) = 0
      BY <1>4, <1>6, Zenon
    <2> QED BY <2>1, ServerAssumption DEF LimitsKept
  <1> QED BY <1>1, <1>5, <1>7 DEF SInv

\* One step of the server.
LEMMA ServerStepwise == SInv /\ [Next]_vars => SInv'
  <1> SUFFICES ASSUME SInv, [Next]_vars PROVE SInv'
    OBVIOUS
  <1>1. ASSUME NEW n \in Node,
               \/ Dialed(n) \/ Accept(n) \/ SendDrop(n) \/ AddPeer(n) \/ Candidate(n) \/ TaskEnds(n)
        PROVE  SInv'
    <2>1. UNCHANGED <<srv, at, peer, inboundCount, remove, removing, peers, dialPeers>>
      BY <1>1 DEF Dialed, Accept, SendDrop, AddPeer, Candidate, TaskEnds, AddStatic, NodeFound,
                  TaskDone, TaskDrained, dialVars, serverVars
    <2> QED BY <2>1, OthersKeep
  <1>2. ASSUME NEW n \in Node, SendAdd(n) \/ PeerEnds(n) \/ StopDisconnect(n) PROVE SInv'
    BY <1>2, PeerMoves
  <1>3. ASSUME NEW n \in Node, DelPeer(n) \/ StopDelPeer(n) PROVE SInv'
    BY <1>3, DelPeerKeeps
  <1>4. ASSUME NEW n \in Node, RemovePeer(n) PROVE SInv'
    BY <1>4, CallsKeep
  <1>5. ASSUME NEW n \in Node, NEW d \in Direction,
               SetupFails(n, d) \/ CheckpointPostHandshake(n, d)
        PROVE  SInv'
    <2>1. UNCHANGED <<srv, at, peer, inboundCount, remove, removing, peers, dialPeers>>
      BY <1>5 DEF SetupFails, CheckpointPostHandshake, dialVars
    <2> QED BY <2>1, OthersKeep
  <1>6. ASSUME NEW n \in Node, NEW d \in Direction, CheckpointAddPeer(n, d) PROVE SInv'
    BY <1>6, AddKeeps
  <1>7. CASE TellAdded \/ TellRemoved
    BY <1>7, TellAddedKeeps, TellRemovedKeeps
  <1>8. CASE RemoveOp \/ RemoveQuits \/ RemoveStaticNode \/ RemoveEvent \/ RunBreaks
             \/ StopDialer \/ Stopped
    BY <1>8, CallsKeep
  <1>9. CASE RemoveDisconnect
    BY <1>9, PeerMoves
  <1>10. CASE Stop \/ LoopRuns \/ UNCHANGED vars \/ \E i \in DOMAIN staticPool : LaunchStatic(i)
    <2>1. UNCHANGED <<srv, at, peer, inboundCount, remove, removing, peers, dialPeers>>
      BY <1>10 DEF Stop, LoopRuns, LaunchStatic, StartStaticDial, Listen, ExpireHistory,
                   ExpireItem, ExpireReturn, LoopExit, dialVars, serverVars, vars
    <2> QED BY <2>1, OthersKeep
  <1> QED BY <1>1, <1>2, <1>3, <1>4, <1>5, <1>6, <1>7, <1>8, <1>9, <1>10 DEF Next

\* What the steps of the server do to the scheduler are steps of DialSpec: a
\* peer is added that the scheduler does not have, and one removed that it has.
LEMMA ServerStepDials == SInv /\ [Next]_vars => [DialNext]_dialVars
  <1> SUFFICES ASSUME SInv, [Next]_vars PROVE [DialNext]_dialVars
    OBVIOUS
  <1>1. ServerTypeOK /\ AtWork /\ Counted
    BY DEF SInv
  <1>2. ASSUME NEW n \in Node, AddPeer(n) \/ Candidate(n) \/ TaskEnds(n)
        PROVE  DialNext
    BY <1>2 DEF AddPeer, Candidate, TaskEnds, DialNext
  <1>3. ASSUME NEW n \in Node,
               \/ Dialed(n) \/ Accept(n) \/ SendAdd(n) \/ PeerEnds(n) \/ DelPeer(n)
               \/ SendDrop(n) \/ RemovePeer(n) \/ StopDisconnect(n) \/ StopDelPeer(n)
        PROVE  UNCHANGED dialVars
    BY <1>3 DEF Dialed, Accept, SendAdd, PeerEnds, DelPeer, SendDrop, RemovePeer,
                StopDisconnect, StopDelPeer
  <1>4. ASSUME NEW n \in Node, NEW d \in Direction,
               SetupFails(n, d) \/ CheckpointPostHandshake(n, d) \/ CheckpointAddPeer(n, d)
        PROVE  UNCHANGED dialVars
    BY <1>4 DEF SetupFails, CheckpointPostHandshake, CheckpointAddPeer
  <1>5. CASE TellAdded
    <2>1. srv = "added" /\ PeerAdded(at[1], at[2] = "out") /\ at[1] \in Node
      BY <1>1, <1>5 DEF TellAdded, ServerTypeOK
    <2>2. at[1] \notin peers
      BY <1>1, <2>1 DEF Counted, Ending, Told
    <2>3. (at[2] = "out") \in BOOLEAN
      OBVIOUS
    <2> QED BY <2>1, <2>2, <2>3 DEF DialNext
  <1>6. CASE TellRemoved
    <2>1. srv = "removed" /\ PeerRemoved(at[1], at[2] = "out") /\ at \in Node \X Direction
      BY <1>1, <1>6 DEF TellRemoved, ServerTypeOK
    <2>2. at[1] \in Node /\ at[1] \in peers
      BY <1>1, <2>1 DEF Counted, Ending, Told, Direction
    <2>3. (at[2] = "out") \in BOOLEAN
      OBVIOUS
    <2> QED BY <2>1, <2>2, <2>3 DEF DialNext
  <1>7. CASE RemoveStaticNode
    <2>1. removing \in Node /\ RemoveStatic(removing)
      BY <1>1, <1>7 DEF RemoveStaticNode, ServerTypeOK
    <2> QED BY <2>1 DEF DialNext
  <1>8. CASE StopDialer
    BY <1>8 DEF StopDialer, DialNext
  <1>9. CASE LoopRuns \/ \E i \in DOMAIN staticPool : LaunchStatic(i)
    BY <1>9 DEF LoopRuns, LaunchStatic, LoopStep, DialNext
  <1>10. CASE RemoveOp \/ RemoveQuits \/ RemoveDisconnect \/ RemoveEvent \/ Stop \/ RunBreaks
              \/ Stopped \/ UNCHANGED vars
    <2>1. UNCHANGED dialVars
      BY <1>10 DEF RemoveOp, RemoveQuits, RemoveDisconnect, RemoveEvent, Stop, RunBreaks,
                   Stopped, vars
    <2> QED BY <2>1
  <1> QED BY <1>2, <1>3, <1>4, <1>5, <1>6, <1>7, <1>8, <1>9, <1>10 DEF Next

\* The server and its scheduler always satisfy SInv: the two loops' copies of the
\* peers, the counters and the connections under way fit together.
THEOREM ServerInvariant == Spec => []SInv
  BY ServerInitially, ServerStepwise, PTL DEF Spec

\* The main loop and the scheduler agree on the peers whenever the main loop
\* waits for its next event, and both counters count them, for any number of
\* nodes and any limits.
THEOREM PeersStayAgreed == Spec => []PeersAgree
  <1>1. SInv => PeersAgree
    <2> SUFFICES ASSUME SInv, srv = "select"
                 PROVE  /\ peers = Peers
                        /\ dialPeers = Cardinality(Side("out"))
                        /\ inboundCount = Cardinality(Side("in"))
      BY DEF PeersAgree, Side
    <2>1. /\ peers = Side("out") \cup Side("in")
          /\ dialPeers = Cardinality(Side("out")) /\ inboundCount = Cardinality(Side("in"))
      BY DEF SInv, Counted, Ending, Told
    <2>2. Side("out") \cup Side("in") = Peers
      BY DEF SInv, ServerTypeOK, Side, Peers, Direction
    <2> QED BY <2>1, <2>2
  <1> QED BY <1>1, ServerInvariant, PTL

\* The limits on peers and on inbound peers hold for those that are not trusted,
\* however many connections have passed the checks after the first handshake.
THEOREM LimitsStayKept == Spec => []LimitsKept
  <1>1. SInv => LimitsKept
    BY DEF SInv
  <1> QED BY <1>1, ServerInvariant, PTL

\* The server uses the scheduler as DialSpec assumes: it adds a peer once and
\* removes only peers, although the two loops keep their own sets.
THEOREM ServerImplementsDial == Spec => DialSpec
  <1>1. Init => DialInit
    BY DEF Init
  <1>2. SInv /\ [Next]_vars => [DialNext]_dialVars
    BY ServerStepDials
  <1> QED BY <1>1, <1>2, ServerInvariant, PTL DEF Spec, DialSpec

\* So the pool of static tasks is exact in the server too.
THEOREM ServerPoolExact == Spec => []PoolExact
  BY ServerImplementsDial, PoolStaysExact, PTL

=============================================================================
