--------------------------- MODULE MemoryPoolProofs ----------------------------
(***************************************************************************)
(* Proofs about MemoryPool for every number of bins and threads and every  *)
(* width of the counter.                                                   *)
(***************************************************************************)
EXTENDS MemoryPool, ModLemmas

\* A counter matches after lag updates only if lag is zero.
LEMMA CounterMatch ==
  ASSUME NEW c \in Counters, NEW l \in Counters, (c + l) % CounterMod = c
  PROVE  l = 0
<1> DEFINE x == c + l
<1>1. x \in Int /\ -CounterMod <= x /\ x < 2 * CounterMod /\ 0 <= x
  BY CounterAssumption DEF Counters
<1> HIDE DEF x
<1>2. /\ (0 <= x /\ x < CounterMod) => x % CounterMod = x
      /\ CounterMod <= x => x % CounterMod = x - CounterMod
  BY <1>1, CounterAssumption, ModNear
<1>3. x % CounterMod = c
  BY DEF x
<1> QED
  BY <1>1, <1>2, <1>3, CounterAssumption DEF x, Counters

\* One more update: the counter moves with the lag.
LEMMA CounterBump ==
  ASSUME NEW c \in Counters, NEW l \in Counters
  PROVE  /\ Bump(c) \in Counters
         /\ Bump((c + l) % CounterMod) = (c + (l + 1)) % CounterMod
         /\ (c + 0) % CounterMod = c
<1> DEFINE x == c + l
           y == c + (l + 1)
           z == c + 1
<1>1. /\ x \in Int /\ -CounterMod <= x /\ x < 2 * CounterMod /\ 0 <= x
      /\ y \in Int /\ -CounterMod <= y /\ y < 2 * CounterMod /\ 0 <= y
      /\ z \in Int /\ -CounterMod <= z /\ z < 2 * CounterMod /\ 0 <= z
      /\ y = x + 1
  BY CounterAssumption DEF Counters
<1> HIDE DEF x, y, z
<1>2. /\ x % CounterMod \in 0 .. CounterMod - 1
      /\ (0 <= x /\ x < CounterMod) => x % CounterMod = x
      /\ CounterMod <= x => x % CounterMod = x - CounterMod
  BY <1>1, CounterAssumption, ModNear
<1>3. /\ (0 <= y /\ y < CounterMod) => y % CounterMod = y
      /\ CounterMod <= y => y % CounterMod = y - CounterMod
  BY <1>1, CounterAssumption, ModNear
<1>4. z % CounterMod \in 0 .. CounterMod - 1
  BY <1>1, CounterAssumption, ModNear
<1> DEFINE w == (x % CounterMod) + 1
<1>5. w \in Int /\ -CounterMod <= w /\ w < 2 * CounterMod /\ 0 <= w
  BY <1>2, CounterAssumption
<1> HIDE DEF w
<1>6. /\ (0 <= w /\ w < CounterMod) => w % CounterMod = w
      /\ CounterMod <= w => w % CounterMod = w - CounterMod
  BY <1>5, CounterAssumption, ModNear
<1>7. w % CounterMod = y % CounterMod
  BY <1>1, <1>2, <1>3, <1>5, <1>6, CounterAssumption DEF w
<1>8. (c + 0) % CounterMod = c
  <2>1. c \in Int /\ 0 <= c /\ c < CounterMod /\ -CounterMod <= c /\ c < 2 * CounterMod
        /\ c + 0 = c
    BY CounterAssumption DEF Counters
  <2> QED
    BY <2>1, CounterAssumption, ModNear
<1> QED
  BY <1>4, <1>7, <1>8 DEF x, y, z, w, Bump, Counters

LEMMA InitPool == Init => PoolInv
<1> SUFFICES ASSUME Init PROVE PoolInv
  OBVIOUS
<1>1. 0 \in Bins /\ 0 \in Counters
  BY NumElemsAssumption, CounterAssumption DEF Bins, Counters
<1>2. TypeOK
  BY <1>1, NumElemsAssumption DEF Init, TypeOK, Heads, Bins
<1>3. FreeBins = Bins
  BY DEF Init, FreeBins
<1>4. LinksSound
  BY <1>1, <1>3, NumElemsAssumption, NamesAssumption DEF Init, LinksSound, Bins
<1>5. WindowSound
  BY DEF Init, WindowSound, InWindow
<1> QED
  BY <1>2, <1>4, <1>5 DEF PoolInv

\* A compare-exchange that succeeds proves that the thread missed no update.
LEMMA SwapMatch ==
  ASSUME PoolInv, NEW t \in Threads, InWindow(t), head = old[t]
  PROVE  lag[t] = 0
<1>1. old[t] \in Heads /\ lag[t] \in Counters
  BY DEF PoolInv, TypeOK
<1>2. head.counter = (old[t].counter + lag[t]) % CounterMod
  BY DEF PoolInv, WindowSound
<1> QED
  BY <1>1, <1>2, CounterMatch DEF Heads

\* The clauses of WindowSound about the counter survive a compare-exchange.
LEMMA SwapWindows ==
  ASSUME PoolInv, NEW t \in Threads, NEW i \in Bins \cup {Nil}, SwapHead(t, i),
         UNCHANGED old
  PROVE  /\ head' \in Heads /\ head'.index = i
         /\ lag' \in [Threads -> Counters]
         /\ \A u \in Threads \ {t} : InWindow(u) =>
              /\ head'.counter = (old[u].counter + lag'[u]) % CounterMod
              /\ lag'[u] # 0
<1> USE DEF PoolInv
<1>1. old[t] \in Heads /\ head = old[t] /\ head \in Heads
  BY DEF TypeOK, SwapHead
<1>2. Bump(head.counter) \in Counters
  BY <1>1, CounterBump DEF Heads
<1>3. head' \in Heads /\ head'.index = i /\ head'.counter = Bump(head.counter)
  BY <1>1, <1>2 DEF SwapHead, Heads
<1>4. ASSUME NEW u \in Threads \ {t}, InWindow(u)
      PROVE  /\ lag'[u] = lag[u] + 1 /\ lag[u] + 1 \in Counters
             /\ head'.counter = (old[u].counter + lag'[u]) % CounterMod
  <2>1. lag[u] \in Counters /\ lag[u] < CounterMod - 1 /\ old[u].counter \in Counters
    BY <1>4 DEF SwapHead, TypeOK, Heads
  <2>2. lag'[u] = lag[u] + 1 /\ lag[u] + 1 \in Counters
    BY <1>4, <2>1, CounterAssumption DEF SwapHead, Counters
  <2>3. head.counter = (old[u].counter + lag[u]) % CounterMod
    BY <1>4 DEF WindowSound
  <2>4. Bump((old[u].counter + lag[u]) % CounterMod) = (old[u].counter + (lag[u] + 1)) % CounterMod
    BY <2>1, CounterBump
  <2> QED
    BY <1>3, <2>2, <2>3, <2>4
<1>5. lag' \in [Threads -> Counters]
  BY <1>4, CounterAssumption DEF SwapHead, Counters
<1>6. \A u \in Threads \ {t} : InWindow(u) => lag'[u] # 0
  BY <1>4, CounterAssumption DEF TypeOK, Counters
<1> QED
  BY <1>3, <1>4, <1>5, <1>6
--------------------------------------------------------------------------------
(* One lemma per action. *)

LEMMA AllocLoadStep ==
  ASSUME PoolInv, NEW t \in Threads, AllocLoad(t) PROVE PoolInv'
<1> USE DEF PoolInv
<1>1. TypeOK'
  BY CounterAssumption DEF AllocLoad, TypeOK, Counters
<1>2. LinksSound'
  BY DEF AllocLoad, LinksSound, FreeBins
<1>3. head.counter = (head.counter + 0) % CounterMod
  BY CounterBump, CounterAssumption DEF TypeOK, Heads, Counters
<1>4. WindowSound'
  BY <1>3 DEF AllocLoad, WindowSound, InWindow, TypeOK
<1> QED
  BY <1>1, <1>2, <1>4

LEMMA AllocNextStep ==
  ASSUME PoolInv, NEW t \in Threads, AllocNext(t) PROVE PoolInv'
<1> USE DEF PoolInv
<1>1. old[t].index \in Bins
  BY DEF AllocNext, WindowSound, TypeOK, Heads
<1>2. TypeOK'
  BY <1>1 DEF AllocNext, TypeOK
<1>3. LinksSound'
  BY DEF AllocNext, LinksSound, FreeBins
<1>4. WindowSound'
  BY DEF AllocNext, WindowSound, InWindow, TypeOK
<1> QED
  BY <1>2, <1>3, <1>4

\* The popped bin was free, and what remains of the stack is sound.
LEMMA AllocSwapStep ==
  ASSUME PoolInv, NEW t \in Threads, AllocSwap(t)
  PROVE  PoolInv' /\ owner[old[t].index] = Free
<1> USE DEF PoolInv
<1> DEFINE b == old[t].index
<1>1. /\ lag[t] = 0 /\ head = old[t] /\ b \in Bins /\ b = head.index
      /\ nxt[t] = next[b]
  <2>1. head = old[t] /\ InWindow(t)
    BY DEF AllocSwap, SwapHead, InWindow
  <2>2. lag[t] = 0
    BY <2>1, SwapMatch
  <2> QED
    BY <2>1, <2>2 DEF AllocSwap, WindowSound, TypeOK, Heads
<1>2. b \in FreeBins /\ owner[b] = Free
  BY <1>1, NamesAssumption DEF LinksSound, FreeBins, Bins
<1>3. nxt[t] \in Bins \cup {Nil} /\ SwapHead(t, nxt[t]) /\ UNCHANGED old
  BY DEF AllocSwap, TypeOK
<1>4. /\ head' \in Heads /\ head'.index = nxt[t]
      /\ lag' \in [Threads -> Counters]
      /\ \A u \in Threads \ {t} : InWindow(u) =>
           /\ head'.counter = (old[u].counter + lag'[u]) % CounterMod
           /\ lag'[u] # 0
  BY <1>3, SwapWindows
<1>5. TypeOK'
  BY <1>1, <1>4 DEF AllocSwap, TypeOK
<1>6. FreeBins' = FreeBins \ {b}
  BY <1>1, NamesAssumption DEF AllocSwap, FreeBins, TypeOK
<1>7. LinksSound'
  <2>1. next' = next /\ head'.index = next[b]
    BY <1>1, <1>4 DEF AllocSwap
  <2>2. next[b] \in (FreeBins \ {b}) \cup {Nil}
    BY <1>1, <1>2 DEF LinksSound
  <2>3. \A c \in FreeBins \ {b} :
          /\ next[c] \in (FreeBins \ {b}) \cup {Nil}
          /\ next[c] # Nil => next[c] # next[b]
          /\ \A d \in FreeBins \ {b} : next[c] = next[d] /\ next[c] # Nil => c = d
    BY <1>1, <1>2 DEF LinksSound
  <2> QED
    BY <1>6, <2>1, <2>2, <2>3 DEF LinksSound
<1>8. WindowSound'
  <2>1. \A u \in Threads \ {t} : pc'[u] = pc[u] /\ bin'[u] = bin[u]
    BY DEF AllocSwap, TypeOK
  <2>2. pc'[t] = "a_alive" /\ bin'[t] = b /\ owner'[b] = t
    BY <1>1 DEF AllocSwap, TypeOK
  <2>3. \A u \in Threads \ {t} : owner[bin[u]] = u => owner'[bin'[u]] = u
    BY <1>2, <2>1, NamesAssumption DEF AllocSwap, TypeOK
  <2>4. UNCHANGED <<next, old, nxt>>
    BY DEF AllocSwap
  <2> QED
    BY <1>4, <2>1, <2>2, <2>3, <2>4 DEF WindowSound, InWindow
<1> QED
  BY <1>2, <1>5, <1>7, <1>8

LEMMA AllocConstructStep ==
  ASSUME PoolInv, NEW t \in Threads, AllocConstruct(t) PROVE PoolInv'
<1> USE DEF PoolInv
<1>1. TypeOK'
  BY DEF AllocConstruct, TypeOK
<1>2. owner[bin[t]] = t /\ bin[t] \in Bins
  BY DEF AllocConstruct, WindowSound, TypeOK
<1>3. FreeBins' = FreeBins
  BY <1>2, NamesAssumption DEF AllocConstruct, FreeBins, TypeOK
<1>4. LinksSound'
  BY <1>3 DEF AllocConstruct, LinksSound
<1>5. WindowSound'
  BY <1>2 DEF AllocConstruct, WindowSound, InWindow, TypeOK
<1> QED
  BY <1>1, <1>4, <1>5

LEMMA DeallocCallStep ==
  ASSUME PoolInv, NEW t \in Threads, NEW b \in Bins, DeallocCall(t, b) PROVE PoolInv'
<1> USE DEF PoolInv
<1>1. TypeOK'
  BY DEF DeallocCall, TypeOK
<1>2. FreeBins' = FreeBins
  BY NamesAssumption DEF DeallocCall, FreeBins, TypeOK
<1>3. LinksSound'
  BY <1>2 DEF DeallocCall, LinksSound
<1>4. WindowSound'
  BY NamesAssumption DEF DeallocCall, WindowSound, InWindow, TypeOK
<1> QED
  BY <1>1, <1>3, <1>4

LEMMA DeallocAliveStep ==
  ASSUME PoolInv, NEW t \in Threads, DeallocAlive(t) PROVE PoolInv'
<1> USE DEF PoolInv
<1>1. TypeOK'
  BY DEF DeallocAlive, TypeOK
<1>2. LinksSound'
  BY DEF DeallocAlive, LinksSound, FreeBins
<1>3. WindowSound'
  BY DEF DeallocAlive, WindowSound, InWindow, TypeOK
<1> QED
  BY <1>1, <1>2, <1>3

LEMMA DeallocLoadStep ==
  ASSUME PoolInv, NEW t \in Threads, DeallocLoad(t) PROVE PoolInv'
<1> USE DEF PoolInv
<1>1. TypeOK'
  BY CounterAssumption DEF DeallocLoad, TypeOK, Counters
<1>2. LinksSound'
  BY DEF DeallocLoad, LinksSound, FreeBins
<1>3. head.counter = (head.counter + 0) % CounterMod
  BY CounterBump, CounterAssumption DEF TypeOK, Heads, Counters
<1>4. WindowSound'
  BY <1>3 DEF DeallocLoad, WindowSound, InWindow, TypeOK
<1> QED
  BY <1>1, <1>2, <1>4

\* The link written belongs to a bin that is not free, so no link of the stack
\* and no link another thread read from the top of it changes.
LEMMA DeallocLinkStep ==
  ASSUME PoolInv, NEW t \in Threads, DeallocLink(t) PROVE PoolInv'
<1> USE DEF PoolInv
<1>1. owner[bin[t]] = t /\ bin[t] \in Bins /\ bin[t] \notin FreeBins
  BY NamesAssumption DEF DeallocLink, WindowSound, TypeOK, FreeBins
<1>2. TypeOK'
  BY DEF DeallocLink, TypeOK, Heads
<1>3. \A b \in Bins \ {bin[t]} : next'[b] = next[b]
  BY DEF DeallocLink, TypeOK
<1>4. LinksSound'
  BY <1>1, <1>3 DEF DeallocLink, LinksSound, FreeBins
<1>5. \A u \in Threads : pc[u] = "a_cas" /\ lag[u] = 0 =>
        old[u].index \in FreeBins /\ next'[old[u].index] = next[old[u].index]
  <2> SUFFICES ASSUME NEW u \in Threads, pc[u] = "a_cas", lag[u] = 0
               PROVE  old[u].index \in FreeBins /\ next'[old[u].index] = next[old[u].index]
    OBVIOUS
  <2>1. old[u] = head /\ old[u].index # Nil
    BY DEF WindowSound, InWindow
  <2>2. old[u].index \in FreeBins
    BY <2>1 DEF LinksSound
  <2> QED
    BY <1>1, <1>3, <2>2 DEF FreeBins
<1>6. \A u \in Threads \ {t} : pc[u] = "d_cas" =>
        bin[u] \in Bins /\ next'[bin[u]] = next[bin[u]]
  BY <1>1, <1>3 DEF WindowSound, TypeOK
<1>7. next'[bin[t]] = old[t].index /\ pc' = [pc EXCEPT ![t] = "d_cas"]
  BY <1>1 DEF DeallocLink, TypeOK
<1>8. UNCHANGED <<head, owner, old, nxt, bin, lag>>
  BY DEF DeallocLink
<1>9. pc[t] = "d_link"
  BY DEF DeallocLink
<1>10. WindowSound'
  BY <1>5, <1>6, <1>7, <1>8, <1>9 DEF WindowSound, InWindow, TypeOK
<1> QED
  BY <1>2, <1>4, <1>10

\* The pushed bin becomes the head and links to the old one.
LEMMA DeallocSwapStep ==
  ASSUME PoolInv, NEW t \in Threads, DeallocSwap(t) PROVE PoolInv'
<1> USE DEF PoolInv
<1> DEFINE b == bin[t]
<1>1. /\ head = old[t] /\ b \in Bins /\ owner[b] = t /\ next[b] = head.index
      /\ b \notin FreeBins /\ b # Nil
  BY NamesAssumption
     DEF DeallocSwap, SwapHead, WindowSound, TypeOK, FreeBins, Bins
<1>2. b \in Bins \cup {Nil} /\ SwapHead(t, b) /\ UNCHANGED old
  BY <1>1 DEF DeallocSwap
<1>3. /\ head' \in Heads /\ head'.index = b
      /\ lag' \in [Threads -> Counters]
      /\ \A u \in Threads \ {t} : InWindow(u) =>
           /\ head'.counter = (old[u].counter + lag'[u]) % CounterMod
           /\ lag'[u] # 0
  BY <1>2, SwapWindows
<1>4. TypeOK'
  BY <1>3 DEF DeallocSwap, TypeOK
<1>5. FreeBins' = FreeBins \cup {b}
  BY <1>1 DEF DeallocSwap, FreeBins, TypeOK
<1>6. LinksSound'
  <2>1. next' = next
    BY DEF DeallocSwap
  <2>2. head.index \in FreeBins \cup {Nil}
    BY DEF LinksSound
  <2>3. \A c \in FreeBins \cup {b} :
          /\ next[c] \in FreeBins \cup {Nil}
          /\ next[c] # Nil => next[c] # b
    BY <1>1, <2>2 DEF LinksSound
  <2>4. \A c, d \in FreeBins \cup {b} : next[c] = next[d] /\ next[c] # Nil => c = d
    BY <1>1 DEF LinksSound
  <2> QED
    BY <1>3, <1>5, <2>1, <2>3, <2>4 DEF LinksSound
<1>7. WindowSound'
  <2>1. \A u \in Threads \ {t} : pc'[u] = pc[u]
    BY DEF DeallocSwap, TypeOK
  <2>2. pc'[t] = "idle"
    BY DEF DeallocSwap, TypeOK
  <2>3. \A u \in Threads \ {t} : owner[bin[u]] = u => owner'[bin'[u]] = u
    BY <1>1 DEF DeallocSwap, TypeOK
  <2>4. UNCHANGED <<next, old, nxt, bin>>
    BY DEF DeallocSwap
  <2> QED
    BY <1>3, <2>1, <2>2, <2>3, <2>4 DEF WindowSound, InWindow
<1> QED
  BY <1>4, <1>6, <1>7

LEMMA RetryStep ==
  ASSUME PoolInv, NEW t \in Threads, Retry(t) PROVE PoolInv'
<1> USE DEF PoolInv
<1>1. TypeOK'
  BY DEF Retry, TypeOK
<1>2. LinksSound'
  BY DEF Retry, LinksSound, FreeBins
<1>3. WindowSound'
  BY DEF Retry, WindowSound, InWindow, TypeOK
<1> QED
  BY <1>1, <1>2, <1>3

LEMMA PoolInductive == PoolInv /\ [Next]_vars => PoolInv'
<1> SUFFICES ASSUME PoolInv, [Next]_vars PROVE PoolInv'
  OBVIOUS
<1>1. CASE UNCHANGED vars
  BY <1>1 DEF vars, PoolInv, TypeOK, LinksSound, WindowSound, InWindow, FreeBins
<1>2. ASSUME NEW t \in Threads, Step(t) PROVE PoolInv'
  BY <1>2, AllocLoadStep, AllocNextStep, AllocSwapStep, AllocConstructStep,
     DeallocCallStep, DeallocAliveStep, DeallocLoadStep, DeallocLinkStep,
     DeallocSwapStep, RetryStep
     DEF Step
<1> QED
  BY <1>1, <1>2 DEF Next

\* Indices and counters stay in range, whatever the threads do.
THEOREM PoolTypes == Spec => []TypeOK
<1>1. PoolInv => TypeOK
  BY DEF PoolInv
<1> QED
  BY <1>1, InitPool, PoolInductive, PTL DEF Spec

\* allocate never hands out a bin twice: between its load of the head and a
\* compare-exchange that succeeds no other thread popped or pushed, because the
\* counter of memory_pool.hpp would have moved.
THEOREM PoolExclusive == Spec => NoDoubleHandOut
<1> DEFINE HandOut ==
      \A t \in Threads :
        pc[t] = "a_cas" /\ pc'[t] = "a_alive" => owner[bin'[t]] = Free
<1>1. PoolInv /\ [Next]_vars => [HandOut]_vars
  <2> SUFFICES ASSUME PoolInv, Next,
                      NEW t \in Threads, pc[t] = "a_cas", pc'[t] = "a_alive"
               PROVE  owner[bin'[t]] = Free
    OBVIOUS
  <2>1. PICK u \in Threads : Step(u)
    BY DEF Next
  <2>2. u = t /\ AllocSwap(t)
    BY <2>1
       DEF Step, PoolInv, TypeOK, AllocLoad, AllocNext, AllocSwap, AllocConstruct,
           DeallocCall, DeallocAlive, DeallocLoad, DeallocLink, DeallocSwap, Retry
  <2>3. bin'[t] = old[t].index
    BY <2>2 DEF AllocSwap, PoolInv, TypeOK
  <2> QED
    BY <2>2, <2>3, AllocSwapStep
<1> QED
  BY <1>1, InitPool, PoolInductive, PTL DEF Spec, NoDoubleHandOut
================================================================================
