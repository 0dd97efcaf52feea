------------------------------ MODULE MemoryPool -------------------------------
(***************************************************************************)
(* common::MemoryPool<T> (hft/common/memory_pool.hpp): a fixed array of    *)
(* bins whose free ones form a stack, linked through free_nodes_[].next    *)
(* and headed by one 64-bit word that packs an index and a 32-bit counter. *)
(* allocate and deallocate run on any thread; each atomic access and each  *)
(* access to a link is one step.                                           *)
(*                                                                         *)
(* The counter is kept modulo CounterMod (2^32 in the code).  lag counts   *)
(* the updates of the head since a thread loaded it: the model, like the   *)
(* code, relies on no thread being overtaken by CounterMod updates between *)
(* its load and its compare-exchange.                                      *)
(***************************************************************************)
EXTENDS Integers, FiniteSets

CONSTANTS
  Threads,    \* the threads that use the pool
  NumElems,   \* num_elems: how many bins
  CounterMod, \* the counter wraps here
  Nil,        \* kInvalidIndex
  Free,       \* owner of a bin that is in the free stack
  Client      \* owner of a bin whose pointer allocate has returned

ASSUME NumElemsAssumption == NumElems \in Nat /\ NumElems >= 1
ASSUME CounterAssumption == CounterMod \in Nat /\ CounterMod >= 2
ASSUME NamesAssumption ==
  /\ Nil \notin Int
  /\ Free # Client /\ Free \notin Threads /\ Client \notin Threads

Bins == 0 .. NumElems - 1
Counters == 0 .. CounterMod - 1

VARIABLES
  head,     \* free_head_, unpacked: [index, counter]
  next,     \* free_nodes_[i].next
  alive,    \* store_[i].alive
  owner,    \* who may touch a bin: Free, Client or the thread moving it
  pc,       \* the step each thread is at
  old,      \* each thread's old_head
  nxt,      \* each thread's next_idx (allocate)
  bin,      \* the bin each thread is taking or returning
  lag       \* head updates since the thread loaded old

vars == <<head, next, alive, owner, pc, old, nxt, bin, lag>>

\* unpack(pack(h)): the word holds the index and the counter unchanged
Heads == [index : Bins \cup {Nil}, counter : Counters]
BumpWide(c) == c + 1
\* the counter is a std::uint32_t
Bump(c) == (c + 1) % CounterMod

Init ==
  /\ head = [index |-> 0, counter |-> 0]
  /\ next = [b \in Bins |-> IF b = NumElems - 1 THEN Nil ELSE b + 1]
  /\ alive = [b \in Bins |-> FALSE]
  /\ owner = [b \in Bins |-> Free]
  /\ pc = [t \in Threads |-> "idle"]
  /\ old = [t \in Threads |-> [index |-> 0, counter |-> 0]]
  /\ nxt = [t \in Threads |-> Nil]
  /\ bin = [t \in Threads |-> 0]
  /\ lag = [t \in Threads |-> 0]

\* The threads between their load of the head and their compare-exchange
InWindow(t) == pc[t] \in {"a_next", "a_cas", "d_link", "d_cas"}

\* A successful compare-exchange by t: everyone else falls one update behind,
\* and nobody by a whole turn of the counter.
SwapHead(t, i) ==
  /\ head = old[t]
  /\ \A u \in Threads \ {t} : InWindow(u) => lag[u] < CounterMod - 1
  /\ head' = [index |-> i, counter |-> Bump(old[t].counter)]
  /\ lag' = [u \in Threads |->
               IF u # t /\ InWindow(u) THEN lag[u] + 1 ELSE 0]
--------------------------------------------------------------------------------
(* allocate *)

\* Load the head; an empty stack returns nullptr.
AllocLoad(t) ==
  /\ pc[t] \in {"idle", "a_load"}
  /\ old' = [old EXCEPT ![t] = head]
  /\ pc' = [pc EXCEPT ![t] = IF head.index = Nil THEN "idle" ELSE "a_next"]
  /\ lag' = [lag EXCEPT ![t] = 0]
  /\ UNCHANGED <<head, next, alive, owner, nxt, bin>>

\* next_idx = free_nodes_[old_idx].next
AllocNext(t) ==
  /\ pc[t] = "a_next"
  /\ nxt' = [nxt EXCEPT ![t] = next[old[t].index]]
  /\ pc' = [pc EXCEPT ![t] = "a_cas"]
  /\ UNCHANGED <<head, next, alive, owner, old, bin, lag>>

AllocSwapUnchecked(t) ==
  /\ pc[t] = "a_cas"
  /\ IF head = old[t] THEN SwapHead(t, nxt[t]) ELSE UNCHANGED <<head, lag>>
  /\ owner' = [owner EXCEPT ![old[t].index] = t]
  /\ bin' = [bin EXCEPT ![t] = old[t].index]
  /\ pc' = [pc EXCEPT ![t] = "a_alive"]
  /\ UNCHANGED <<next, alive, old, nxt>>

\* The compare-exchange succeeds: the popped bin belongs to t.
AllocSwap(t) ==
  /\ pc[t] = "a_cas"
  /\ SwapHead(t, nxt[t])
  /\ owner' = [owner EXCEPT ![old[t].index] = t]
  /\ bin' = [bin EXCEPT ![t] = old[t].index]
  /\ pc' = [pc EXCEPT ![t] = "a_alive"]
  /\ UNCHANGED <<next, alive, old, nxt>>

\* construct_at, alive = true, return the pointer
AllocConstruct(t) ==
  /\ pc[t] = "a_alive"
  /\ alive' = [alive EXCEPT ![bin[t]] = TRUE]
  /\ owner' = [owner EXCEPT ![bin[t]] = Client]
  /\ pc' = [pc EXCEPT ![t] = "idle"]
  /\ UNCHANGED <<head, next, old, nxt, bin, lag>>
--------------------------------------------------------------------------------
(* deallocate.  The caller hands over a pointer that allocate returned; a  *)
(* pointer outside the store is refused before any state is touched.       *)

DeallocCall(t, b) ==
  /\ pc[t] = "idle"
  /\ owner[b] = Client
  /\ owner' = [owner EXCEPT ![b] = t]
  /\ bin' = [bin EXCEPT ![t] = b]
  /\ pc' = [pc EXCEPT ![t] = "d_alive"]
  /\ UNCHANGED <<head, next, alive, old, nxt, lag>>

DeallocAliveNotCleared(t) ==
  /\ pc[t] = "d_alive"
  /\ pc' = [pc EXCEPT ![t] = IF alive[bin[t]] THEN "d_load" ELSE "idle"]
  /\ UNCHANGED <<head, next, alive, owner, old, nxt, bin, lag>>

\* Check and clear alive; an object that is not alive is refused.
DeallocAlive(t) ==
  /\ pc[t] = "d_alive"
  /\ pc' = [pc EXCEPT ![t] = IF alive[bin[t]] THEN "d_load" ELSE "idle"]
  /\ alive' = [alive EXCEPT ![bin[t]] = FALSE]
  /\ UNCHANGED <<head, next, owner, old, nxt, bin, lag>>

DeallocLoad(t) ==
  /\ pc[t] = "d_load"
  /\ old' = [old EXCEPT ![t] = head]
  /\ lag' = [lag EXCEPT ![t] = 0]
  /\ pc' = [pc EXCEPT ![t] = "d_link"]
  /\ UNCHANGED <<head, next, alive, owner, nxt, bin>>

\* free_nodes_[idx].next = old_head.index
DeallocLink(t) ==
  /\ pc[t] = "d_link"
  /\ next' = [next EXCEPT ![bin[t]] = old[t].index]
  /\ pc' = [pc EXCEPT ![t] = "d_cas"]
  /\ UNCHANGED <<head, alive, owner, old, nxt, bin, lag>>

DeallocSwap(t) ==
  /\ pc[t] = "d_cas"
  /\ SwapHead(t, bin[t])
  /\ owner' = [owner EXCEPT ![bin[t]] = Free]
  /\ pc' = [pc EXCEPT ![t] = "idle"]
  /\ UNCHANGED <<next, alive, old, nxt, bin>>

RetryWithoutRelink(t) ==
  /\ pc[t] \in {"a_cas", "d_cas"}
  /\ pc' = [pc EXCEPT ![t] = IF pc[t] = "a_cas" THEN "a_load" ELSE "d_cas"]
  /\ old' = [old EXCEPT ![t] = head]
  /\ lag' = [lag EXCEPT ![t] = 0]
  /\ UNCHANGED <<head, next, alive, owner, nxt, bin>>

\* compare_exchange_weak fails, for another value or spuriously: load again
Retry(t) ==
  /\ pc[t] \in {"a_cas", "d_cas"}
  /\ pc' = [pc EXCEPT ![t] = IF pc[t] = "a_cas" THEN "a_load" ELSE "d_load"]
  /\ UNCHANGED <<head, next, alive, owner, old, nxt, bin, lag>>
--------------------------------------------------------------------------------
Step(t) ==
  \/ AllocLoad(t) \/ AllocNext(t) \/ AllocSwap(t) \/ AllocConstruct(t)
  \/ \E b \in Bins : DeallocCall(t, b)
  \/ DeallocAlive(t) \/ DeallocLoad(t) \/ DeallocLink(t) \/ DeallocSwap(t)
  \/ Retry(t)

Next == \E t \in Threads : Step(t)

Spec == Init /\ [][Next]_vars
--------------------------------------------------------------------------------
FreeBins == {b \in Bins : owner[b] = Free}

\* The bin reached after following k links from the head, or Nil past the end
Chain[k \in Nat] ==
  IF k = 0 THEN head.index
  ELSE IF Chain[k - 1] = Nil THEN Nil ELSE next[Chain[k - 1]]

\* free_count(): walk the links, at most capacity() of them
free_count == Cardinality({k \in 0 .. NumElems - 1 : Chain[k] # Nil})

\* Every variable keeps a value of its C++ type: indices
\* and counters stay in range.
TypeOK ==
  /\ head \in Heads
  /\ next \in [Bins -> Bins \cup {Nil}]
  /\ alive \in [Bins -> BOOLEAN]
  /\ owner \in [Bins -> Threads \cup {Free, Client}]
  /\ pc \in [Threads -> {"idle", "a_load", "a_next", "a_cas", "a_alive",
                         "d_alive", "d_load", "d_link", "d_cas"}]
  /\ old \in [Threads -> Heads]
  /\ nxt \in [Threads -> Bins \cup {Nil}]
  /\ bin \in [Threads -> Bins]
  /\ lag \in [Threads -> Counters]

\* allocate never returns a bin that is already in use: what it pops was free,
\* whatever pops and pushes of other threads came between its load of the head
\* and its compare-exchange (the ABA case the counter guards against).
NoDoubleHandOut ==
  [][\A t \in Threads :
       pc[t] = "a_cas" /\ pc'[t] = "a_alive" => owner[bin'[t]] = Free]_vars

\* The links reach exactly the free bins, each once: no bin is lost and none is
\* in the stack twice; free_count() counts the free bins.
FreeStackExact ==
  /\ {Chain[k] : k \in 0 .. NumElems} \ {Nil} = FreeBins
  /\ Chain[NumElems] = Nil
  /\ free_count = Cardinality(FreeBins)

\* The inductive invariant behind NoDoubleHandOut.  Links of free bins lead to
\* free bins or the end, no two to the same one and none back to the head, so
\* that a pop leaves a stack of free bins; a thread whose counter still matches
\* has missed no update, so the link it read is current.
LinksSound ==
  /\ head.index \in FreeBins \cup {Nil}
  /\ \A b \in FreeBins :
       /\ next[b] \in FreeBins \cup {Nil}
       /\ next[b] # Nil => next[b] # head.index
       /\ \A c \in FreeBins : next[b] = next[c] /\ next[b] # Nil => b = c

WindowSound ==
  \A t \in Threads :
    /\ InWindow(t) => /\ head.counter = (old[t].counter + lag[t]) % CounterMod
                      /\ lag[t] = 0 => old[t] = head
    /\ pc[t] \in {"a_next", "a_cas"} => old[t].index # Nil
    /\ pc[t] = "a_cas" /\ lag[t] = 0 => nxt[t] = next[old[t].index]
    /\ pc[t] = "d_cas" => next[bin[t]] = old[t].index
    /\ pc[t] \in {"a_alive", "d_alive", "d_load", "d_link", "d_cas"} => owner[bin[t]] = t

PoolInv == TypeOK /\ LinksSound /\ WindowSound

\* An object is alive exactly from the end of its allocate to the check at the
\* start of its deallocate, so that check accepts each object once.
AliveWhileHandedOut ==
  \A b \in Bins :
    alive[b] <=> \/ owner[b] = Client
                 \/ \E t \in Threads : pc[t] = "d_alive" /\ bin[t] = b
================================================================================
