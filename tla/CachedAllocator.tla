-------------------------- MODULE CachedAllocator --------------------------
(***************************************************************************)
(* CachedAllocator: device memory for buffers that live as long as a C++   *)
(* scope (ScopedAllocation).  A released block goes to a cache and is used *)
(* again for a request of nearly its size; a request that finds none calls *)
(* cudaMalloc() and, if the total is above the limit, frees the largest    *)
(* cached blocks.                                                          *)
(*                                                                         *)
(* A call of CUDA may fail, and CHECK_CUDA_ERROR() also throws for an error *)
(* of a kernel that ran before.  The exception closes all open scopes; a   *)
(* block that was being made, and is in neither map yet, is not given back. *)
(***************************************************************************)
EXTENDS Integers, Sequences, FiniteSets, FiniteSetsExt

CONSTANTS
    Addr,               \* device addresses
    Null,               \* the null pointer
    Requests,           \* sizes that are asked for, in bytes
    max_cached_bytes,   \* m_max_cached_bytes
    TolNum, TolDen,     \* m_cache_reltol = TolNum / TolDen
    Modulus,            \* 2^32 of the code
    MaxDepth            \* bound on the scopes that are open

ASSUME AllocatorAssumption ==
    /\ Null \notin Addr /\ Requests \subseteq Nat
    /\ max_cached_bytes \in Nat /\ Modulus \in Nat \ {0}
    /\ TolNum \in Nat /\ TolDen \in Nat \ {0} /\ MaxDepth \in Nat

VARIABLES
    dev,        \* addresses cudaMalloc() returned and cudaFree() did not take back
    size,       \* address -> bytes it was allocated with (m_free_blocks, m_allocated_blocks)
    free,       \* addresses in m_free_blocks
    alloc,      \* addresses in m_allocated_blocks
    tot,        \* m_num_bytes_tot
    scopes,     \* the open scopes, innermost last: address and bytes asked for
    result,     \* the block of a miss until it is in m_allocated_blocks
    pc          \* "ready", "evict": in the loop of a miss, "unwind": an exception
                \* is on its way, "broken": m_free_blocks has memory that was
                \* freed, "gone": after the destructor

\* History: what exceptions left behind.
VARIABLES
    lost,       \* allocated, never counted (or not freed by the destructor)
    stray,      \* allocated and counted, but in no map
    dangling    \* freed, but still in m_free_blocks

blocks == <<dev, size, free, alloc, tot, scopes>>
history == <<lost, stray, dangling>>
vars == <<blocks, result, pc, history>>

-----------------------------------------------------------------------------

None == [addr |-> Null, bytes |-> 0]

\* The block that is being made.
Making == {result.addr} \ {Null}

\* A cached block of s bytes serves a request of n bytes.
WithinTol(n, s) == s >= n /\ s <= n + (n * TolNum) \div TolDen

\* lower_bound(): the smallest cached blocks of at least n bytes.
LowerBound(n) ==
    {x \in free : size[x] >= n /\ \A y \in free : size[y] >= n => size[x] <= size[y]}

Hits(n) == {x \in LowerBound(n) : WithinTol(n, size[x])}

Open(x, n) == scopes' = Append(scopes, [addr |-> x, bytes |-> n])

\* A request for no elements.
GetNothing ==
    /\ pc = "ready" /\ 0 \in Requests /\ Len(scopes) < MaxDepth
    /\ Open(Null, 0)
    /\ UNCHANGED <<dev, size, free, alloc, tot, result, pc, history>>

\* Mutation: the cached block stays in the cache.
GetHitKeeps(n) ==
    /\ pc = "ready" /\ n > 0 /\ Len(scopes) < MaxDepth
    /\ \E x \in Hits(n) :
          /\ free' = free /\ alloc' = alloc \cup {x}
          /\ Open(x, n)
    /\ UNCHANGED <<dev, size, tot, result, pc, history>>

\* getTemporaryBuffer(), a cached block is found.
GetHit(n) ==
    /\ pc = "ready" /\ n > 0 /\ Len(scopes) < MaxDepth
    /\ \E x \in Hits(n) :
          /\ free' = free \ {x} /\ alloc' = alloc \cup {x}
          /\ Open(x, n)
    /\ UNCHANGED <<dev, size, tot, result, pc, history>>

Misses(n) ==
    pc = "ready" /\ n > 0 /\ Len(scopes) < MaxDepth /\ Hits(n) = {}

\* getTemporaryBuffer(), a new block; the loop over the cached ones follows.
GetMiss(n) ==
    /\ Misses(n)
    /\ \E x \in Addr \ dev :
          /\ dev' = dev \cup {x}
          /\ size' = [size EXCEPT ![x] = n]
          /\ result' = [addr |-> x, bytes |-> n]
    /\ tot' = (tot + n) % Modulus
    /\ pc' = "evict"
    /\ UNCHANGED <<free, alloc, scopes, history>>

\* cudaMalloc() fails and CHECK_CUDA_ERROR() throws.
GetFails(n) ==
    /\ Misses(n)
    /\ pc' = "unwind"
    /\ UNCHANGED <<blocks, result, history>>

\* cudaMalloc() succeeds and CHECK_CUDA_ERROR() throws for an earlier error.
GetThrows(n) ==
    /\ Misses(n)
    /\ \E x \in Addr \ dev : dev' = dev \cup {x} /\ lost' = lost \cup {x}
    /\ pc' = "unwind"
    /\ UNCHANGED <<size, free, alloc, tot, scopes, result, stray, dangling>>

MustEvict == tot > max_cached_bytes /\ free # {}

\* Mutation: the size of the evicted block is still counted.
RemainingSame(x) == tot

\* What is counted without the block x.
Remaining(x) == (tot - size[x]) % Modulus

Largest == {x \in free : \A y \in free : size[y] <= size[x]}

\* One round of the loop: the largest cached block is freed.
Evict ==
    /\ pc = "evict" /\ MustEvict
    /\ \E x \in Largest :
          dev' = dev \ {x} /\ free' = free \ {x} /\ tot' = Remaining(x)
    /\ UNCHANGED <<size, alloc, scopes, result, pc, history>>

\* CHECK_CUDA_ERROR() throws in the loop, whether or not cudaFree() freed the
\* block: it stays in m_free_blocks, and the new one goes nowhere.
EvictThrows ==
    /\ pc = "evict" /\ MustEvict
    /\ \E x \in Largest :
          \/ dev' = dev \ {x} /\ dangling' = dangling \cup {x}
          \/ UNCHANGED <<dev, dangling>>
    /\ stray' = stray \cup Making /\ result' = None
    /\ pc' = "unwind"
    /\ UNCHANGED <<size, free, alloc, tot, scopes, lost>>

\* The new block enters m_allocated_blocks and its scope is constructed.
Got ==
    /\ pc = "evict" /\ ~MustEvict
    /\ alloc' = alloc \cup Making
    /\ Open(result.addr, result.bytes)
    /\ result' = None /\ pc' = "ready"
    /\ UNCHANGED <<dev, size, free, tot, history>>

\* ~ScopedAllocation(), deallocate(): the innermost scope ends.
Deallocate ==
    /\ pc \in {"ready", "unwind"} /\ scopes # <<>>
    /\ LET x == scopes[Len(scopes)].addr IN
       IF x = Null THEN UNCHANGED <<free, alloc>>
       ELSE alloc' = alloc \ {x} /\ free' = free \cup {x}
    /\ scopes' = SubSeq(scopes, 1, Len(scopes) - 1)
    /\ UNCHANGED <<dev, size, tot, result, pc, history>>

\* The exception leaves the outermost scope; the script may go on, but not
\* (in this model) with a cache that has memory that was freed.
Unwound ==
    /\ pc = "unwind" /\ scopes = <<>>
    /\ pc' = IF dangling = {} THEN "ready" ELSE "broken"
    /\ UNCHANGED <<blocks, result, history>>

\* ~CachedAllocator(), free_all(): the cached blocks are freed, the smallest
\* first, and a throw ends the loop.  No scope is open: none is in use.
Destroy ==
    /\ pc = "ready" /\ scopes = <<>>
    /\ \E freed \in SUBSET free :
          /\ \A x \in freed, y \in free \ freed : size[x] <= size[y]
          /\ dev' = dev \ freed /\ lost' = lost \cup (free \ freed)
    /\ free' = {}
    /\ pc' = "gone"
    /\ UNCHANGED <<size, alloc, tot, scopes, result, stray, dangling>>

-----------------------------------------------------------------------------
Init ==
    /\ dev = {} /\ size = [x \in Addr |-> 0] /\ free = {} /\ alloc = {}
    /\ tot = 0 /\ scopes = <<>> /\ result = None /\ pc = "ready"
    /\ lost = {} /\ stray = {} /\ dangling = {}

Next ==
    \/ GetNothing \/ Evict \/ EvictThrows \/ Got \/ Deallocate \/ Unwound \/ Destroy
    \/ \E n \in Requests : GetHit(n) \/ GetMiss(n) \/ GetFails(n) \/ GetThrows(n)

Spec == Init /\ [][Next]_vars

-----------------------------------------------------------------------------
\* The tables have their types.
TypeOK ==
    /\ dev \subseteq Addr /\ free \subseteq Addr /\ alloc \subseteq Addr
    /\ size \in [Addr -> Nat] /\ tot \in 0..(Modulus - 1)
    /\ scopes \in Seq([addr : Addr \cup {Null}, bytes : Nat])
    /\ result \in [addr : Addr \cup {Null}, bytes : Nat]
    /\ result.addr # Null <=> pc = "evict"
    /\ pc \in {"ready", "evict", "unwind", "broken", "gone"}

\* The device memory that is held is cached, in use, being made or left behind
\* by an exception, and only one of these: a release, a hit, an eviction and
\* the end of a scope never lose or free a block that is in use.  A block that
\* was freed is in the cache only on the way out of a throw in the loop.
NoLeak ==
    /\ dev = (free \ dangling) \cup alloc \cup Making \cup lost \cup stray
    /\ free \cap alloc = {} /\ Making \cap (free \cup alloc) = {}
    /\ lost \cap (free \cup alloc \cup Making \cup stray) = {}
    /\ stray \cap (free \cup alloc \cup Making) = {}
    /\ dangling \subseteq free /\ dangling \cap dev = {}
    /\ pc \in {"ready", "evict", "gone"} => dangling = {}

\* Two open scopes never share memory, and the blocks in use are theirs.
OwnBlock ==
    /\ \A i, j \in 1..Len(scopes) :
          scopes[i].addr = scopes[j].addr /\ scopes[i].addr # Null => i = j
    /\ alloc = {scopes[i].addr : i \in 1..Len(scopes)} \ {Null}

\* A block of s bytes serves a request of n bytes and wastes no more than the
\* tolerance.
Fits(n, s) == n <= s /\ s * TolDen <= n * (TolDen + TolNum)

\* The scopes got the bytes they asked for, and so will the one being opened.
BigEnough ==
    /\ \A i \in 1..Len(scopes) :
          scopes[i].addr # Null => Fits(scopes[i].bytes, size[scopes[i].addr])
    /\ result.addr # Null => size[result.addr] = result.bytes

\* Blocks are accounted for, belong to one scope, and have the bytes it asked for,
\* through hits, misses, evictions and exceptions at every check of an error.
BlocksSafe == TypeOK /\ NoLeak /\ OwnBlock /\ BigEnough

\* The blocks that m_num_bytes_tot counts.
Counts == free \cup alloc \cup Making \cup stray

\* m_num_bytes_tot is the sum of the blocks that are cached, in use or being
\* made, and of those that a throw in the loop left behind, modulo 2^32.
Accounting == pc # "gone" => tot = MapThenSumSet(LAMBDA x : size[x], Counts) % Modulus
=============================================================================
