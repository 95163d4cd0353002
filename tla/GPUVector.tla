----------------------------- MODULE GPUVector -----------------------------
(***************************************************************************)
(* GPUVector: a variable number of elements over a GPUArray.  The storage  *)
(* only grows, by the factor RESIZE_FACTOR; m_size elements of it are in   *)
(* use.  Several vectors, because the code swaps freshly constructed ones  *)
(* into its members and swaps the alternate arrays of the bonded groups.   *)
(*                                                                         *)
(* The storage is its host copy: that both copies are one array is the     *)
(* subject of GPUArray.tla.                                                *)
(***************************************************************************)
EXTENDS Integers, Sequences, SequencesExt

CONSTANTS
    Vecs,     \* the vectors
    Values,   \* what an element can hold
    Zero,     \* the value of cleared memory
    MaxSize   \* bound of the model: elements of a vector

VectorAssumption == Zero \in Values /\ MaxSize \in Nat \ {0}

VARIABLES
    data,     \* data[v]: the elements of the GPUArray, all that are allocated
    m_size    \* m_size[v]: number of elements in use

vars == <<data, m_size>>

NumElements(v) == Len(data[v])

Cleared(n) == [i \in 1 .. n |-> Zero]

\* A vector constructed with an execution configuration only is empty.
Init == /\ data = [v \in Vecs |-> <<>>]
        /\ m_size = [v \in Vecs |-> 0]

----------------------------------------------------------------------------
(* Storage *)

\* The loop of reallocate(): new_allocated_size grows from c until it holds
\* size elements.
Grown[c \in Nat, size \in Nat] ==
    IF size <= c THEN c ELSE Grown[(c * 9) \div 8 + 1, size]

\* reallocate(size): the storages the vector can have afterwards.  An array
\* that has memory keeps its elements and gets zeros behind them; the first
\* allocation is not cleared.
Reallocated(v, size) ==
    LET n == NumElements(v)
        m == Grown[IF n = 0 THEN 1 ELSE n, size]
    IN  IF size <= n THEN {data[v]}
        ELSE IF n = 0 THEN [1 .. m -> Values]
        ELSE {data[v] \o Cleared(m - n)}

----------------------------------------------------------------------------
(* The operations *)

\* GPUVector(size, exec_conf); the vector it replaces is destroyed.
Construct(v, size) ==
    /\ data' = [data EXCEPT ![v] = Cleared(size)]
    /\ m_size' = [m_size EXCEPT ![v] = size]

PushBack(v, val) ==
    /\ m_size[v] < MaxSize
    /\ \E d \in Reallocated(v, m_size[v] + 1) :
          data' = [data EXCEPT ![v] = [d EXCEPT ![m_size[v] + 1] = val]]
    /\ m_size' = [m_size EXCEPT ![v] = @ + 1]

PopBack(v) ==
    /\ m_size[v] > 0
    /\ m_size' = [m_size EXCEPT ![v] = @ - 1]
    /\ UNCHANGED data

\* erase(i), i counts from zero: the elements behind i move down by one; the
\* last one is left where it was, out of use.
Erase(v, i) ==
    /\ i < m_size[v]
    /\ data' = [data EXCEPT ![v] = [j \in DOMAIN @ |->
                  IF j > i /\ j < m_size[v] THEN @[j + 1] ELSE @[j]]]
    /\ m_size' = [m_size EXCEPT ![v] = @ - 1]

Clear(v) ==
    /\ m_size' = [m_size EXCEPT ![v] = 0]
    /\ UNCHANGED data

\* vec[i] = x through the proxy of operator[].
Store(v, i, val) ==
    /\ i < m_size[v]
    /\ data' = [data EXCEPT ![v][i + 1] = val]
    /\ UNCHANGED m_size

\* Mutation: the storage follows only when the vector has none.
ResizeOnce(v, new_size) ==
    /\ \E d \in Reallocated(v, IF NumElements(v) = 0 THEN new_size ELSE 1) :
          data' = [data EXCEPT ![v] = d]
    /\ m_size' = [m_size EXCEPT ![v] = new_size]
\* resize(new_size) allocates one element at least.
Resize(v, new_size) ==
    /\ \E d \in Reallocated(v, IF new_size > 0 THEN new_size ELSE 1) :
          data' = [data EXCEPT ![v] = d]
    /\ m_size' = [m_size EXCEPT ![v] = new_size]

\* The copy constructor, used for a vector v that is built from w.
CopyConstruct(v, w) ==
    /\ v # w
    /\ data' = [data EXCEPT ![v] = data[w]]
    /\ m_size' = [m_size EXCEPT ![v] = m_size[w]]

\* operator=: the cast makes a temporary GPUArray from *this, and it is the
\* temporary that rhs is assigned to.
Assign(v, w) ==
    /\ v # w
    /\ m_size' = [m_size EXCEPT ![v] = m_size[w]]
    /\ UNCHANGED data

Swap(v, w) ==
    /\ v # w
    /\ data' = [data EXCEPT ![v] = data[w], ![w] = data[v]]
    /\ m_size' = [m_size EXCEPT ![v] = m_size[w], ![w] = m_size[v]]

Next == \E v \in Vecs :
    \/ \E val \in Values : PushBack(v, val)
    \/ PopBack(v)
    \/ \E i \in 0 .. (MaxSize - 1) : Erase(v, i)
    \/ Clear(v)
    \/ \E i \in 0 .. (MaxSize - 1), val \in Values : Store(v, i, val)
    \/ \E n \in 0 .. MaxSize : Resize(v, n) \/ Construct(v, n)
    \/ \E w \in Vecs : CopyConstruct(v, w) \/ Swap(v, w)

Spec == Init /\ [][Next]_vars

----------------------------------------------------------------------------
(* Properties *)

\* Storage and size have their types.
TypeOK == /\ \A v \in Vecs : data[v] \in Seq(Values)
          /\ m_size \in [Vecs -> 0 .. MaxSize]

\* The elements in use lie inside the allocated memory, so that operator[],
\* the handles on the vector and erase() stay inside it: through any sequence
\* of growth, shrinking, swapping and copying, as "assert(n < m_size)" in
\* operator[] takes for granted.
Fits == \A v \in Vecs : m_size[v] <= NumElements(v)

\* The growth is amortised and bounded: the memory of a vector is at most one
\* step of RESIZE_FACTOR beyond the largest size that is ever asked for
\* (here MaxSize), whatever resize(), swap() and copies did to it.
Amortised == \A v \in Vecs : NumElements(v) <= (MaxSize * 9) \div 8 + 1

\* The vectors behave as sequences: the storage, its slack and what
\* reallocation leaves in it cannot be seen.
Sequences == [v \in Vecs |-> SubSeq(data[v], 1, m_size[v])]
Store_ == INSTANCE SequenceStore WITH seq <- Sequences
=============================================================================
