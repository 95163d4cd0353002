------------------------------ MODULE MCArrays ------------------------------
(***************************************************************************)
(* Instances of the arrays that host and GPU share: one GPUArray with rows *)
(* and up to two elements, two GPUArrays that are assigned and swapped,    *)
(* two GPUVectors, one GPUVector that grows, and one GPUFlags of each      *)
(* kind. A behaviour belongs to one part; the variables of the others stay *)
(* Off.                                                                    *)
(***************************************************************************)
EXTENDS GPUArray, TLC

CONSTANTS a1, a2, a3, Off, Junk

VARIABLES
    part,
    arr2, hdl2, data, m_size, cell, h_data, d_data, stream, got, asked

One == {a1}
UpToTwo == 0 .. 2
Rows == {<<1, 1>>, <<1, 2>>, <<2, 1>>}

\* Two arrays of at most one element.
Two == INSTANCE GPUArray WITH
    Arrays <- {a1, a2}, MaxElements <- 1, Sizes1D <- 0 .. 1, Sizes2D <- {},
    arr <- arr2, hdl <- hdl2

\* Two vectors of at most three elements.
Vectors == INSTANCE GPUVector WITH
    Vecs <- {a1, a2}, MaxSize <- 3

\* One vector that grows past 8 elements, where RESIZE_FACTOR begins to
\* matter.
Growth == INSTANCE GPUVector WITH
    Vecs <- {a1}, MaxSize <- 9

\* Flags in mapped memory, flags that are copied and flags without a GPU.
Kinds == INSTANCE GPUFlags WITH
    Flags <- {a1, a2, a3},
    Kind <- (a1 :> "mapped") @@ (a2 :> "copied") @@ (a3 :> "host"),
    MaxPending <- 2

ASSUME ArraysAssumption ==
    /\ Vectors!VectorAssumption
    /\ Growth!VectorAssumption
    /\ Kinds!FlagsAssumption
    /\ Two!GPUArrayAssumption

mcvars == <<part, arr, hdl, arr2, hdl2, data, m_size, cell, h_data, d_data,
            stream, got, asked>>

\* What the parts on GPUArray leave alone.
besideOne == <<part, arr2, hdl2, data, m_size, cell, h_data, d_data, stream,
               got, asked>>
BesideOne ==
    /\ arr2 = Off /\ hdl2 = Off /\ data = Off /\ m_size = Off /\ cell = Off
    /\ h_data = Off /\ d_data = Off /\ stream = Off /\ got = Off
    /\ asked = Off

\* What the parts on GPUArray leave alone.
besideTwo == <<part, arr, hdl, data, m_size, cell, h_data, d_data, stream,
               got, asked>>
BesideTwo ==
    /\ Init /\ data = Off /\ m_size = Off /\ cell = Off /\ h_data = Off
    /\ d_data = Off /\ stream = Off /\ got = Off /\ asked = Off

\* What the parts on GPUVector leave alone.
besideVectors == <<part, arr, hdl, arr2, hdl2, cell, h_data, d_data, stream,
                   got, asked>>
BesideVectors ==
    /\ Init /\ arr2 = Off /\ hdl2 = Off /\ cell = Off /\ h_data = Off
    /\ d_data = Off /\ stream = Off /\ got = Off /\ asked = Off

\* What the parts on GPUFlags leave alone.
besideFlags == <<part, arr, hdl, arr2, hdl2, data, m_size>>
BesideFlags ==
    /\ Init /\ arr2 = Off /\ hdl2 = Off /\ data = Off /\ m_size = Off

MCInit ==
    \/ part = "one" /\ Init /\ BesideOne
    \/ part = "two" /\ Two!Init /\ BesideTwo
    \/ part = "vectors" /\ Vectors!Init /\ BesideVectors
    \/ part = "growth" /\ Growth!Init /\ BesideVectors
    \/ part = "flags" /\ Kinds!Init /\ BesideFlags

MCNext ==
    \/ part = "one" /\ Next /\ UNCHANGED besideOne
    \/ part = "two" /\ Two!Next /\ UNCHANGED besideTwo
    \/ part = "vectors" /\ Vectors!Next /\ UNCHANGED besideVectors
    \/ part = "growth" /\ Growth!Next /\ UNCHANGED besideVectors
    \/ part = "flags" /\ Kinds!Next /\ UNCHANGED besideFlags
    \/ part \in {"one", "two"} /\ UNCHANGED mcvars  \* may stop

MCSpec == MCInit /\ [][MCNext]_mcvars

-----------------------------------------------------------------------------
(* Properties *)

\* The vectors and the flags have their types: no two GPUFlags own the same
\* allocation, and queued kernels point into allocations. The elements in use
\* lie inside the allocated memory of a vector, as assert(n < m_size) in
\* operator[] takes for granted, through any sequence of growth, shrinking,
\* swapping and copying. The memory of a vector is at most one step of
\* RESIZE_FACTOR beyond the largest size ever asked for.
StoragesRight ==
    /\ part = "vectors" => Vectors!TypeOK /\ Vectors!Fits
    /\ part = "growth" => Growth!TypeOK /\ Growth!Fits /\ Growth!Amortised
    /\ part = "flags" => Kinds!TypeOK

\* Assignment and swap of mirrored arrays are assignment and swap of the
\* logical arrays: no copy in flight or stale location shows. The vectors
\* behave as sequences: the storage, its slack and what a reallocation leaves
\* in it cannot be seen. Every readFlags() returns what the last launch or
\* resetFlags() of that object asked for, with kernels that run late and
\* resets, reads and swaps between them.
OthersImplement ==
    /\ part = "two" => Two!Logical!Init
    /\ part = "flags" => Kinds!Register!Init
    /\ part = "vectors" => Vectors!Store_!Init
    /\ part = "growth" => Growth!Store_!Init
    /\ [][/\ part = "two" => Two!Logical!Next \/ UNCHANGED Two!Logical!vars
          /\ part = "flags" => Kinds!Register!Next \/ UNCHANGED Kinds!Register!vars
          /\ part = "vectors" => Vectors!Store_!Next \/ UNCHANGED Vectors!Sequences
          /\ part = "growth" => Growth!Store_!Next \/ UNCHANGED Growth!Sequences]_mcvars
=============================================================================
