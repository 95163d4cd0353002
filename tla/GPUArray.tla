------------------------------ MODULE GPUArray ------------------------------
(***************************************************************************)
(* libhoomd/data_structures/GPUArray.h: an array mirrored in host and      *)
(* device memory.  A client reaches the data only through a handle         *)
(* (ArrayHandle, ArrayHandleAsync); aquire() tracks which of the copies is *)
(* current and copies between them only when it must.                      *)
(*                                                                         *)
(* Each member of Arrays is one C++ object (or the variable that holds     *)
(* it); its fields carry the names of the source.  Two fields stand for    *)
(* work in the CUDA stream on the object's memory that has not finished:   *)
(*   pend    an asynchronous copy enqueued by aquire(async = true)         *)
(*   kernel  element writes of kernels running on mapped host memory       *)
(* The stream runs in order, so device memory is described by what a       *)
(* kernel launched now would find in it; only effects on memory that the   *)
(* host sees are delayed.                                                  *)
(***************************************************************************)
EXTENDS Integers

CONSTANTS
    Arrays,       \* the GPUArray objects
    Values,       \* the element values
    Zero,         \* the value memset(0) leaves
    NoWrite,      \* "this kernel does not write the element"
    MaxElements,  \* bound: allocated elements of one array
    Sizes1D,      \* arguments of the 1-D constructor and of resize(n)
    Sizes2D,      \* arguments <<width, height>> of the 2-D ones
    Align,        \* row alignment in elements (16 in the code)
    CUDAEnabled,  \* exec_conf->isCUDAEnabled()
    ClientSyncs   \* clients wait for the device before they overwrite
                  \* or resize mapped memory that a kernel may be writing

ASSUME GPUArrayAssumption ==
    /\ Zero \in Values
    /\ NoWrite \notin Values
    /\ MaxElements \in Nat
    /\ Align \in Nat \ {0}
    /\ Sizes1D \subseteq 0 .. MaxElements
    /\ Sizes2D \subseteq Nat \X Nat
    /\ CUDAEnabled \in BOOLEAN
    /\ ClientSyncs \in BOOLEAN

VARIABLES
    arr,   \* arr[a]: the members of GPUArray object a
    hdl    \* hdl[a]: the live handle on a, or NoHandle

vars == <<arr, hdl>>

Idx == 0 .. (MaxElements - 1)
Contents == [Idx -> Values]
Blank == [i \in Idx |-> Zero]
NoKernel == [i \in Idx |-> NoWrite]

Object == [m_num_elements : 0 .. MaxElements, m_pitch : Nat, m_height : Nat,
           m_acquired : BOOLEAN,
           m_data_location : {"host", "device", "hostdevice"},
           m_mapped : BOOLEAN, m_exec_conf : BOOLEAN,
           h_data : Contents, d_data : Contents,
           pend : {"none", "toHost", "toDevice"},
           kernel : [Idx -> Values \cup {NoWrite}]]

NoHandle == [location |-> "none", mode |-> "none", async |-> FALSE,
             todo |-> {}]

\* todo: the elements an overwrite handle has not written yet.  The client of
\* an overwrite handle writes every element before it releases the handle and
\* reads none that it has not written.
Handle == [location : {"host", "device"},
           mode : {"read", "readwrite", "overwrite"},
           async : BOOLEAN, todo : SUBSET Idx] \cup {NoHandle}

TypeOK == /\ arr \in [Arrays -> Object]
          /\ hdl \in [Arrays -> Handle]

-----------------------------------------------------------------------------
(* Construction.                                                           *)

\* GPUArray(): the NULL array.  A NULL host pointer is m_num_elements = 0.
NullArray ==
    [m_num_elements |-> 0, m_pitch |-> 0, m_height |-> 0,
     m_acquired |-> FALSE, m_data_location |-> "host",
     m_mapped |-> FALSE, m_exec_conf |-> FALSE,
     h_data |-> Blank, d_data |-> Blank, pend |-> "none", kernel |-> NoKernel]

isNull(o) == o.m_num_elements = 0
OnGPU(o) == o.m_exec_conf /\ CUDAEnabled

\* The pitch computation shared by the 2-D constructors and resize(w, h).
Pitch(width) == width + (Align - (width % Align))

\* An allocated and cleared array attached to the execution configuration.
Allocated(n, pitch, height, mapped) ==
    [NullArray EXCEPT !.m_num_elements = n, !.m_pitch = pitch,
                      !.m_height = height, !.m_mapped = mapped,
                      !.m_exec_conf = TRUE]

\* ~GPUArray() of the old object followed by a constructor.  Only classes
\* that run on the GPU ask for mapped memory.
Replace(a, o) == /\ ~arr[a].m_acquired
                 /\ arr' = [arr EXCEPT ![a] = o]
                 /\ UNCHANGED hdl

ConstructNull(a) == Replace(a, NullArray)

Construct1D(a, n, mapped) ==
    /\ mapped => CUDAEnabled
    /\ Replace(a, Allocated(n, n, 1, mapped))

Construct2D(a, w, ht, mapped) ==
    /\ mapped => CUDAEnabled
    /\ Pitch(w) * ht \in 0 .. MaxElements
    /\ Replace(a, Allocated(Pitch(w) * ht, Pitch(w), ht, mapped))

-----------------------------------------------------------------------------
(* Copies between host and device.                                         *)

\* The outcome of the kernels still running on mapped memory.
Drained(o) == [i \in Idx |-> IF o.kernel[i] = NoWrite THEN o.h_data[i]
                                                      ELSE o.kernel[i]]

\* Mutation: the copy never waits for kernels on mapped memory.
memcpyDeviceToHostNoWait(o, async) ==
    IF o.m_mapped THEN o
    ELSE IF async THEN [o EXCEPT !.pend = "toHost"]
         ELSE [o EXCEPT !.h_data = o.d_data]

memcpyDeviceToHost(o, async) ==
    IF o.m_mapped
    THEN IF async THEN o
         ELSE [o EXCEPT !.h_data = Drained(o), !.kernel = NoKernel]
    ELSE IF async THEN [o EXCEPT !.pend = "toHost"]
         ELSE [o EXCEPT !.h_data = o.d_data]

memcpyHostToDevice(o, async) ==
    IF o.m_mapped THEN o
    ELSE IF async THEN [o EXCEPT !.pend = "toDevice"]
         ELSE [o EXCEPT !.d_data = o.h_data]

\* Where the data is after an access at `location`.
LocationAfter(o, location, mode) ==
    IF mode = "read" /\ o.m_data_location # location
    THEN "hostdevice" ELSE location

\* aquire(): a copy is made when the data is current only on the other side
\* and the client will read it.
aquire(o, location, mode, async) ==
    LET taken == [o EXCEPT !.m_acquired = TRUE]
        other == IF location = "host" THEN "device" ELSE "host"
        copied == IF o.m_data_location = other /\ mode # "overwrite"
                  THEN IF location = "host"
                       THEN memcpyDeviceToHost(taken, async)
                       ELSE memcpyHostToDevice(taken, async)
                  ELSE taken
    IN  IF isNull(o) THEN taken
        ELSE [copied EXCEPT !.m_data_location =
                  LocationAfter(o, location, mode)]

-----------------------------------------------------------------------------
(* Handles.                                                                *)

\* Constructing an ArrayHandle (async = FALSE) or an ArrayHandleAsync.
Acquire(a, location, mode, async) ==
    LET o == arr[a] IN
    /\ ~o.m_acquired
    /\ location = "device" => isNull(o) \/ OnGPU(o)
    /\ async => CUDAEnabled
    /\ ClientSyncs /\ location = "host" /\ mode = "overwrite"
          => o.kernel = NoKernel
    /\ arr' = [arr EXCEPT ![a] = aquire(o, location, mode, async)]
    /\ hdl' = [hdl EXCEPT ![a] =
                  [location |-> location, mode |-> mode, async |-> async,
                   todo |-> IF mode = "overwrite"
                            THEN 0 .. (o.m_num_elements - 1) ELSE {}]]

\* aquire() on the device without a GPU: m_acquired is already set when it
\* throws, and no handle exists that would reset it.
AcquireThrows(a) ==
    LET o == arr[a] IN
    /\ ~o.m_acquired
    /\ ~isNull(o) /\ ~OnGPU(o)
    /\ arr' = [arr EXCEPT ![a].m_acquired = TRUE]
    /\ UNCHANGED hdl

\* The client of an asynchronous handle waits for the copy (and, for a host
\* handle on mapped memory, for running kernels) before it uses the data or
\* destroys the handle.  A synchronous handle promises data without a wait.
Ready(a) ==
    hdl[a].async => /\ arr[a].pend = "none"
                    /\ hdl[a].location = "host" => arr[a].kernel = NoKernel

HostWrite(a, i, v) ==
    /\ hdl[a].location = "host" /\ hdl[a].mode # "read"
    /\ i < arr[a].m_num_elements
    /\ Ready(a)
    /\ arr' = [arr EXCEPT ![a].h_data[i] = v]
    /\ hdl' = [hdl EXCEPT ![a].todo = @ \ {i}]

\* A kernel writes an element.  Stream order puts it after a pending copy.
KernelWrite(a, i, v) ==
    LET o == arr[a] IN
    /\ hdl[a].location = "device" /\ hdl[a].mode # "read"
    /\ i < o.m_num_elements
    /\ o.pend = "none"
    /\ arr' = [arr EXCEPT ![a] = IF o.m_mapped THEN [o EXCEPT !.kernel[i] = v]
                                               ELSE [o EXCEPT !.d_data[i] = v]]
    /\ hdl' = [hdl EXCEPT ![a].todo = @ \ {i}]

\* ~ArrayHandle(), ~ArrayHandleAsync().
Release(a) ==
    /\ hdl[a] # NoHandle /\ hdl[a].todo = {}
    /\ Ready(a)
    /\ arr' = [arr EXCEPT ![a].m_acquired = FALSE]
    /\ hdl' = [hdl EXCEPT ![a] = NoHandle]

\* The stream finishes an asynchronous copy.
CopyCompletes(a) ==
    LET o == arr[a] IN
    /\ o.pend # "none"
    /\ arr' = [arr EXCEPT ![a] =
                  IF o.pend = "toHost"
                  THEN [o EXCEPT !.h_data = o.d_data, !.pend = "none"]
                  ELSE [o EXCEPT !.d_data = o.h_data, !.pend = "none"]]
    /\ UNCHANGED hdl

\* Kernels running on mapped memory finish.
KernelCompletes(a) ==
    LET o == arr[a] IN
    /\ o.kernel # NoKernel
    /\ arr' = [arr EXCEPT ![a] = [o EXCEPT !.h_data = Drained(o),
                                           !.kernel = NoKernel]]
    /\ UNCHANGED hdl

-----------------------------------------------------------------------------
(* Whole-array operations.                                                 *)

\* The source of a copy is read through a host handle, then released.
ReadByHost(o) == IF isNull(o) THEN o
                 ELSE [aquire(o, "host", "read", FALSE)
                          EXCEPT !.m_acquired = FALSE]

\* Copy constructor and operator=: fresh memory, the data on the host.
Copied(from) ==
    [NullArray EXCEPT !.m_num_elements = from.m_num_elements,
                      !.m_pitch = from.m_pitch, !.m_height = from.m_height,
                      !.m_mapped = from.m_mapped,
                      !.m_exec_conf = from.m_exec_conf,
                      !.h_data = from.h_data]

Assign(a, b) ==
    /\ a # b
    /\ ~arr[a].m_acquired /\ ~arr[b].m_acquired
    /\ arr' = [arr EXCEPT ![b] = ReadByHost(arr[b]),
                          ![a] = Copied(ReadByHost(arr[b]))]
    /\ UNCHANGED hdl

Swap(a, b) ==
    /\ a # b
    /\ ~arr[a].m_acquired /\ ~arr[b].m_acquired
    /\ arr' = [arr EXCEPT ![a] = arr[b], ![b] = arr[a]]
    /\ UNCHANGED hdl

MinOf(x, y) == IF x < y THEN x ELSE y

\* resizeHostArray, resizeDeviceArray: cleared memory, old prefix copied.
Resized(c, n, newN) ==
    [i \in Idx |-> IF i < MinOf(n, newN) THEN c[i] ELSE Zero]

\* Mutation: a flat copy that ignores the change of pitch.
Resized2DFlat(c, pitch, newPitch, height, newHeight) ==
    Resized(c, pitch * height, newPitch * newHeight)

\* resize2DHostArray, resize2DDeviceArray: row by row to the new pitch.
Resized2D(c, pitch, newPitch, height, newHeight) ==
    [i \in Idx |->
        LET row == i \div newPitch
            col == i % newPitch
            old == row * pitch + col
        IN  IF row < MinOf(height, newHeight) /\ col < MinOf(pitch, newPitch)
            THEN c[old] ELSE Zero]

\* Memory that is allocated and not cleared, for n elements.
Uninitialised(n) == {c \in Contents : \A i \in Idx : i >= n => c[i] = Zero}

\* The client resizes an array with the dimensions it allocated it with, and
\* a 1-D array is a 2-D array of one row.
MayResize(a) ==
    /\ ~arr[a].m_acquired
    /\ ClientSyncs => arr[a].kernel = NoKernel

\* A NULL array is only allocated: resize() does not clear it.
AllocateNull(o, n, ch, cd) ==
    [o EXCEPT !.m_num_elements = n, !.h_data = ch,
              !.d_data = IF OnGPU(o) /\ ~o.m_mapped THEN cd ELSE @]

\* New memory on both sides.  Freeing the old memory waits for the device.
Reallocated(o, ch, cd, n, pitch, height) ==
    [o EXCEPT !.h_data = ch,
              !.d_data = IF OnGPU(o) /\ ~o.m_mapped THEN cd ELSE @,
              !.kernel = NoKernel,
              !.m_num_elements = n, !.m_pitch = pitch, !.m_height = height]

Resize1D(a, n) ==
    LET o == arr[a]
        move(c) == Resized(c, o.m_num_elements, n)
    IN  /\ n > 0
        /\ MayResize(a) /\ o.m_height \in {0, 1}
        /\ IF isNull(o)
           THEN \E ch, cd \in Uninitialised(n) :
                   arr' = [arr EXCEPT ![a] = AllocateNull(o, n, ch, cd)]
           ELSE arr' = [arr EXCEPT ![a] =
                          Reallocated(o, move(o.h_data), move(o.d_data),
                                      n, n, o.m_height)]
        /\ UNCHANGED hdl

Resize2D(a, w, ht) ==
    LET o == arr[a]
        pitch == Pitch(w)
        n == pitch * ht
        move(c) == Resized2D(c, o.m_pitch, pitch, o.m_height, ht)
    IN  /\ n \in 1 .. MaxElements
        /\ MayResize(a) /\ o.m_num_elements = o.m_pitch * o.m_height
        /\ IF isNull(o)
           THEN \E ch, cd \in Uninitialised(n) :
                   arr' = [arr EXCEPT ![a] =
                              [AllocateNull(o, n, ch, cd)
                                  EXCEPT !.m_pitch = pitch, !.m_height = ht]]
           ELSE arr' = [arr EXCEPT ![a] =
                          Reallocated(o, move(o.h_data), move(o.d_data),
                                      n, pitch, ht)]
        /\ UNCHANGED hdl

-----------------------------------------------------------------------------
Init == /\ arr = [a \in Arrays |-> NullArray]
        /\ hdl = [a \in Arrays |-> NoHandle]

Lifetime(a) ==
    \/ ConstructNull(a)
    \/ \E n \in Sizes1D, m \in BOOLEAN : Construct1D(a, n, m)
    \/ \E s \in Sizes2D, m \in BOOLEAN : Construct2D(a, s[1], s[2], m)
    \/ \E n \in Sizes1D : Resize1D(a, n)
    \/ \E s \in Sizes2D : Resize2D(a, s[1], s[2])

Access(a) ==
    \/ \E location \in {"host", "device"},
          mode \in {"read", "readwrite", "overwrite"}, async \in BOOLEAN :
             Acquire(a, location, mode, async)
    \/ AcquireThrows(a)
    \/ \E i \in Idx, v \in Values : HostWrite(a, i, v) \/ KernelWrite(a, i, v)
    \/ Release(a)

Next ==
    \/ \E a \in Arrays : Lifetime(a) \/ Access(a)
                         \/ CopyCompletes(a) \/ KernelCompletes(a)
    \/ \E a, b \in Arrays : Assign(a, b) \/ Swap(a, b)

Spec == Init /\ [][Next]_vars

-----------------------------------------------------------------------------
(* Properties.                                                             *)

\* The contents of the array as its clients understand it.
View(o) == IF o.m_mapped THEN Drained(o)
           ELSE IF o.pend = "toHost" THEN o.d_data
           ELSE IF o.pend = "toDevice" THEN o.h_data
           ELSE IF o.m_data_location = "device" THEN o.d_data ELSE o.h_data

\* The memory behind the pointer of the live handle.
Pointer(a) == IF hdl[a].location = "host" THEN arr[a].h_data
              ELSE IF arr[a].m_mapped THEN Drained(arr[a]) ELSE arr[a].d_data

\* A handle whose client may use it shows the contents of the array at every
\* element it has not been asked to overwrite: aquire() made every copy and
\* waited for every kernel it had to.
HandleShowsContents ==
    \A a \in Arrays : hdl[a] # NoHandle /\ Ready(a) =>
        \A i \in Idx \ hdl[a].todo : Pointer(a)[i] = View(arr[a])[i]

\* m_data_location tells the truth: hostdevice means two equal copies, a copy
\* or a kernel is in flight only where a handle or the location accounts for
\* it, and only an array with memory on a GPU is ever away from the host.
LocationIsTrue ==
    \A a \in Arrays : LET o == arr[a] IN
        /\ o.m_data_location # "host" => ~isNull(o) /\ OnGPU(o)
        /\ o.m_data_location = "hostdevice" /\ ~o.m_mapped /\ o.pend = "none"
              => o.h_data = o.d_data
        /\ o.pend # "none" => hdl[a].async /\ ~o.m_mapped
        /\ o.kernel # NoKernel =>
              /\ o.m_mapped
              /\ \/ o.m_data_location = "device"
                 \/ hdl[a].async /\ hdl[a].location = "host"

\* The two copies of an array are kept coherent: the location is true, and every
\* handle shows the contents.
Coherent == TypeOK /\ LocationIsTrue /\ HandleShowsContents

\* Host and device memory together implement a single logical array.
Logical == INSTANCE LogicalArray WITH
    val <- [a \in Arrays |-> View(arr[a])],
    shape <- [a \in Arrays |-> [n |-> arr[a].m_num_elements,
                                pitch |-> arr[a].m_pitch,
                                height |-> arr[a].m_height]],
    open <- [a \in Arrays |-> [mode |-> hdl[a].mode, todo |-> hdl[a].todo]]

\* Every step of the mirrored array is a step of the single logical array, or
\* changes nothing a client can see.
ImplementsLogicalArray == Logical!Spec
=============================================================================
