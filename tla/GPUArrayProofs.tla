--------------------------- MODULE GPUArrayProofs ---------------------------
(***************************************************************************)
(* The mirrored array is coherent, and implements an array of values, for  *)
(* every set of arrays, values and sizes.  The inductive invariant speaks  *)
(* of one object and its handle at a time, so each action is judged on the *)
(* object it changes.                                                      *)
(***************************************************************************)
EXTENDS GPUArray, TLAPS

\* What is in flight is accounted for by the live handle.
InFlight(o, k) ==
    /\ o.pend = "toHost" =>
          /\ ~o.m_mapped /\ k.async /\ k.location = "host" /\ k.todo = {}
          /\ o.m_data_location # "device"
    /\ o.pend = "toDevice" =>
          /\ ~o.m_mapped /\ k.async /\ k.location = "device" /\ k.todo = {}
          /\ o.m_data_location # "host"
    /\ o.kernel # NoKernel =>
          /\ o.m_mapped
          /\ \/ o.m_data_location = "device"
             \/ k.async /\ k.location = "host"

\* m_data_location includes the side the handle is on, and only that side
\* once the handle may write.
AtHandle(o, k) ==
    /\ k # NoHandle => o.m_acquired
    /\ k.location = "host" =>
          /\ o.m_data_location # "device"
          /\ k.mode # "read" => o.m_data_location = "host"
    /\ k.location = "device" /\ ~isNull(o) =>
          /\ o.m_data_location # "host"
          /\ k.mode # "read" => o.m_data_location = "device"

\* Two copies agree, and memory beyond the allocation is never touched.
Agree(o, k) ==
    /\ o.m_data_location # "host" => ~isNull(o) /\ OnGPU(o)
    /\ o.m_data_location = "hostdevice" /\ ~o.m_mapped /\ o.pend = "none"
          => o.h_data = o.d_data
    /\ \A i \in Idx : i >= o.m_num_elements =>
          o.h_data[i] = Zero /\ o.d_data[i] = Zero /\ o.kernel[i] = NoWrite
    /\ ~OnGPU(o) \/ o.m_mapped => o.d_data = Blank
    /\ k.todo \subseteq 0 .. (o.m_num_elements - 1)

ObjectInv(o, k) == InFlight(o, k) /\ AtHandle(o, k) /\ Agree(o, k)

IInv == TypeOK /\ \A a \in Arrays : ObjectInv(arr[a], hdl[a])

-----------------------------------------------------------------------------
LEMMA BlankType == Blank \in Contents /\ NoKernel \in [Idx -> Values \cup {NoWrite}]
  BY GPUArrayAssumption DEF Blank, Contents, NoKernel

LEMMA NullArrayType == NullArray \in Object
  BY BlankType, GPUArrayAssumption DEF NullArray, Object

LEMMA NoHandleType == NoHandle \in Handle
  BY DEF Handle

\* Closing the induction: an action that changes one object.
LEMMA OneObject ==
  ASSUME IInv, NEW a \in Arrays, NEW o \in Object, NEW k \in Handle,
         arr' = [arr EXCEPT ![a] = o], hdl' = [hdl EXCEPT ![a] = k],
         ObjectInv(o, k)
  PROVE  IInv'
  <1>1. TypeOK'
    BY DEF IInv, TypeOK
  <1>2. \A b \in Arrays : ObjectInv(arr'[b], hdl'[b])
    BY DEF IInv, TypeOK
  <1> QED
    BY <1>1, <1>2 DEF IInv

LEMMA InitIInv == Init => IInv
  <1> SUFFICES ASSUME Init PROVE IInv
    OBVIOUS
  <1>1. TypeOK
    BY NullArrayType, NoHandleType DEF Init, TypeOK
  <1>2. ObjectInv(NullArray, NoHandle)
    BY GPUArrayAssumption DEF ObjectInv, InFlight, AtHandle, Agree, NullArray, NoHandle,
       isNull, Blank, NoKernel
  <1> QED
    BY <1>1, <1>2 DEF IInv, Init

-----------------------------------------------------------------------------
(* One lemma per operation: the object it leaves behind.                   *)

LEMMA FreshObject ==
  ASSUME NEW n \in 0 .. MaxElements, NEW pitch \in Nat, NEW height \in Nat,
         NEW mapped \in BOOLEAN
  PROVE  /\ Allocated(n, pitch, height, mapped) \in Object
         /\ ObjectInv(Allocated(n, pitch, height, mapped), NoHandle)
         /\ ObjectInv(NullArray, NoHandle)
  <1>1. Allocated(n, pitch, height, mapped) \in Object
    BY NullArrayType, BlankType DEF Allocated, Object, NullArray
  <1>2. ObjectInv(Allocated(n, pitch, height, mapped), NoHandle)
    BY GPUArrayAssumption DEF Allocated, ObjectInv, InFlight, AtHandle, Agree,
       NullArray, NoHandle, isNull, Blank, NoKernel
  <1>3. ObjectInv(NullArray, NoHandle)
    BY GPUArrayAssumption DEF ObjectInv, InFlight, AtHandle, Agree,
       NullArray, NoHandle, isNull, Blank, NoKernel
  <1> QED
    BY <1>1, <1>2, <1>3

LEMMA DrainedType ==
  ASSUME NEW o \in Object
  PROVE  /\ Drained(o) \in Contents
         /\ o.kernel = NoKernel => Drained(o) = o.h_data
  BY DEF Drained, Contents, Object, NoKernel

LEMMA AquireObject ==
  ASSUME NEW o \in Object, ObjectInv(o, NoHandle), ~o.m_acquired,
         NEW location \in {"host", "device"},
         NEW mode \in {"read", "readwrite", "overwrite"}, NEW async \in BOOLEAN,
         location = "device" => isNull(o) \/ OnGPU(o),
         location = "host" /\ mode = "overwrite" => o.kernel = NoKernel,
         NEW k, k = [location |-> location, mode |-> mode, async |-> async,
                     todo |-> IF mode = "overwrite"
                              THEN 0 .. (o.m_num_elements - 1) ELSE {}]
  PROVE  /\ aquire(o, location, mode, async) \in Object
         /\ ObjectInv(aquire(o, location, mode, async), k)
         /\ k \in Handle
  <1> DEFINE new == aquire(o, location, mode, async)
  <1>1. k \in Handle
    <2>1. 0 .. (o.m_num_elements - 1) \in SUBSET Idx
      BY GPUArrayAssumption DEF Object, Idx
    <2> QED
      BY <2>1 DEF Handle
  <1>2. new \in Object
    BY DrainedType, BlankType, GPUArrayAssumption
    DEF aquire, memcpyDeviceToHost, memcpyHostToDevice, LocationAfter, Object,
        isNull
  <1>3. InFlight(new, k)
    BY DEF ObjectInv, InFlight, AtHandle, Agree, NoHandle, aquire,
       memcpyDeviceToHost, memcpyHostToDevice, LocationAfter, Object, isNull
  <1>4. AtHandle(new, k)
    BY DEF ObjectInv, InFlight, AtHandle, Agree, NoHandle, aquire,
       memcpyDeviceToHost, memcpyHostToDevice, LocationAfter, Object, isNull
  <1>5. Agree(new, k)
    BY DEF ObjectInv, InFlight, AtHandle, Agree, NoHandle, aquire,
       memcpyDeviceToHost, memcpyHostToDevice, LocationAfter, Object, isNull,
       OnGPU, Drained, NoKernel, Idx
  <1> QED
    BY <1>1, <1>2, <1>3, <1>4, <1>5 DEF ObjectInv

\* The client of a handle writes an element, on either side.
LEMMA HostWriteObject ==
  ASSUME NEW o \in Object, NEW k \in Handle, ObjectInv(o, k),
         k.location = "host", k.mode # "read",
         NEW i \in Idx, i < o.m_num_elements, NEW v \in Values,
         k.async => o.pend = "none" /\ o.kernel = NoKernel
  PROVE  LET new == [o EXCEPT !.h_data[i] = v]
             knew == [k EXCEPT !.todo = @ \ {i}]
         IN  new \in Object /\ knew \in Handle /\ ObjectInv(new, knew)
  <1> DEFINE new == [o EXCEPT !.h_data[i] = v]
             knew == [k EXCEPT !.todo = @ \ {i}]
  <1>1. new \in Object
    BY DEF Object, Contents
  <1>2. knew \in Handle /\ knew # NoHandle
    BY DEF Handle, NoHandle
  <1>3. InFlight(new, knew)
    BY DEF ObjectInv, InFlight, Object, Handle, NoHandle
  <1>4. AtHandle(new, knew)
    BY <1>2 DEF ObjectInv, AtHandle, Object, Handle, NoHandle, isNull
  <1>5. Agree(new, knew)
    BY DEF ObjectInv, InFlight, AtHandle, Agree, Object, Handle, NoHandle,
       isNull, OnGPU, Contents, Idx
  <1> QED
    BY <1>1, <1>2, <1>3, <1>4, <1>5 DEF ObjectInv

LEMMA KernelWriteObject ==
  ASSUME NEW o \in Object, NEW k \in Handle, ObjectInv(o, k),
         k.location = "device", k.mode # "read", o.pend = "none",
         NEW i \in Idx, i < o.m_num_elements, NEW v \in Values
  PROVE  LET new == IF o.m_mapped THEN [o EXCEPT !.kernel[i] = v]
                                  ELSE [o EXCEPT !.d_data[i] = v]
             knew == [k EXCEPT !.todo = @ \ {i}]
         IN  new \in Object /\ knew \in Handle /\ ObjectInv(new, knew)
  <1> DEFINE new == IF o.m_mapped THEN [o EXCEPT !.kernel[i] = v]
                                  ELSE [o EXCEPT !.d_data[i] = v]
             knew == [k EXCEPT !.todo = @ \ {i}]
  <1>1. new \in Object
    BY DEF Object, Contents
  <1>2. knew \in Handle /\ knew # NoHandle
    BY DEF Handle, NoHandle
  <1>3. InFlight(new, knew)
    <2>1. ~isNull(o) /\ o.m_data_location = "device"
      BY GPUArrayAssumption DEF ObjectInv, AtHandle, isNull, Idx, Object
    <2> QED
      BY <2>1 DEF ObjectInv, InFlight, Object, Handle, NoHandle
  <1>4. AtHandle(new, knew)
    BY <1>2 DEF ObjectInv, AtHandle, Object, Handle, NoHandle, isNull
  <1>5. Agree(new, knew)
    BY DEF ObjectInv, InFlight, AtHandle, Agree, Object, Handle, NoHandle,
       isNull, OnGPU, Contents, Idx
  <1> QED
    BY <1>1, <1>2, <1>3, <1>4, <1>5 DEF ObjectInv

LEMMA ReleaseObject ==
  ASSUME NEW o \in Object, NEW k \in Handle, ObjectInv(o, k), k # NoHandle,
         k.async => /\ o.pend = "none"
                    /\ k.location = "host" => o.kernel = NoKernel
  PROVE  LET new == [o EXCEPT !.m_acquired = FALSE]
         IN  new \in Object /\ ObjectInv(new, NoHandle)
  BY DEF ObjectInv, InFlight, AtHandle, Agree, Object, Handle, NoHandle,
     isNull, OnGPU

LEMMA CompletedObject ==
  ASSUME NEW o \in Object, NEW k \in Handle, ObjectInv(o, k)
  PROVE  /\ o.pend # "none" =>
              LET new == IF o.pend = "toHost"
                         THEN [o EXCEPT !.h_data = o.d_data, !.pend = "none"]
                         ELSE [o EXCEPT !.d_data = o.h_data, !.pend = "none"]
              IN  new \in Object /\ ObjectInv(new, k)
         /\ LET new == [o EXCEPT !.h_data = Drained(o), !.kernel = NoKernel]
            IN  o.kernel # NoKernel => new \in Object /\ ObjectInv(new, k)
  <1>1. ASSUME o.pend # "none"
        PROVE  LET new == IF o.pend = "toHost"
                          THEN [o EXCEPT !.h_data = o.d_data, !.pend = "none"]
                          ELSE [o EXCEPT !.d_data = o.h_data, !.pend = "none"]
               IN  new \in Object /\ ObjectInv(new, k)
    BY <1>1 DEF ObjectInv, InFlight, AtHandle, Agree, Object, isNull, OnGPU
  <1> DEFINE new == [o EXCEPT !.h_data = Drained(o), !.kernel = NoKernel]
  <1>2. ASSUME o.kernel # NoKernel
        PROVE  new \in Object /\ ObjectInv(new, k)
    <2>1. new \in Object
      BY DrainedType, BlankType DEF Object
    <2>2. InFlight(new, k) /\ AtHandle(new, k)
      BY <1>2 DEF ObjectInv, InFlight, AtHandle, Object, isNull
    <2>3. Agree(new, k)
      BY <1>2 DEF ObjectInv, InFlight, Agree, Object, isNull, OnGPU, Drained,
         NoKernel
    <2> QED
      BY <2>1, <2>2, <2>3 DEF ObjectInv
  <1> QED
    BY <1>1, <1>2

\* Reading the source of a copy leaves it coherent and current on the host.
LEMMA ReadByHostObject ==
  ASSUME NEW o \in Object, ObjectInv(o, NoHandle), ~o.m_acquired
  PROVE  /\ ReadByHost(o) \in Object
         /\ ObjectInv(ReadByHost(o), NoHandle)
         /\ ~ReadByHost(o).m_acquired
         /\ ReadByHost(o).m_data_location # "device"
         /\ ReadByHost(o).kernel = NoKernel
  <1>1. CASE isNull(o)
    BY <1>1 DEF ReadByHost, ObjectInv, Agree, InFlight, NoHandle
  <1>2. CASE ~isNull(o)
    <2> DEFINE q == aquire(o, "host", "read", FALSE)
               k == [location |-> "host", mode |-> "read", async |-> FALSE,
                     todo |-> IF "read" = "overwrite"
                              THEN 0 .. (o.m_num_elements - 1) ELSE {}]
    <2>1. q \in Object /\ ObjectInv(q, k) /\ k \in Handle
      BY AquireObject
    <2>2. k # NoHandle
      BY DEF NoHandle
    <2>3. [q EXCEPT !.m_acquired = FALSE] \in Object
          /\ ObjectInv([q EXCEPT !.m_acquired = FALSE], NoHandle)
      BY <2>1, <2>2, ReleaseObject
    <2>4. q.m_data_location # "device" /\ q.kernel = NoKernel
      BY <2>1 DEF ObjectInv, AtHandle, InFlight
    <2> QED
      BY <1>2, <2>1, <2>3, <2>4 DEF ReadByHost, Object
  <1> QED
    BY <1>1, <1>2

LEMMA CopiedObject ==
  ASSUME NEW o \in Object, ObjectInv(o, NoHandle)
  PROVE  Copied(o) \in Object /\ ObjectInv(Copied(o), NoHandle)
  <1>1. Copied(o) \in Object
    BY NullArrayType, BlankType DEF Copied, NullArray, Object
  <1>2. ObjectInv(Copied(o), NoHandle)
    BY DEF Copied, NullArray, Object, ObjectInv, InFlight, AtHandle, Agree,
       NoHandle, isNull, Blank, NoKernel
  <1> QED
    BY <1>1, <1>2

LEMMA AllocateNullObject ==
  ASSUME NEW o \in Object, ObjectInv(o, NoHandle), isNull(o),
         NEW n \in 1 .. MaxElements,
         NEW ch \in Uninitialised(n), NEW cd \in Uninitialised(n),
         NEW pitch \in Nat, NEW height \in Nat
  PROVE  LET new == AllocateNull(o, n, ch, cd)
             new2 == [new EXCEPT !.m_pitch = pitch, !.m_height = height]
         IN  /\ new \in Object /\ ObjectInv(new, NoHandle)
             /\ new2 \in Object /\ ObjectInv(new2, NoHandle)
  <1> DEFINE new == AllocateNull(o, n, ch, cd)
             new2 == [new EXCEPT !.m_pitch = pitch, !.m_height = height]
  <1>1. /\ ch \in Contents /\ cd \in Contents
        /\ \A i \in Idx : i >= n => ch[i] = Zero /\ cd[i] = Zero
    BY DEF Uninitialised
  <1>2. new \in Object
    <2>1. n \in 0 .. MaxElements
      BY GPUArrayAssumption
    <2> QED
      BY <1>1, <2>1 DEF Object, AllocateNull
  <1>3. /\ o.m_data_location = "host"
        /\ \A i \in Idx : o.kernel[i] = NoWrite
        /\ o.kernel = NoKernel
        /\ o.pend = "none"
    BY GPUArrayAssumption
    DEF ObjectInv, InFlight, Agree, NoHandle, isNull, NoKernel, Object, Idx
  <1>4. ObjectInv(new, NoHandle)
    BY <1>1, <1>3 DEF AllocateNull, Object, ObjectInv, InFlight, AtHandle,
       Agree, NoHandle, isNull, NoKernel, OnGPU, Blank
  <1>5. new2 \in Object
    BY <1>2 DEF Object
  <1>6. ObjectInv(new2, NoHandle)
    BY <1>2, <1>4 DEF Object, ObjectInv, InFlight, AtHandle, Agree, isNull,
       OnGPU
  <1> QED
    BY <1>2, <1>4, <1>5, <1>6

\* Both copies go through the same reallocation, so copies that agreed agree.
LEMMA ReallocatedObject ==
  ASSUME NEW o \in Object, ObjectInv(o, NoHandle), ~isNull(o),
         o.kernel = NoKernel,
         NEW n \in 1 .. MaxElements, NEW pitch \in Nat, NEW height \in Nat,
         NEW ch \in Contents, NEW cd \in Contents,
         \A i \in Idx : i >= n => ch[i] = Zero /\ cd[i] = Zero,
         o.h_data = o.d_data => ch = cd
  PROVE  LET new == Reallocated(o, ch, cd, n, pitch, height)
         IN  new \in Object /\ ObjectInv(new, NoHandle)
  <1> DEFINE new == Reallocated(o, ch, cd, n, pitch, height)
  <1>1. new \in Object
    <2>1. n \in 0 .. MaxElements
      BY GPUArrayAssumption
    <2> QED
      BY BlankType, <2>1 DEF Object, Reallocated
  <1>2. InFlight(new, NoHandle)
    BY DEF ObjectInv, InFlight, Object, NoHandle, Reallocated
  <1>3. AtHandle(new, NoHandle)
    BY DEF AtHandle, NoHandle
  <1>4. Agree(new, NoHandle)
    BY DEF ObjectInv, InFlight, Agree, Object, NoHandle, isNull, OnGPU, Blank,
       NoKernel, Reallocated
  <1> QED
    BY <1>1, <1>2, <1>3, <1>4 DEF ObjectInv

-----------------------------------------------------------------------------
LEMMA ResizedType ==
  ASSUME NEW c \in Contents, NEW n \in Nat, NEW m \in Nat
  PROVE  /\ Resized(c, n, m) \in Contents
         /\ \A i \in Idx : i >= m => Resized(c, n, m)[i] = Zero
  BY GPUArrayAssumption DEF Resized, Contents, MinOf, Idx

LEMMA MultMonotone ==
  ASSUME NEW x \in Nat, NEW y \in Nat, NEW z \in Nat, x <= y
  PROVE  x * z <= y * z
  OBVIOUS

LEMMA DivMod ==
  ASSUME NEW i \in Nat, NEW p \in Nat \ {0}
  PROVE  /\ i \div p \in Nat
         /\ i % p \in Nat
         /\ i < ((i \div p) + 1) * p
  <1>1. i \div p \in Nat
    OBVIOUS
  <1>2. i % p \in Nat
    OBVIOUS
  <1>3. i < ((i \div p) + 1) * p
    OBVIOUS
  <1> QED
    BY <1>1, <1>2, <1>3

LEMMA Resized2DType ==
  ASSUME NEW c \in Contents, NEW pitch \in Nat, NEW p \in Nat \ {0},
         NEW height \in Nat, NEW h \in Nat,
         NEW m \in Nat, m = pitch * height, m <= MaxElements,
         NEW n \in Nat, n = p * h
  PROVE  /\ Resized2D(c, pitch, p, height, h) \in Contents
         /\ \A i \in Idx : i >= n =>
               Resized2D(c, pitch, p, height, h)[i] = Zero
  <1>1. ASSUME NEW i \in Idx,
               i \div p < MinOf(height, h), i % p < MinOf(pitch, p)
        PROVE  (i \div p) * pitch + (i % p) \in Idx
    <2> DEFINE q == i \div p
               r == i % p
    <2>0. i \in Nat
      BY GPUArrayAssumption DEF Idx
    <2>a. q \in Nat /\ r \in Nat
      BY <2>0, DivMod
    <2>b. q < MinOf(height, h) /\ r < MinOf(pitch, p)
      BY <1>1
    <2> HIDE DEF q, r
    <2>1. q \in Nat /\ r \in Nat /\ q + 1 <= height /\ r < pitch
      BY <2>a, <2>b DEF MinOf
    <2>2. (q + 1) * pitch <= height * pitch
      BY <2>1, MultMonotone
    <2>3. (q + 1) * pitch = q * pitch + pitch /\ q * pitch \in Nat
      BY <2>1
    <2>4. height * pitch = pitch * height
      OBVIOUS
    <2>5. q * pitch + r \in Idx
      BY <2>1, <2>2, <2>3, <2>4, GPUArrayAssumption DEF Idx
    <2> QED
      BY <2>5 DEF q, r
  <1>2. ASSUME NEW i \in Idx, i >= n
        PROVE  ~(i \div p < MinOf(height, h))
    <2> DEFINE q == i \div p
    <2>0. i \in Nat
      BY GPUArrayAssumption DEF Idx
    <2>1. i < (q + 1) * p /\ q \in Nat
      BY <2>0, DivMod
    <2> HIDE DEF q
    <2>2. ASSUME q < h PROVE FALSE
      <3>1. (q + 1) * p <= h * p
        BY <2>1, <2>2, MultMonotone
      <3>2. h * p = p * h
        OBVIOUS
      <3> QED
        BY <1>2, <2>1, <3>1, <3>2 DEF Idx
    <2> QED
      BY <2>1, <2>2 DEF MinOf, q
  <1> QED
    BY <1>1, <1>2, GPUArrayAssumption DEF Resized2D, Contents

LEMMA PitchType ==
  ASSUME NEW w \in Nat
  PROVE  Pitch(w) \in Nat \ {0}
  <1>1. w % Align \in 0 .. (Align - 1)
    BY GPUArrayAssumption
  <1> QED
    BY <1>1, GPUArrayAssumption DEF Pitch

-----------------------------------------------------------------------------
LEMMA Released ==
  ASSUME IInv, NEW a \in Arrays, ~arr[a].m_acquired
  PROVE  hdl[a] = NoHandle
  BY DEF IInv, ObjectInv, AtHandle

LEMMA LifetimeStep ==
  ASSUME IInv, ClientSyncs, NEW a \in Arrays, Lifetime(a)
  PROVE  IInv'
  <1> DEFINE o == arr[a]
  <1>1. /\ o \in Object /\ hdl[a] \in Handle /\ hdl = [hdl EXCEPT ![a] = hdl[a]]
        /\ ObjectInv(o, hdl[a])
    BY DEF IInv, TypeOK
  <1>2. ASSUME NEW new \in Object, ObjectInv(new, NoHandle), Replace(a, new)
        PROVE  IInv'
    BY <1>1, <1>2, Released, OneObject DEF Replace
  <1>3. CASE ConstructNull(a)
    BY <1>2, <1>3, NullArrayType, FreshObject, GPUArrayAssumption
    DEF ConstructNull
  <1>4. ASSUME NEW n \in Sizes1D, NEW m \in BOOLEAN, Construct1D(a, n, m)
        PROVE  IInv'
    <2>1. n \in 0 .. MaxElements /\ n \in Nat
      BY GPUArrayAssumption
    <2> QED
      BY <1>2, <1>4, <2>1, FreshObject DEF Construct1D
  <1>5. ASSUME NEW s \in Sizes2D, NEW m \in BOOLEAN,
               Construct2D(a, s[1], s[2], m)
        PROVE  IInv'
    <2>1. s[1] \in Nat /\ s[2] \in Nat
      BY GPUArrayAssumption
    <2>2. Pitch(s[1]) \in Nat
      BY <2>1, PitchType
    <2> QED
      BY <1>2, <1>5, <2>1, <2>2, FreshObject DEF Construct2D
  <1>6. ASSUME NEW n \in Sizes1D, Resize1D(a, n)
        PROVE  IInv'
    <2>1. n \in 1 .. MaxElements /\ n \in Nat /\ ~o.m_acquired
          /\ o.kernel = NoKernel
      BY <1>6, GPUArrayAssumption DEF Resize1D, MayResize
    <2>2. hdl[a] = NoHandle /\ hdl' = [hdl EXCEPT ![a] = NoHandle]
      BY <1>1, <1>6, <2>1, Released DEF Resize1D
    <2>3. CASE isNull(o)
      <3>1. PICK ch \in Uninitialised(n), cd \in Uninitialised(n) :
               arr' = [arr EXCEPT ![a] = AllocateNull(o, n, ch, cd)]
        BY <1>6, <2>3 DEF Resize1D
      <3>2. AllocateNull(o, n, ch, cd) \in Object
            /\ ObjectInv(AllocateNull(o, n, ch, cd), NoHandle)
        BY <1>1, <2>1, <2>2, <2>3, AllocateNullObject
      <3> QED
        BY <2>2, <3>1, <3>2, OneObject, NoHandleType
    <2>4. CASE ~isNull(o)
      <3> DEFINE ch == Resized(o.h_data, o.m_num_elements, n)
                 cd == Resized(o.d_data, o.m_num_elements, n)
                 new == Reallocated(o, ch, cd, n, n, o.m_height)
      <3>1. arr' = [arr EXCEPT ![a] = new]
        BY <1>1, <1>6, <2>4 DEF Resize1D, Object
      <3>2. o.m_num_elements \in Nat /\ o.m_height \in Nat
            /\ o.h_data \in Contents /\ o.d_data \in Contents
        BY <1>1, GPUArrayAssumption DEF Object
      <3>3. ch \in Contents /\ cd \in Contents
            /\ \A i \in Idx : i >= n => ch[i] = Zero /\ cd[i] = Zero
        BY <2>1, <3>2, ResizedType
      <3>4. o.h_data = o.d_data => ch = cd
        OBVIOUS
      <3>5. ObjectInv(o, NoHandle)
        BY <1>1, <2>2
      <3> HIDE DEF ch, cd, o
      <3>6. new \in Object /\ ObjectInv(new, NoHandle)
        BY <1>1, <2>1, <2>4, <3>2, <3>3, <3>4, <3>5, ReallocatedObject
      <3> QED
        BY <2>2, <3>1, <3>6, OneObject, NoHandleType
    <2> QED
      BY <2>3, <2>4
  <1>7. ASSUME NEW s \in Sizes2D, Resize2D(a, s[1], s[2])
        PROVE  IInv'
    <2> DEFINE p == Pitch(s[1])
               h == s[2]
               n == p * h
    <2>1. p \in Nat \ {0} /\ h \in Nat /\ s[1] \in Nat
      BY GPUArrayAssumption, PitchType
    <2>2. n \in 1 .. MaxElements /\ ~o.m_acquired /\ o.kernel = NoKernel
          /\ o.m_num_elements = o.m_pitch * o.m_height
      BY <1>7 DEF Resize2D, MayResize
    <2>3. hdl[a] = NoHandle /\ hdl' = [hdl EXCEPT ![a] = NoHandle]
      BY <1>1, <1>7, <2>2, Released DEF Resize2D
    <2>4. CASE isNull(o)
      <3>1. PICK ch \in Uninitialised(n), cd \in Uninitialised(n) :
               arr' = [arr EXCEPT ![a] =
                          [AllocateNull(o, n, ch, cd)
                              EXCEPT !.m_pitch = p, !.m_height = h]]
        BY <1>7, <2>4 DEF Resize2D
      <3> DEFINE new == [AllocateNull(o, n, ch, cd)
                            EXCEPT !.m_pitch = p, !.m_height = h]
      <3>2. new \in Object /\ ObjectInv(new, NoHandle)
        BY <1>1, <2>1, <2>2, <2>3, <2>4, AllocateNullObject
      <3> QED
        BY <2>3, <3>1, <3>2, OneObject, NoHandleType
    <2>5. CASE ~isNull(o)
      <3> DEFINE ch == Resized2D(o.h_data, o.m_pitch, p, o.m_height, h)
                 cd == Resized2D(o.d_data, o.m_pitch, p, o.m_height, h)
                 new == Reallocated(o, ch, cd, n, p, h)
      <3>1. arr' = [arr EXCEPT ![a] = new]
        BY <1>7, <2>5 DEF Resize2D
      <3>2. o.m_pitch \in Nat /\ o.m_height \in Nat
            /\ o.m_pitch * o.m_height <= MaxElements
            /\ o.h_data \in Contents /\ o.d_data \in Contents
        BY <1>1, <2>2, GPUArrayAssumption DEF Object
      <3>a. ASSUME NEW c \in Contents
            PROVE  /\ Resized2D(c, o.m_pitch, p, o.m_height, h) \in Contents
                   /\ \A i \in Idx : i >= n =>
                         Resized2D(c, o.m_pitch, p, o.m_height, h)[i] = Zero
        <4>1. o.m_pitch \in Nat /\ o.m_height \in Nat
              /\ o.m_num_elements \in Nat
              /\ o.m_num_elements = o.m_pitch * o.m_height
              /\ o.m_num_elements <= MaxElements
              /\ n \in Nat /\ n = p * h
          BY <1>1, <2>1, <2>2, <3>2, GPUArrayAssumption DEF Object
        <4> DEFINE op == o.m_pitch
                   oh == o.m_height
                   om == o.m_num_elements
        <4>2. p \in Nat \ {0} /\ h \in Nat
          BY <2>1
        <4>3. op \in Nat /\ oh \in Nat /\ om \in Nat /\ om = op * oh
              /\ om <= MaxElements /\ n \in Nat /\ n = p * h
          BY <4>1
        <4> HIDE DEF p, h, n, op, oh, om
        <4>4. /\ Resized2D(c, op, p, oh, h) \in Contents
              /\ \A i \in Idx : i >= n => Resized2D(c, op, p, oh, h)[i] = Zero
          BY <4>2, <4>3, Resized2DType
        <4> QED
          BY <4>4 DEF op, oh
      <3>3. ch \in Contents /\ \A i \in Idx : i >= n => ch[i] = Zero
        BY <3>2, <3>a
      <3>4. cd \in Contents /\ \A i \in Idx : i >= n => cd[i] = Zero
        BY <3>2, <3>a
      <3>5. o.h_data = o.d_data => ch = cd
        OBVIOUS
      <3>6. ObjectInv(o, NoHandle)
        BY <1>1, <2>3
      <3> HIDE DEF ch, cd, o, n, p, h
      <3>7. new \in Object /\ ObjectInv(new, NoHandle)
        BY <1>1, <2>1, <2>2, <2>5, <3>3, <3>4, <3>5, <3>6, ReallocatedObject
      <3> QED
        BY <2>3, <3>1, <3>7, OneObject, NoHandleType
    <2> QED
      BY <2>4, <2>5
  <1> QED
    BY <1>3, <1>4, <1>5, <1>6, <1>7 DEF Lifetime

LEMMA AccessStep ==
  ASSUME IInv, ClientSyncs, NEW a \in Arrays, Access(a)
  PROVE  IInv'
  <1> DEFINE o == arr[a]
             k == hdl[a]
  <1>1. /\ o \in Object /\ k \in Handle /\ ObjectInv(o, k)
        /\ arr \in [Arrays -> Object] /\ hdl \in [Arrays -> Handle]
    BY DEF IInv, TypeOK
  <1>2. ASSUME NEW location \in {"host", "device"},
               NEW mode \in {"read", "readwrite", "overwrite"},
               NEW async \in BOOLEAN, Acquire(a, location, mode, async)
        PROVE  IInv'
    <2> DEFINE new == aquire(o, location, mode, async)
               knew == [location |-> location, mode |-> mode, async |-> async,
                        todo |-> IF mode = "overwrite"
                                 THEN 0 .. (o.m_num_elements - 1) ELSE {}]
    <2>1. /\ ~o.m_acquired
          /\ location = "device" => isNull(o) \/ OnGPU(o)
          /\ location = "host" /\ mode = "overwrite" => o.kernel = NoKernel
          /\ arr' = [arr EXCEPT ![a] = new]
          /\ hdl' = [hdl EXCEPT ![a] = knew]
      BY <1>2 DEF Acquire
    <2>2. k = NoHandle
      BY <2>1, Released
    <2>3. new \in Object /\ ObjectInv(new, knew) /\ knew \in Handle
      BY <1>1, <2>1, <2>2, AquireObject
    <2> QED
      BY <2>1, <2>3, OneObject
  <1>3. CASE AcquireThrows(a)
    <2> DEFINE new == [o EXCEPT !.m_acquired = TRUE]
    <2>1. arr' = [arr EXCEPT ![a] = new] /\ hdl' = [hdl EXCEPT ![a] = k]
      BY <1>1, <1>3 DEF AcquireThrows
    <2>2. new \in Object /\ ObjectInv(new, k)
      BY <1>1 DEF Object, ObjectInv, InFlight, AtHandle, Agree, isNull, OnGPU
    <2> QED
      BY <1>1, <2>1, <2>2, OneObject
  <1>4. ASSUME NEW i \in Idx, NEW v \in Values, HostWrite(a, i, v)
        PROVE  IInv'
    <2> DEFINE new == [o EXCEPT !.h_data[i] = v]
               knew == [k EXCEPT !.todo = @ \ {i}]
    <2>1. /\ arr' = [arr EXCEPT ![a] = new] /\ hdl' = [hdl EXCEPT ![a] = knew]
          /\ k.location = "host" /\ k.mode # "read" /\ i < o.m_num_elements
          /\ k.async => o.pend = "none" /\ o.kernel = NoKernel
      BY <1>4 DEF HostWrite, Ready
    <2>2. new \in Object /\ knew \in Handle /\ ObjectInv(new, knew)
      BY <1>1, <2>1, HostWriteObject
    <2> QED
      BY <2>1, <2>2, OneObject
  <1>5. ASSUME NEW i \in Idx, NEW v \in Values, KernelWrite(a, i, v)
        PROVE  IInv'
    <2> DEFINE new == IF o.m_mapped THEN [o EXCEPT !.kernel[i] = v]
                                    ELSE [o EXCEPT !.d_data[i] = v]
               knew == [k EXCEPT !.todo = @ \ {i}]
    <2>1. /\ arr' = [arr EXCEPT ![a] = new] /\ hdl' = [hdl EXCEPT ![a] = knew]
          /\ k.location = "device" /\ k.mode # "read" /\ o.pend = "none"
          /\ i < o.m_num_elements
      BY <1>5 DEF KernelWrite
    <2>2. new \in Object /\ knew \in Handle /\ ObjectInv(new, knew)
      BY <1>1, <2>1, KernelWriteObject
    <2> QED
      BY <2>1, <2>2, OneObject
  <1>6. CASE Release(a)
    <2> DEFINE new == [o EXCEPT !.m_acquired = FALSE]
    <2>1. /\ arr' = [arr EXCEPT ![a] = new]
          /\ hdl' = [hdl EXCEPT ![a] = NoHandle]
          /\ k # NoHandle
          /\ k.async => /\ o.pend = "none"
                        /\ k.location = "host" => o.kernel = NoKernel
      BY <1>6 DEF Release, Ready
    <2>2. new \in Object /\ ObjectInv(new, NoHandle)
      BY <1>1, <2>1, ReleaseObject
    <2> QED
      BY <2>1, <2>2, OneObject, NoHandleType
  <1> QED
    BY <1>2, <1>3, <1>4, <1>5, <1>6 DEF Access

LEMMA StreamStep ==
  ASSUME IInv, NEW a \in Arrays, CopyCompletes(a) \/ KernelCompletes(a)
  PROVE  IInv'
  <1> DEFINE o == arr[a]
             k == hdl[a]
  <1>1. /\ o \in Object /\ k \in Handle /\ ObjectInv(o, k)
        /\ hdl = [hdl EXCEPT ![a] = k]
    BY DEF IInv, TypeOK
  <1>2. CASE CopyCompletes(a)
    <2> DEFINE new == IF o.pend = "toHost"
                      THEN [o EXCEPT !.h_data = o.d_data, !.pend = "none"]
                      ELSE [o EXCEPT !.d_data = o.h_data, !.pend = "none"]
    <2>1. arr' = [arr EXCEPT ![a] = new] /\ hdl' = hdl /\ o.pend # "none"
      BY <1>2 DEF CopyCompletes
    <2>2. new \in Object /\ ObjectInv(new, k)
      BY <1>1, <2>1, CompletedObject
    <2> QED
      BY <1>1, <2>1, <2>2, OneObject
  <1>3. CASE KernelCompletes(a)
    <2> DEFINE new == [o EXCEPT !.h_data = Drained(o), !.kernel = NoKernel]
    <2>1. arr' = [arr EXCEPT ![a] = new] /\ hdl' = hdl /\ o.kernel # NoKernel
      BY <1>3 DEF KernelCompletes
    <2>2. new \in Object /\ ObjectInv(new, k)
      BY <1>1, <2>1, CompletedObject
    <2> QED
      BY <1>1, <2>1, <2>2, OneObject
  <1> QED
    BY <1>2, <1>3

LEMMA PairStep ==
  ASSUME IInv, NEW a \in Arrays, NEW b \in Arrays, Assign(a, b) \/ Swap(a, b)
  PROVE  IInv'
  <1>1. /\ arr[a] \in Object /\ arr[b] \in Object /\ a # b
        /\ ~arr[a].m_acquired /\ ~arr[b].m_acquired
        /\ hdl[a] = NoHandle /\ hdl[b] = NoHandle /\ hdl' = hdl
        /\ ObjectInv(arr[a], NoHandle) /\ ObjectInv(arr[b], NoHandle)
    BY Released DEF IInv, TypeOK, Assign, Swap
  <1>2. ASSUME NEW x \in Object, NEW y \in Object,
               ObjectInv(x, NoHandle), ObjectInv(y, NoHandle),
               \A c \in Arrays : arr'[c] = IF c = a THEN x
                                           ELSE IF c = b THEN y ELSE arr[c],
               arr' \in [Arrays -> Object]
        PROVE  IInv'
    BY <1>1, <1>2 DEF IInv, TypeOK
  <1>3. CASE Assign(a, b)
    <2> DEFINE y == ReadByHost(arr[b])
               x == Copied(y)
    <2>1. y \in Object /\ ObjectInv(y, NoHandle)
      BY <1>1, ReadByHostObject
    <2>2. x \in Object /\ ObjectInv(x, NoHandle)
      BY <2>1, CopiedObject
    <2>3. arr' = [arr EXCEPT ![b] = y, ![a] = x]
      BY <1>3 DEF Assign
    <2> HIDE DEF x, y
    <2> QED
      BY <1>1, <1>2, <2>1, <2>2, <2>3 DEF IInv, TypeOK
  <1>4. CASE Swap(a, b)
    BY <1>1, <1>2, <1>4 DEF Swap, IInv, TypeOK
  <1> QED
    BY <1>3, <1>4

LEMMA NextIInv ==
  ASSUME ClientSyncs, IInv, [Next]_vars
  PROVE  IInv'
  <1>1. CASE UNCHANGED vars
    BY <1>1 DEF vars, IInv, TypeOK
  <1>2. CASE Next
    BY <1>2, LifetimeStep, AccessStep, StreamStep, PairStep DEF Next
  <1> QED
    BY <1>1, <1>2

\* aquire(), the handles and the whole-array operations keep every object
\* well formed, for any number of arrays, elements and values.
THEOREM TypeCorrect == ASSUME ClientSyncs PROVE Spec => []TypeOK
  <1>1. IInv => TypeOK
    BY DEF IInv
  <1> QED
    BY <1>1, InitIInv, NextIInv, PTL DEF Spec

\* m_data_location never lies about where the current data is.
THEOREM LocationCorrect == ASSUME ClientSyncs PROVE Spec => []LocationIsTrue
  <1>1. IInv => LocationIsTrue
    BY DEF IInv, ObjectInv, InFlight, Agree, LocationIsTrue, TypeOK, Object
  <1> QED
    BY <1>1, InitIInv, NextIInv, PTL DEF Spec

\* Through any handle the client may use, host or device, synchronous or
\* not, the array's current contents are seen.
THEOREM Coherence == ASSUME ClientSyncs PROVE Spec => []HandleShowsContents
  <1>1. ASSUME NEW o \in Object, NEW k \in Handle, ObjectInv(o, k),
               k # NoHandle,
               k.async => /\ o.pend = "none"
                          /\ k.location = "host" => o.kernel = NoKernel
        PROVE  LET p == IF k.location = "host" THEN o.h_data
                        ELSE IF o.m_mapped THEN Drained(o) ELSE o.d_data
               IN  \A i \in Idx : p[i] = View(o)[i]
    <2>1. o.pend = "none"
      BY <1>1 DEF ObjectInv, InFlight, Object
    <2>2. CASE k.location = "host"
      <3>1. o.kernel = NoKernel
        BY <1>1, <2>2 DEF ObjectInv, InFlight, AtHandle
      <3>2. Drained(o) = o.h_data
        BY <3>1, DrainedType
      <3> QED
        BY <1>1, <2>1, <2>2, <3>2 DEF View, ObjectInv, AtHandle
    <2>3. CASE k.location = "device" /\ ~isNull(o)
      BY <1>1, <2>1, <2>3 DEF View, ObjectInv, AtHandle, Agree, Object
    <2>4. CASE k.location = "device" /\ isNull(o)
      BY <1>1, <2>1, <2>4, GPUArrayAssumption
      DEF View, ObjectInv, Agree, isNull, Idx, Object
    <2> QED
      BY <1>1, <2>2, <2>3, <2>4 DEF Handle
  <1>2. IInv => HandleShowsContents
    BY <1>1 DEF IInv, TypeOK, HandleShowsContents, Ready, Pointer
  <1> QED
    BY <1>2, InitIInv, NextIInv, PTL DEF Spec

\* The handles are right whatever copies and kernels are pending, for any
\* number of arrays that are copied, swapped and resized.
THEOREM ArraysCoherent == ASSUME ClientSyncs PROVE Spec => []Coherent
  <1>1. TypeOK /\ LocationIsTrue /\ HandleShowsContents => Coherent
    BY DEF Coherent
  <1> QED
    BY <1>1, TypeCorrect, LocationCorrect, Coherence, PTL

-----------------------------------------------------------------------------
(* GPUArray implements LogicalArray: the invariant gives for each operation *)
(* what becomes of the contents (View) of an object, and the steps follow   *)
(* from that.                                                               *)

LEMMA ViewType ==
  ASSUME NEW o \in Object
  PROVE  View(o) \in Contents
  BY DrainedType DEF View, Object

\* An array nobody uses shows its host copy, or the device's if only that is
\* current.
LEMMA IdleView ==
  ASSUME NEW o \in Object, ObjectInv(o, NoHandle)
  PROVE  /\ o.pend = "none"
         /\ o.m_mapped => View(o) = Drained(o)
         /\ ~o.m_mapped => View(o) = IF o.m_data_location = "device"
                                     THEN o.d_data ELSE o.h_data
         /\ o.kernel = NoKernel /\ o.m_data_location # "device"
               => View(o) = o.h_data
  <1>1. o.pend = "none"
    BY DEF ObjectInv, InFlight, NoHandle, Object
  <1> QED
    BY <1>1, DrainedType DEF View

-----------------------------------------------------------------------------
(* What the operations do to the contents.                                 *)

\* Nothing but the elements to be overwritten changes when a handle is made.
LEMMA AquireView ==
  ASSUME NEW o \in Object, ObjectInv(o, NoHandle),
         NEW location \in {"host", "device"},
         NEW mode \in {"read", "readwrite", "overwrite"}, NEW async \in BOOLEAN,
         location = "host" /\ mode = "overwrite" => o.kernel = NoKernel
  PROVE  \A i \in Idx : mode # "overwrite" \/ i >= o.m_num_elements
            => View(aquire(o, location, mode, async))[i] = View(o)[i]
  <1> DEFINE new == aquire(o, location, mode, async)
  <1>1. o.pend = "none"
    BY IdleView
  <1>2. CASE isNull(o)
    BY <1>2 DEF aquire, View, Object, Drained
  <1>3. CASE ~isNull(o) /\ o.m_mapped
    <2>1. Drained(new) = Drained(o) /\ new.m_mapped
      BY <1>3 DEF aquire, memcpyDeviceToHost, memcpyHostToDevice, Object,
         Drained, NoKernel
    <2> QED
      BY <1>3, <2>1 DEF View
  <1>4. CASE ~isNull(o) /\ ~o.m_mapped
    <2>1. CASE mode # "overwrite"
      BY <1>1, <1>4, <2>1 DEF aquire, memcpyDeviceToHost, memcpyHostToDevice,
         LocationAfter, Object, View, ObjectInv, Agree
    <2>2. CASE mode = "overwrite"
      <3>1. /\ ~new.m_mapped /\ new.pend = "none"
            /\ new.h_data = o.h_data /\ new.d_data = o.d_data
        BY <1>1, <1>4, <2>2 DEF aquire, LocationAfter, Object
      <3> QED
        BY <1>1, <1>4, <2>2, <3>1 DEF View, ObjectInv, Agree
    <2> QED
      BY <2>1, <2>2
  <1> QED
    BY <1>2, <1>3, <1>4

LEMMA HostWriteView ==
  ASSUME NEW o \in Object, NEW k \in Handle, ObjectInv(o, k),
         k.location = "host", k.mode # "read",
         NEW i \in Idx, NEW v \in Values,
         k.async => o.pend = "none" /\ o.kernel = NoKernel
  PROVE  LET new == [o EXCEPT !.h_data[i] = v]
         IN  View(new) = [View(o) EXCEPT ![i] = v]
  <1> DEFINE new == [o EXCEPT !.h_data[i] = v]
  <1>1. o.pend = "none" /\ o.kernel = NoKernel /\ o.m_data_location = "host"
    BY DEF ObjectInv, InFlight, AtHandle, Object
  <1>2. new \in Object /\ new.kernel = NoKernel /\ new.pend = "none"
        /\ new.m_data_location = "host" /\ new.h_data = [o.h_data EXCEPT ![i] = v]
    BY <1>1 DEF Object, Contents
  <1> QED
    BY <1>1, <1>2, DrainedType DEF View

LEMMA KernelWriteView ==
  ASSUME NEW o \in Object, NEW k \in Handle, ObjectInv(o, k),
         k.location = "device", k.mode # "read", o.pend = "none",
         NEW i \in Idx, i < o.m_num_elements, NEW v \in Values
  PROVE  LET new == IF o.m_mapped THEN [o EXCEPT !.kernel[i] = v]
                                  ELSE [o EXCEPT !.d_data[i] = v]
         IN  View(new) = [View(o) EXCEPT ![i] = v]
  <1>1. ~isNull(o) /\ o.m_data_location = "device"
    BY GPUArrayAssumption DEF ObjectInv, AtHandle, isNull, Idx, Object
  <1>2. CASE o.m_mapped
    <2> DEFINE new == [o EXCEPT !.kernel[i] = v]
    <2>1. Drained(new) = [Drained(o) EXCEPT ![i] = v]
      BY GPUArrayAssumption DEF Drained, Object
    <2> QED
      BY <1>2, <2>1 DEF View, Object
  <1>3. CASE ~o.m_mapped
    BY <1>1, <1>3 DEF View, Object
  <1> QED
    BY <1>2, <1>3

\* The end of a copy or of kernels changes nothing a client sees.
LEMMA CompletedView ==
  ASSUME NEW o \in Object, NEW k \in Handle, ObjectInv(o, k)
  PROVE  /\ o.pend # "none" =>
              View(IF o.pend = "toHost"
                   THEN [o EXCEPT !.h_data = o.d_data, !.pend = "none"]
                   ELSE [o EXCEPT !.d_data = o.h_data, !.pend = "none"]) = View(o)
         /\ o.kernel # NoKernel =>
              View([o EXCEPT !.h_data = Drained(o), !.kernel = NoKernel]) = View(o)
  <1>1. ASSUME o.pend # "none"
        PROVE  View(IF o.pend = "toHost"
                    THEN [o EXCEPT !.h_data = o.d_data, !.pend = "none"]
                    ELSE [o EXCEPT !.d_data = o.h_data, !.pend = "none"]) = View(o)
    BY <1>1 DEF ObjectInv, InFlight, View, Object
  <1> DEFINE new == [o EXCEPT !.h_data = Drained(o), !.kernel = NoKernel]
  <1>2. ASSUME o.kernel # NoKernel
        PROVE  View(new) = View(o)
    <2>1. o.m_mapped /\ new.m_mapped /\ Drained(new) = Drained(o)
      BY <1>2 DEF ObjectInv, InFlight, Drained, NoKernel, Object
    <2> HIDE DEF new
    <2> QED
      BY <2>1 DEF View
  <1> QED
    BY <1>1, <1>2

LEMMA FreshView ==
  ASSUME NEW n \in 0 .. MaxElements, NEW pitch \in Nat, NEW height \in Nat,
         NEW mapped \in BOOLEAN
  PROVE  View(Allocated(n, pitch, height, mapped)) = Blank /\ View(NullArray) = Blank
  BY DEF View, Allocated, NullArray, Drained, NoKernel, Blank

\* A copy shows what its source shows.
LEMMA CopiedView ==
  ASSUME NEW o \in Object, ObjectInv(o, NoHandle), ~o.m_acquired
  PROVE  View(ReadByHost(o)) = View(o) /\ View(Copied(ReadByHost(o))) = View(o)
  <1> DEFINE y == ReadByHost(o)
  <1>1. y \in Object /\ ObjectInv(y, NoHandle) /\ y.m_data_location # "device" /\ y.kernel = NoKernel
    BY ReadByHostObject
  <1>2. View(y) = y.h_data
    BY <1>1, IdleView
  <1>3. View(y) = View(o)
    <2>1. CASE isNull(o)
      BY <2>1 DEF ReadByHost
    <2>2. CASE ~isNull(o)
      <3> DEFINE q == aquire(o, "host", "read", FALSE)
      <3>1. q \in Object /\ View(q) \in Contents /\ View(o) \in Contents
        BY AquireObject, ViewType
      <3>2. \A i \in Idx : View(q)[i] = View(o)[i]
        BY AquireView
      <3>3. View(q) = View(o)
        <4> DEFINE u == View(q)
                   w == View(o)
        <4>1. u \in Contents /\ w \in Contents /\ \A i \in Idx : u[i] = w[i]
          BY <3>1, <3>2
        <4> HIDE DEF u, w
        <4>2. u = w
          BY <4>1 DEF Contents
        <4> QED
          BY <4>2 DEF u, w
      <3>4. View([q EXCEPT !.m_acquired = FALSE]) = View(q)
        BY <3>1 DEF View, Drained, Object
      <3> QED
        BY <2>2, <3>3, <3>4 DEF ReadByHost
    <2> QED
      BY <2>1, <2>2
  <1>4. View(Copied(y)) = y.h_data
    <2>1. Copied(y) \in Object /\ ObjectInv(Copied(y), NoHandle)
      BY <1>1, CopiedObject
    <2>2. Copied(y).kernel = NoKernel /\ Copied(y).m_data_location = "host" /\ Copied(y).h_data = y.h_data
      BY DEF Copied, NullArray
    <2> QED
      BY <2>1, <2>2, IdleView
  <1> QED
    BY <1>2, <1>3, <1>4

LEMMA AllocateNullView ==
  ASSUME NEW o \in Object, ObjectInv(o, NoHandle), isNull(o),
         NEW n \in 1 .. MaxElements,
         NEW ch \in Uninitialised(n), NEW cd \in Uninitialised(n)
  PROVE  View(AllocateNull(o, n, ch, cd)) = ch
  <1>1. o.m_data_location = "host" /\ o.pend = "none"
    BY IdleView DEF ObjectInv, Agree, Object
  <1>2. \A i \in Idx : o.kernel[i] = NoWrite
    BY GPUArrayAssumption DEF ObjectInv, Agree, isNull, Object, Idx
  <1>3. ch \in Contents
    BY DEF Uninitialised
  <1> QED
    BY <1>1, <1>2, <1>3 DEF AllocateNull, View, Drained, Object, Contents

\* The contents do not depend on how the array is cut into rows.
LEMMA RowsView ==
  ASSUME NEW o \in Object, NEW pitch \in Nat, NEW height \in Nat
  PROVE  View([o EXCEPT !.m_pitch = pitch, !.m_height = height]) = View(o)
  BY DEF View, Drained, Object

\* Reallocation shows the moved copy of whichever side was current.
LEMMA ReallocatedView ==
  ASSUME NEW o \in Object, ObjectInv(o, NoHandle), o.kernel = NoKernel,
         NEW n \in 1 .. MaxElements, NEW pitch \in Nat, NEW height \in Nat,
         NEW ch \in Contents, NEW cd \in Contents
  PROVE  \/ View(o) = o.h_data /\ View(Reallocated(o, ch, cd, n, pitch, height)) = ch
         \/ View(o) = o.d_data /\ View(Reallocated(o, ch, cd, n, pitch, height)) = cd
  <1> DEFINE new == Reallocated(o, ch, cd, n, pitch, height)
  <1>1. /\ o.pend = "none" /\ new.pend = "none" /\ new.m_mapped = o.m_mapped
        /\ new.m_data_location = o.m_data_location
        /\ new.h_data = ch /\ new.kernel = NoKernel
    BY IdleView DEF Reallocated, Object
  <1>2. Drained(o) = o.h_data /\ Drained(new) = ch
    BY <1>1, DrainedType DEF Drained, NoKernel, Contents
  <1>3. CASE o.m_mapped \/ o.m_data_location # "device"
    BY <1>1, <1>2, <1>3 DEF View
  <1>4. CASE ~o.m_mapped /\ o.m_data_location = "device"
    <2>1. new.d_data = cd
      BY <1>4 DEF Reallocated, ObjectInv, Agree, Object
    <2> QED
      BY <1>1, <1>4, <2>1 DEF View
  <1> QED
    BY <1>3, <1>4

-----------------------------------------------------------------------------
(* The steps.                                                              *)

\* The logical array as a function of the objects and handles.
ShapeOf(o) == [n |-> o.m_num_elements, pitch |-> o.m_pitch, height |-> o.m_height]
OpenOf(k) == [mode |-> k.mode, todo |-> k.todo]

val == [a \in Arrays |-> View(arr[a])]
shape == [a \in Arrays |-> ShapeOf(arr[a])]
open == [a \in Arrays |-> OpenOf(hdl[a])]

LEMMA AbstractVars ==
  /\ Logical!vars = <<val, shape, open>>
  /\ Logical!vars' = <<val', shape', open'>>
  BY DEF Logical!vars, val, shape, open, ShapeOf, OpenOf

LEMMA Abstraction ==
  ASSUME IInv
  PROVE  /\ val \in [Arrays -> Contents]
         /\ \A a \in Arrays : /\ [shape EXCEPT ![a] = ShapeOf(arr[a])] = shape
                              /\ [open EXCEPT ![a] = OpenOf(hdl[a])] = open
                              /\ [val EXCEPT ![a] = View(arr[a])] = val
         /\ \A a \in Arrays : /\ arr[a] \in Object /\ hdl[a] \in Handle
                              /\ ObjectInv(arr[a], hdl[a])
                              /\ val[a] = View(arr[a]) /\ shape[a] = ShapeOf(arr[a])
                              /\ open[a] = OpenOf(hdl[a])
                              /\ ~arr[a].m_acquired => hdl[a] = NoHandle /\ open[a] = Logical!Closed
  <1>1. \A a \in Arrays : arr[a] \in Object /\ hdl[a] \in Handle /\ ObjectInv(arr[a], hdl[a])
    BY DEF IInv, TypeOK
  <1>3. val \in [Arrays -> Contents]
    BY <1>1, ViewType DEF val
  <1>4. ASSUME NEW a \in Arrays, ~arr[a].m_acquired
        PROVE  hdl[a] = NoHandle /\ OpenOf(hdl[a]) = Logical!Closed
    <2>1. hdl[a] = NoHandle
      BY <1>4, Released
    <2>2. OpenOf(NoHandle) = Logical!Closed
      BY DEF OpenOf, NoHandle, Logical!Closed
    <2> QED
      BY <2>1, <2>2
  <1>5. \A a \in Arrays : /\ [shape EXCEPT ![a] = ShapeOf(arr[a])] = shape
                           /\ [open EXCEPT ![a] = OpenOf(hdl[a])] = open
                           /\ [val EXCEPT ![a] = View(arr[a])] = val
    BY DEF val, shape, open
  <1> QED
    BY <1>1, <1>3, <1>4, <1>5 DEF val, shape, open

LEMMA Effect ==
  ASSUME IInv, NEW a \in Arrays, NEW o \in Object, NEW k \in Handle,
         arr' = [arr EXCEPT ![a] = o], hdl' = [hdl EXCEPT ![a] = k]
  PROVE  /\ val' = [val EXCEPT ![a] = View(o)]
         /\ shape' = [shape EXCEPT ![a] = ShapeOf(o)]
         /\ open' = [open EXCEPT ![a] = OpenOf(k)]
         /\ val' \in [Arrays -> Contents]
         /\ \A b \in Arrays \ {a} : val'[b] = val[b] /\ shape'[b] = shape[b]
         /\ val'[a] = View(o) /\ shape'[a] = ShapeOf(o)
  <1>1. /\ arr \in [Arrays -> Object] /\ hdl \in [Arrays -> Handle]
        /\ \A b \in Arrays : arr'[b] = IF b = a THEN o ELSE arr[b]
        /\ \A b \in Arrays : hdl'[b] = IF b = a THEN k ELSE hdl[b]
    BY DEF IInv, TypeOK
  <1>2. val' = [val EXCEPT ![a] = View(o)]
    BY <1>1 DEF val
  <1>3. shape' = [shape EXCEPT ![a] = ShapeOf(o)]
    BY <1>1 DEF shape
  <1>4. open' = [open EXCEPT ![a] = OpenOf(k)]
    BY <1>1 DEF open
  <1>5. val' \in [Arrays -> Contents]
    BY <1>2, Abstraction, ViewType
  <1> QED
    BY <1>2, <1>3, <1>4, <1>5 DEF val, shape

LEMMA AcquireSimulates ==
  ASSUME IInv, ClientSyncs, NEW a \in Arrays, NEW location \in {"host", "device"},
         NEW mode \in {"read", "readwrite", "overwrite"}, NEW async \in BOOLEAN,
         Acquire(a, location, mode, async)
  PROVE  Logical!Open(a, mode)
  <1> DEFINE o == arr[a]
             new == aquire(o, location, mode, async)
             todo == IF mode = "overwrite" THEN 0 .. (o.m_num_elements - 1) ELSE {}
             k == [location |-> location, mode |-> mode, async |-> async, todo |-> todo]
  <1>1. /\ arr' = [arr EXCEPT ![a] = new] /\ hdl' = [hdl EXCEPT ![a] = k]
        /\ ~o.m_acquired
        /\ location = "device" => isNull(o) \/ OnGPU(o)
        /\ location = "host" /\ mode = "overwrite" => o.kernel = NoKernel
    BY DEF Acquire
  <1>2. o \in Object /\ ObjectInv(o, NoHandle) /\ open[a] = Logical!Closed
    BY <1>1, Abstraction
  <1>3. new \in Object /\ k \in Handle
    BY <1>1, <1>2, AquireObject
  <1>4. ShapeOf(new) = ShapeOf(o)
    BY <1>2 DEF aquire, memcpyDeviceToHost, memcpyHostToDevice, Object, ShapeOf
  <1>5. \A i \in Idx : mode # "overwrite" \/ i >= o.m_num_elements
            => View(new)[i] = View(o)[i]
    BY <1>1, <1>2, AquireView
  <1> HIDE DEF new
  <1>6. Logical!OnlyAt(a)
    BY <1>1, <1>3, Effect DEF Logical!OnlyAt, val, Logical!Contents, Logical!Idx, Contents, Idx
  <1>7. open' = [open EXCEPT ![a] = [mode |-> mode, todo |-> todo]]
    BY <1>1, <1>3, Effect DEF OpenOf
  <1>8. shape' = shape /\ shape[a].n = o.m_num_elements
    <2>1. shape' = [shape EXCEPT ![a] = ShapeOf(new)]
      BY <1>1, <1>3, Effect
    <2>2. shape[a] = ShapeOf(o) /\ [shape EXCEPT ![a] = ShapeOf(o)] = shape
      BY Abstraction
    <2>3. ShapeOf(o).n = o.m_num_elements
      BY DEF ShapeOf
    <2> HIDE DEF o
    <2> QED
      BY <1>4, <2>1, <2>2, <2>3
  <1>9. val'[a] = View(new) /\ val[a] = View(o)
    BY <1>1, <1>3, Effect, Abstraction
  <1> QED
    BY <1>2, <1>5, <1>6, <1>7, <1>8, <1>9
    DEF Logical!Open, val, shape, open, ShapeOf, OpenOf, Logical!Idx, Idx

LEMMA WriteSimulates ==
  ASSUME IInv, NEW a \in Arrays, NEW i \in Idx, NEW v \in Values,
         HostWrite(a, i, v) \/ KernelWrite(a, i, v)
  PROVE  Logical!Write(a)
  <1> DEFINE o == arr[a]
             k == hdl[a]
             knew == [k EXCEPT !.todo = @ \ {i}]
  <1>1. o \in Object /\ k \in Handle /\ ObjectInv(o, k) /\ val[a] = View(o)
        /\ View(o) \in Contents
    BY Abstraction, ViewType
  <1>2. /\ i \in 0 .. (o.m_num_elements - 1)
        /\ k.mode \in {"readwrite", "overwrite"} /\ k # NoHandle
    BY <1>1, GPUArrayAssumption DEF HostWrite, KernelWrite, Handle, NoHandle, Idx, Object
  <1>3. PICK new \in Object : /\ arr' = [arr EXCEPT ![a] = new]
                              /\ View(new) = [View(o) EXCEPT ![i] = v]
                              /\ ShapeOf(new) = ShapeOf(o)
                              /\ knew \in Handle
    <2>1. CASE HostWrite(a, i, v)
      <3> DEFINE new == [o EXCEPT !.h_data[i] = v]
      <3>1. /\ arr' = [arr EXCEPT ![a] = new]
            /\ k.location = "host" /\ k.mode # "read" /\ i < o.m_num_elements
            /\ k.async => o.pend = "none" /\ o.kernel = NoKernel
        BY <2>1 DEF HostWrite, Ready
      <3>2. new \in Object /\ knew \in Handle
        BY <1>1, <3>1, HostWriteObject
      <3>3. View(new) = [View(o) EXCEPT ![i] = v]
        BY <1>1, <3>1, HostWriteView
      <3>4. ShapeOf(new) = ShapeOf(o)
        BY <1>1 DEF ShapeOf, Object
      <3> QED
        BY <3>1, <3>2, <3>3, <3>4
    <2>2. CASE KernelWrite(a, i, v)
      <3> DEFINE new == IF o.m_mapped THEN [o EXCEPT !.kernel[i] = v]
                                      ELSE [o EXCEPT !.d_data[i] = v]
      <3>1. /\ arr' = [arr EXCEPT ![a] = new]
            /\ k.location = "device" /\ k.mode # "read" /\ o.pend = "none"
            /\ i < o.m_num_elements
        BY <2>2 DEF KernelWrite
      <3>2. new \in Object /\ knew \in Handle
        BY <1>1, <3>1, KernelWriteObject
      <3>3. View(new) = [View(o) EXCEPT ![i] = v]
        BY <1>1, <3>1, KernelWriteView
      <3>4. ShapeOf(new) = ShapeOf(o)
        BY <1>1 DEF ShapeOf, Object
      <3> QED
        BY <3>1, <3>2, <3>3, <3>4
    <2> QED
      BY <2>1, <2>2
  <1>4. hdl' = [hdl EXCEPT ![a] = knew]
    BY DEF HostWrite, KernelWrite
  <1>5. o = arr[a] /\ k = hdl[a]
    OBVIOUS
  <1>6. /\ OpenOf(k).mode = k.mode /\ OpenOf(k).todo = k.todo
        /\ OpenOf(knew) = [OpenOf(k) EXCEPT !.todo = @ \ {i}]
    <2>1. knew.mode = k.mode /\ knew.todo = k.todo \ {i}
      BY <1>1 DEF Handle, NoHandle
    <2> QED
      BY <2>1 DEF OpenOf
  <1>7. ShapeOf(o).n = o.m_num_elements
    BY DEF ShapeOf
  <1> HIDE DEF o, k, knew
  <1>8. Logical!OnlyAt(a)
    BY <1>3, <1>4, Effect DEF Logical!OnlyAt, val, Logical!Contents, Logical!Idx, Contents, Idx
  <1>9. open[a] = OpenOf(k) /\ shape[a] = ShapeOf(o)
    BY <1>5, Abstraction
  <1>10. /\ open' = [open EXCEPT ![a] = OpenOf(knew)]
         /\ val'[a] = View(new)
         /\ shape' = [shape EXCEPT ![a] = ShapeOf(new)]
    BY <1>3, <1>4, Effect
  <1>11. shape' = shape
    BY <1>3, <1>5, <1>10, Abstraction
  <1>12. open' = [open EXCEPT ![a].todo = @ \ {i}]
    BY <1>6, <1>9, <1>10
  <1>13. \A j \in Idx : val'[a][j] = IF j = i THEN v ELSE val[a][j]
    BY <1>1, <1>3, <1>10 DEF Contents
  <1>14. open[a].mode \in {"readwrite", "overwrite"} /\ i \in 0 .. (shape[a].n - 1)
    BY <1>2, <1>6, <1>7, <1>9
  <1>15. \E e \in 0 .. (shape[a].n - 1), w \in Values :
            /\ Logical!OnlyAt(a)
            /\ \A j \in Idx : j \notin open[a].todo \ {e}
                  => val'[a][j] = IF j = e THEN w ELSE val[a][j]
            /\ open' = [open EXCEPT ![a].todo = @ \ {e}]
    BY <1>8, <1>12, <1>13, <1>14
  <1> QED
    BY <1>11, <1>14, <1>15
    DEF Logical!Write, val, shape, open, ShapeOf, OpenOf, Logical!Idx, Idx

LEMMA ReleaseSimulates ==
  ASSUME IInv, NEW a \in Arrays, Release(a)
  PROVE  Logical!Close(a)
  <1> DEFINE o == arr[a]
             k == hdl[a]
             new == [o EXCEPT !.m_acquired = FALSE]
  <1>1. /\ o \in Object /\ k \in Handle /\ ObjectInv(o, k)
        /\ arr' = [arr EXCEPT ![a] = new] /\ hdl' = [hdl EXCEPT ![a] = NoHandle]
        /\ k # NoHandle /\ k.todo = {}
        /\ k.async => /\ o.pend = "none"
                      /\ k.location = "host" => o.kernel = NoKernel
    BY Abstraction DEF Release, Ready
  <1>2. new \in Object /\ View(new) = View(o) /\ ShapeOf(new) = ShapeOf(o)
    BY <1>1 DEF Object, View, Drained, ShapeOf
  <1>3. OpenOf(k).todo = {} /\ OpenOf(k) # Logical!Closed
    BY <1>1 DEF OpenOf, Handle, Logical!Closed
  <1>4. OpenOf(NoHandle) = Logical!Closed
    BY DEF OpenOf, NoHandle, Logical!Closed
  <1>5. o = arr[a] /\ k = hdl[a]
    OBVIOUS
  <1> HIDE DEF o, k, new
  <1>6. /\ val' = [val EXCEPT ![a] = View(new)]
        /\ shape' = [shape EXCEPT ![a] = ShapeOf(new)]
        /\ open' = [open EXCEPT ![a] = OpenOf(NoHandle)]
    BY <1>1, <1>2, NoHandleType, Effect
  <1>7. val' = val /\ shape' = shape /\ open[a] = OpenOf(k)
    BY <1>2, <1>5, <1>6, Abstraction
  <1> QED
    BY <1>3, <1>4, <1>6, <1>7 DEF Logical!Close, val, shape, open, ShapeOf, OpenOf

\* A refused acquisition and the end of work in the stream are no steps of
\* the logical array.
LEMMA Stutters ==
  ASSUME IInv, NEW a \in Arrays,
         AcquireThrows(a) \/ CopyCompletes(a) \/ KernelCompletes(a)
  PROVE  UNCHANGED Logical!vars
  <1> DEFINE o == arr[a]
             k == hdl[a]
             taken == [o EXCEPT !.m_acquired = TRUE]
             copied == IF o.pend = "toHost"
                       THEN [o EXCEPT !.h_data = o.d_data, !.pend = "none"]
                       ELSE [o EXCEPT !.d_data = o.h_data, !.pend = "none"]
             drained == [o EXCEPT !.h_data = Drained(o), !.kernel = NoKernel]
  <1>1. o \in Object /\ k \in Handle /\ ObjectInv(o, k)
    BY Abstraction
  <1>2. PICK new \in Object : /\ arr' = [arr EXCEPT ![a] = new]
                              /\ View(new) = View(o) /\ ShapeOf(new) = ShapeOf(o)
    <2>1. CASE AcquireThrows(a)
      <3>1. arr' = [arr EXCEPT ![a] = taken]
        BY <1>1, <2>1 DEF AcquireThrows
      <3>2. taken \in Object /\ View(taken) = View(o) /\ ShapeOf(taken) = ShapeOf(o)
        BY <1>1 DEF Object, View, Drained, ShapeOf
      <3> QED
        BY <3>1, <3>2
    <2>2. CASE CopyCompletes(a)
      <3>1. arr' = [arr EXCEPT ![a] = copied] /\ o.pend # "none"
        BY <2>2 DEF CopyCompletes
      <3>2. copied \in Object /\ View(copied) = View(o)
        BY <1>1, <3>1, CompletedObject, CompletedView
      <3>3. ShapeOf(copied) = ShapeOf(o)
        BY <1>1 DEF Object, ShapeOf
      <3> QED
        BY <3>1, <3>2, <3>3
    <2>3. CASE KernelCompletes(a)
      <3>1. arr' = [arr EXCEPT ![a] = drained] /\ o.kernel # NoKernel
        BY <2>3 DEF KernelCompletes
      <3>2. drained \in Object /\ View(drained) = View(o)
        BY <1>1, <3>1, CompletedObject, CompletedView
      <3>3. ShapeOf(drained) = ShapeOf(o)
        BY <1>1 DEF Object, ShapeOf
      <3> QED
        BY <3>1, <3>2, <3>3
    <2> QED
      BY <2>1, <2>2, <2>3
  <1>3. hdl' = [hdl EXCEPT ![a] = k]
    BY DEF AcquireThrows, CopyCompletes, KernelCompletes, IInv, TypeOK
  <1>4. o = arr[a] /\ k = hdl[a]
    OBVIOUS
  <1> HIDE DEF o, k
  <1>5. /\ val' = [val EXCEPT ![a] = View(new)]
        /\ shape' = [shape EXCEPT ![a] = ShapeOf(new)]
        /\ open' = [open EXCEPT ![a] = OpenOf(k)]
    BY <1>1, <1>2, <1>3, Effect
  <1>6. val' = val /\ shape' = shape /\ open' = open
    BY <1>2, <1>4, <1>5, Abstraction
  <1> QED
    BY <1>6, AbstractVars

\* An object that no handle refers to is replaced by another one.
LEMMA Replaced ==
  ASSUME IInv, NEW a \in Arrays, ~arr[a].m_acquired, NEW o \in Object,
         arr' = [arr EXCEPT ![a] = o], UNCHANGED hdl
  PROVE  /\ open[a] = Logical!Closed /\ open' = open
         /\ val' = [val EXCEPT ![a] = View(o)] /\ val' \in [Arrays -> Contents]
         /\ \A b \in Arrays \ {a} : val'[b] = val[b] /\ shape'[b] = shape[b]
         /\ val'[a] = View(o) /\ shape'[a] = ShapeOf(o)
  <1>1. /\ arr \in [Arrays -> Object]
        /\ \A b \in Arrays : arr'[b] = IF b = a THEN o ELSE arr[b]
    BY DEF IInv, TypeOK
  <1>2. open[a] = Logical!Closed
    BY Abstraction
  <1>3. open' = open
    BY DEF open
  <1>4. val' = [val EXCEPT ![a] = View(o)]
    BY <1>1 DEF val
  <1>5. val' \in [Arrays -> Contents]
    BY <1>4, Abstraction, ViewType
  <1>6. \A b \in Arrays \ {a} : val'[b] = val[b] /\ shape'[b] = shape[b]
    BY <1>1 DEF val, shape
  <1>7. val'[a] = View(o) /\ shape'[a] = ShapeOf(o)
    BY <1>1 DEF val, shape
  <1> QED
    BY <1>2, <1>3, <1>4, <1>5, <1>6, <1>7

LEMMA ConstructSimulates ==
  ASSUME IInv, NEW a \in Arrays,
         \/ ConstructNull(a)
         \/ \E n \in Sizes1D, m \in BOOLEAN : Construct1D(a, n, m)
         \/ \E s \in Sizes2D, m \in BOOLEAN : Construct2D(a, s[1], s[2], m)
  PROVE  Logical!Construct(a)
  <1>1. PICK new \in Object : Replace(a, new) /\ View(new) = Blank
    <2>1. CASE ConstructNull(a)
      BY <2>1, NullArrayType, FreshView, GPUArrayAssumption DEF ConstructNull
    <2>2. ASSUME NEW n \in Sizes1D, NEW m \in BOOLEAN, Construct1D(a, n, m)
          PROVE  \E new \in Object : Replace(a, new) /\ View(new) = Blank
      <3>1. n \in 0 .. MaxElements /\ n \in Nat
        BY GPUArrayAssumption
      <3> QED
        BY <2>2, <3>1, FreshObject, FreshView DEF Construct1D
    <2>3. ASSUME NEW s \in Sizes2D, NEW m \in BOOLEAN, Construct2D(a, s[1], s[2], m)
          PROVE  \E new \in Object : Replace(a, new) /\ View(new) = Blank
      <3>1. s[1] \in Nat /\ s[2] \in Nat
        BY GPUArrayAssumption
      <3>2. Pitch(s[1]) \in Nat
        BY <3>1, PitchType
      <3> QED
        BY <2>3, <3>1, <3>2, FreshObject, FreshView DEF Construct2D
    <2> QED
      BY <2>1, <2>2, <2>3
  <1>2. ~arr[a].m_acquired /\ arr' = [arr EXCEPT ![a] = new] /\ UNCHANGED hdl
    BY <1>1 DEF Replace
  <1>3. /\ open[a] = Logical!Closed /\ open' = open
        /\ val' = [val EXCEPT ![a] = Blank]
        /\ \A b \in Arrays \ {a} : shape'[b] = shape[b]
    BY <1>1, <1>2, Replaced
  <1> QED
    BY <1>3
    DEF Logical!Construct, val, shape, open, ShapeOf, OpenOf, Logical!Blank, Blank, Logical!Idx, Idx

-----------------------------------------------------------------------------
(* Resizing.                                                               *)

\* Where row and column of an element are found again.
LEMMA RowCol ==
  ASSUME NEW p \in Nat \ {0}, NEW q \in Nat, NEW r \in 0 .. (p - 1)
  PROVE  (q * p + r) \div p = q /\ (q * p + r) % p = r
  <1> DEFINE i == q * p + r
             d == i \div p
             m == i % p
  <1>1. i \in Nat /\ q * p \in Nat
    OBVIOUS
  <1>2. d \in Nat /\ m \in 0 .. (p - 1) /\ i = p * d + m
    BY <1>1
  <1> HIDE DEF d, m
  <1>3. p * d = d * p /\ d * p \in Nat
    BY <1>2
  <1>4. ~(d + 1 <= q)
    <2>1. ASSUME d + 1 <= q PROVE FALSE
      <3>1. (d + 1) * p <= q * p
        BY <1>2, <2>1, MultMonotone
      <3>2. (d + 1) * p = d * p + p
        BY <1>2
      <3> QED
        BY <1>1, <1>2, <1>3, <3>1, <3>2
    <2> QED
      BY <2>1
  <1>5. ~(q + 1 <= d)
    <2>1. ASSUME q + 1 <= d PROVE FALSE
      <3>1. (q + 1) * p <= d * p
        BY <1>2, <2>1, MultMonotone
      <3>2. (q + 1) * p = q * p + p
        OBVIOUS
      <3> QED
        BY <1>1, <1>2, <1>3, <3>1, <3>2
    <2> QED
      BY <2>1
  <1>6. d = q
    BY <1>2, <1>4, <1>5
  <1>7. m = r
    BY <1>1, <1>2, <1>3, <1>6
  <1> QED
    BY <1>6, <1>7 DEF d, m

\* Every element of a two-dimensional array has its place in memory.
LEMMA InArray ==
  ASSUME NEW p \in Nat \ {0}, NEW h \in Nat, p * h <= MaxElements,
         NEW q \in 0 .. (h - 1), NEW r \in 0 .. (p - 1)
  PROVE  q * p + r \in Idx
  <1>1. q + 1 \in Nat /\ q + 1 <= h
    OBVIOUS
  <1>2. (q + 1) * p <= h * p
    BY <1>1, MultMonotone
  <1>3. (q + 1) * p = q * p + p /\ h * p = p * h /\ q * p \in Nat
    OBVIOUS
  <1> QED
    BY <1>2, <1>3, GPUArrayAssumption DEF Idx

LEMMA Resize1DSimulates ==
  ASSUME IInv, ClientSyncs, NEW a \in Arrays, NEW n \in Sizes1D, Resize1D(a, n)
  PROVE  Logical!Resize(a)
  <1> DEFINE o == arr[a]
             move(c) == Resized(c, o.m_num_elements, n)
  <1>1. /\ o \in Object /\ hdl[a] = NoHandle /\ ObjectInv(o, NoHandle) /\ ~o.m_acquired
        /\ o.kernel = NoKernel /\ o.m_height \in {0, 1} /\ UNCHANGED hdl
        /\ n \in 1 .. MaxElements /\ n \in Nat
    BY Abstraction, GPUArrayAssumption DEF Resize1D, MayResize
  <1>2. PICK new \in Object :
           /\ arr' = [arr EXCEPT ![a] = new]
           /\ new.m_num_elements = n /\ new.m_height = o.m_height
           /\ \A i \in Idx :
                 /\ i >= n => View(new)[i] = Zero
                 /\ i < n /\ o.m_num_elements > 0
                      => View(new)[i] = IF i < o.m_num_elements
                                        THEN View(o)[i] ELSE Zero
    <2>1. CASE isNull(o)
      <3>1. PICK ch \in Uninitialised(n), cd \in Uninitialised(n) :
                arr' = [arr EXCEPT ![a] = AllocateNull(o, n, ch, cd)]
        BY <2>1 DEF Resize1D
      <3> DEFINE new == AllocateNull(o, n, ch, cd)
      <3>2. new \in Object
        <4>1. 0 \in Nat
          OBVIOUS
        <4> QED
          BY <1>1, <2>1, <4>1, AllocateNullObject
      <3>3. View(new) = ch
        <4>1. 0 \in Nat
          OBVIOUS
        <4> QED
          BY <1>1, <2>1, <4>1, AllocateNullView
      <3>4. \A i \in Idx : i >= n => ch[i] = Zero
        BY DEF Uninitialised
      <3>5. new.m_num_elements = n /\ new.m_height = o.m_height
        BY <1>1 DEF AllocateNull, Object
      <3>6. ~(o.m_num_elements > 0)
        BY <2>1 DEF isNull
      <3> QED
        BY <3>1, <3>2, <3>3, <3>4, <3>5, <3>6
    <2>2. CASE ~isNull(o)
      <3> DEFINE ch == move(o.h_data)
                 cd == move(o.d_data)
                 new == Reallocated(o, ch, cd, n, n, o.m_height)
      <3>1. arr' = [arr EXCEPT ![a] = new]
        BY <2>2 DEF Resize1D
      <3>2. /\ ch \in Contents /\ cd \in Contents
            /\ \A i \in Idx : i >= n => ch[i] = Zero /\ cd[i] = Zero
            /\ o.h_data = o.d_data => ch = cd
        <4>1. o.h_data \in Contents /\ o.d_data \in Contents /\ o.m_num_elements \in Nat
          BY <1>1, GPUArrayAssumption DEF Object
        <4> QED
          BY <1>1, <4>1, ResizedType
      <3>3. o.m_height \in Nat
        BY <1>1
      <3>4. new \in Object
        BY <1>1, <2>2, <3>2, <3>3, ReallocatedObject
      <3>5. \/ View(o) = o.h_data /\ View(new) = ch
            \/ View(o) = o.d_data /\ View(new) = cd
        BY <1>1, <3>2, <3>3, ReallocatedView
      <3>6. View(new) = move(View(o)) /\ View(o) \in Contents
        BY <1>1, <3>5, ViewType
      <3>7. \A i \in Idx : move(View(o))[i] = IF i < o.m_num_elements /\ i < n
                                               THEN View(o)[i] ELSE Zero
        BY <1>1, GPUArrayAssumption DEF Resized, MinOf, Object, Idx
      <3>8. new.m_num_elements = n /\ new.m_height = o.m_height
        BY <1>1 DEF Reallocated, Object
      <3>9. \A i \in Idx : i >= n => ~(i < n)
        BY <1>1, GPUArrayAssumption DEF Idx
      <3> HIDE DEF new, move
      <3> QED
        BY <3>1, <3>4, <3>6, <3>7, <3>8, <3>9
    <2> QED
      BY <2>1, <2>2
  <1>3. /\ open[a] = Logical!Closed /\ open' = open
        /\ val' \in [Arrays -> Contents]
        /\ \A b \in Arrays \ {a} : val'[b] = val[b] /\ shape'[b] = shape[b]
        /\ val'[a] = View(new) /\ shape'[a] = ShapeOf(new)
    BY <1>1, <1>2, Replaced
  <1>4. val[a] = View(o) /\ shape[a] = ShapeOf(o)
    BY Abstraction
  <1>5. /\ shape[a].n = o.m_num_elements /\ shape[a].height = o.m_height
        /\ shape'[a].n = n /\ shape'[a].height = o.m_height
    BY <1>2, <1>3, <1>4 DEF ShapeOf
  <1>6. Logical!OnlyAt(a)
    BY <1>3 DEF Logical!OnlyAt, val, Logical!Contents, Logical!Idx, Contents, Idx
  <1> QED
    BY <1>1, <1>2, <1>3, <1>4, <1>5, <1>6
    DEF Logical!Resize, val, shape, open, ShapeOf, OpenOf, Logical!Idx, Idx

LEMMA Resize2DSimulates ==
  ASSUME IInv, ClientSyncs, NEW a \in Arrays, NEW s \in Sizes2D, Resize2D(a, s[1], s[2])
  PROVE  Logical!ResizeRows(a)
  <1> DEFINE o == arr[a]
             p == Pitch(s[1])
             h == s[2]
             n == p * h
             move(c) == Resized2D(c, o.m_pitch, p, o.m_height, h)
  <1>1. /\ o \in Object /\ hdl[a] = NoHandle /\ ObjectInv(o, NoHandle) /\ ~o.m_acquired
        /\ o.kernel = NoKernel /\ UNCHANGED hdl
    BY Abstraction DEF Resize2D, MayResize
  <1>2. /\ o.m_num_elements = o.m_pitch * o.m_height
        /\ n \in 1 .. MaxElements
    BY DEF Resize2D
  <1>3. p \in Nat \ {0} /\ h \in Nat
    BY GPUArrayAssumption, PitchType
  <1>4. PICK new \in Object :
           /\ arr' = [arr EXCEPT ![a] = new]
           /\ new.m_num_elements = n /\ new.m_pitch = p /\ new.m_height = h
           /\ \A i \in Idx : i >= n => View(new)[i] = Zero
           /\ o.m_num_elements > 0 =>
                 \A row \in 0 .. (h - 1), col \in 0 .. (p - 1) :
                    View(new)[row * p + col] =
                       IF row < o.m_height /\ col < o.m_pitch
                       THEN View(o)[row * o.m_pitch + col] ELSE Zero
    <2>1. CASE isNull(o)
      <3>1. PICK ch \in Uninitialised(n), cd \in Uninitialised(n) :
                arr' = [arr EXCEPT ![a] =
                           [AllocateNull(o, n, ch, cd)
                               EXCEPT !.m_pitch = p, !.m_height = h]]
        BY <2>1 DEF Resize2D
      <3> DEFINE plain == AllocateNull(o, n, ch, cd)
                 new == [plain EXCEPT !.m_pitch = p, !.m_height = h]
      <3>2. plain \in Object /\ new \in Object
        BY <1>1, <1>2, <1>3, <2>1, AllocateNullObject
      <3>3. View(plain) = ch /\ View(new) = View(plain)
        <4>1. View(plain) = ch
          BY <1>1, <1>2, <2>1, AllocateNullView
        <4> HIDE DEF plain, p, h
        <4>2. View(new) = View(plain)
          BY <1>3, <3>2, RowsView
        <4> QED
          BY <4>1, <4>2
      <3>4. \A i \in Idx : i >= n => ch[i] = Zero
        BY DEF Uninitialised
      <3>5. plain.m_num_elements = n
        BY <1>1 DEF AllocateNull, Object
      <3>6. ~(o.m_num_elements > 0)
        BY <2>1 DEF isNull
      <3> HIDE DEF plain, n, p, h
      <3>7. new.m_num_elements = n /\ new.m_pitch = p /\ new.m_height = h
        BY <3>2, <3>5 DEF Object
      <3>8. arr' = [arr EXCEPT ![a] = new]
        BY <3>1 DEF plain, n, p, h
      <3> HIDE DEF new
      <3> QED
        BY <3>2, <3>3, <3>4, <3>6, <3>7, <3>8
    <2>2. CASE ~isNull(o)
      <3> DEFINE ch == move(o.h_data)
                 cd == move(o.d_data)
                 new == Reallocated(o, ch, cd, n, p, h)
      <3>1. arr' = [arr EXCEPT ![a] = new]
        BY <2>2 DEF Resize2D
      <3>2. /\ o.m_pitch \in Nat /\ o.m_height \in Nat /\ o.m_num_elements \in Nat
            /\ o.m_num_elements <= MaxElements
            /\ o.h_data \in Contents /\ o.d_data \in Contents /\ View(o) \in Contents
            /\ n \in Nat /\ p * h <= MaxElements
        BY <1>1, <1>2, ViewType, GPUArrayAssumption DEF Object
      <3>3. ASSUME NEW c \in Contents
            PROVE  /\ move(c) \in Contents
                   /\ \A i \in Idx : i >= n => move(c)[i] = Zero
                   /\ \A row \in 0 .. (h - 1), col \in 0 .. (p - 1) :
                         move(c)[row * p + col] =
                            IF row < o.m_height /\ col < o.m_pitch
                            THEN c[row * o.m_pitch + col] ELSE Zero
        <4> DEFINE op == o.m_pitch
                   oh == o.m_height
                   om == o.m_num_elements
        <4>1. op \in Nat /\ oh \in Nat /\ p \in Nat \ {0} /\ h \in Nat
          BY <1>3, <3>2
        <4>2. om \in Nat /\ om = op * oh /\ om <= MaxElements /\ n \in Nat /\ n = p * h
          BY <1>2, <3>2
        <4>3. n \in Nat /\ n = p * h /\ n <= MaxElements
          BY <1>2, <3>2
        <4> HIDE DEF op, oh, om, p, h, n, o, ch, cd, new, move
        <4>4. /\ Resized2D(c, op, p, oh, h) \in Contents
              /\ \A i \in Idx : i >= n => Resized2D(c, op, p, oh, h)[i] = Zero
          BY <4>1, <4>2, Resized2DType
        <4>5. \A row \in 0 .. (h - 1), col \in 0 .. (p - 1) :
                 Resized2D(c, op, p, oh, h)[row * p + col] =
                    IF row < oh /\ col < op THEN c[row * op + col] ELSE Zero
          <5> TAKE row \in 0 .. (h - 1), col \in 0 .. (p - 1)
          <5>1. row * p + col \in Idx
            <6>1. p * h <= MaxElements
              BY <4>3
            <6> QED
              BY <4>1, <6>1, InArray
          <5>2. (row * p + col) \div p = row /\ (row * p + col) % p = col
            <6>1. row \in Nat
              BY <4>1
            <6> QED
              BY <4>1, <6>1, RowCol
          <5>3. (row < MinOf(oh, h) <=> row < oh) /\ (col < MinOf(op, p) <=> col < op)
            BY <4>1 DEF MinOf
          <5> QED
            BY <5>1, <5>2, <5>3 DEF Resized2D
        <4> QED
          BY <4>4, <4>5 DEF op, oh, move
      <3>4. /\ ch \in Contents /\ \A i \in Idx : i >= n => ch[i] = Zero
            /\ cd \in Contents /\ \A i \in Idx : i >= n => cd[i] = Zero
        BY <3>2, <3>3
      <3>5. o.h_data = o.d_data => ch = cd
        OBVIOUS
      <3> HIDE DEF ch, cd, o, n, p, h
      <3>7. new \in Object
        BY <1>1, <1>2, <1>3, <2>2, <3>4, <3>5, ReallocatedObject
      <3>8. \/ View(o) = o.h_data /\ View(new) = ch
            \/ View(o) = o.d_data /\ View(new) = cd
        BY <1>1, <1>2, <1>3, <3>4, ReallocatedView
      <3>9. View(new) = move(View(o))
        BY <3>8 DEF ch, cd
      <3>10. new.m_num_elements = n /\ new.m_pitch = p /\ new.m_height = h
        BY <1>1 DEF Reallocated, Object
      <3>11. arr' = [arr EXCEPT ![a] = new]
        BY <3>1
      <3> DEFINE w == View(o)
      <3>12. /\ \A i \in Idx : i >= n => move(w)[i] = Zero
             /\ \A row \in 0 .. (h - 1), col \in 0 .. (p - 1) :
                   move(w)[row * p + col] =
                      IF row < o.m_height /\ col < o.m_pitch
                      THEN w[row * o.m_pitch + col] ELSE Zero
        BY <3>2, <3>3
      <3>13. View(new) = move(w)
        BY <3>9
      <3> DEFINE v == View(new)
                 u == move(w)
      <3>14. /\ \A i \in Idx : i >= n => v[i] = Zero
             /\ \A row \in 0 .. (h - 1), col \in 0 .. (p - 1) :
                   v[row * p + col] =
                      IF row < o.m_height /\ col < o.m_pitch
                      THEN w[row * o.m_pitch + col] ELSE Zero
        <4>1. v = u
          BY <3>13
        <4> HIDE DEF v
        <4> QED
          BY <3>12, <4>1 DEF u
      <3> HIDE DEF new, move
      <3> QED
        BY <3>7, <3>10, <3>11, <3>14 DEF v, w
    <2> QED
      BY <2>1, <2>2
  <1>5. /\ open[a] = Logical!Closed /\ open' = open
        /\ val' \in [Arrays -> Contents]
        /\ \A b \in Arrays \ {a} : val'[b] = val[b] /\ shape'[b] = shape[b]
        /\ val'[a] = View(new) /\ shape'[a] = ShapeOf(new)
    BY <1>1, <1>4, Replaced
  <1>6. val[a] = View(o) /\ shape[a] = ShapeOf(o)
    BY Abstraction
  <1> HIDE DEF o, p, h, n, move
  <1>7. /\ shape[a].n = o.m_num_elements /\ shape[a].height = o.m_height
        /\ shape[a].pitch = o.m_pitch
        /\ shape'[a].n = n /\ shape'[a].height = h /\ shape'[a].pitch = p
    BY <1>4, <1>5, <1>6 DEF ShapeOf
  <1>8. Logical!OnlyAt(a)
    BY <1>5 DEF Logical!OnlyAt, val, Logical!Contents, Logical!Idx, Contents, Idx
  <1>9. n = p * h
    BY DEF n
  <1> QED
    BY <1>4, <1>5, <1>6, <1>7, <1>8, <1>9
    DEF Logical!ResizeRows, val, shape, open, ShapeOf, OpenOf, Logical!Idx, Idx

-----------------------------------------------------------------------------
(* Two arrays.                                                             *)

LEMMA PairSimulates ==
  ASSUME IInv, NEW a \in Arrays, NEW b \in Arrays, Assign(a, b) \/ Swap(a, b)
  PROVE  Logical!Copy(a, b) \/ Logical!Exchange(a, b)
  <1>1. /\ arr[a] \in Object /\ arr[b] \in Object /\ a # b
        /\ ~arr[a].m_acquired /\ ~arr[b].m_acquired /\ UNCHANGED hdl
        /\ hdl[b] = NoHandle /\ ObjectInv(arr[b], NoHandle)
        /\ open[a] = Logical!Closed /\ open[b] = Logical!Closed
        /\ arr \in [Arrays -> Object]
    BY Abstraction DEF Assign, Swap, IInv, TypeOK
  <1>2. open' = open
    BY <1>1 DEF open
  <1>3. CASE Assign(a, b)
    <2> DEFINE y == ReadByHost(arr[b])
               x == Copied(y)
    <2>1. View(y) = View(arr[b]) /\ View(x) = View(arr[b])
      BY <1>1, CopiedView
    <2>2. ShapeOf(y) = ShapeOf(arr[b])
      BY <1>1 DEF ShapeOf, ReadByHost, aquire, memcpyDeviceToHost, memcpyHostToDevice, Object
    <2>3. ShapeOf(x) = ShapeOf(y)
      BY DEF ShapeOf, Copied, NullArray
    <2>4. arr' = [arr EXCEPT ![b] = y, ![a] = x]
      BY <1>3 DEF Assign
    <2> HIDE DEF x, y
    <2>5. \A c \in Arrays : arr'[c] = IF c = a THEN x ELSE IF c = b THEN y ELSE arr[c]
      BY <1>1, <2>4
    <2>6. val' = [val EXCEPT ![a] = val[b]]
      BY <2>1, <2>5 DEF val
    <2>7. shape' = [shape EXCEPT ![a] = shape[b]]
      BY <2>2, <2>3, <2>5 DEF shape
    <2> QED
      BY <1>1, <1>2, <2>6, <2>7 DEF Logical!Copy, val, shape, open, ShapeOf, OpenOf
  <1>4. CASE Swap(a, b)
    <2>1. \A c \in Arrays : arr'[c] = IF c = a THEN arr[b] ELSE IF c = b THEN arr[a] ELSE arr[c]
      BY <1>1, <1>4 DEF Swap
    <2>2. val' = [val EXCEPT ![a] = val[b], ![b] = val[a]]
      BY <1>1, <2>1 DEF val
    <2>3. shape' = [shape EXCEPT ![a] = shape[b], ![b] = shape[a]]
      BY <1>1, <2>1 DEF shape
    <2> QED
      BY <1>1, <1>2, <2>2, <2>3 DEF Logical!Exchange, val, shape, open, ShapeOf, OpenOf
  <1> QED
    BY <1>3, <1>4

-----------------------------------------------------------------------------
LEMMA InitSimulates == Init => Logical!Init
  <1> SUFFICES ASSUME Init PROVE Logical!Init
    OBVIOUS
  <1>1. View(NullArray) = Blank
    BY DEF View, NullArray, Drained, NoKernel, Blank
  <1>2. /\ ShapeOf(NullArray) = Logical!Shape(0, 0, 0)
        /\ OpenOf(NoHandle) = Logical!Closed
    BY DEF ShapeOf, OpenOf, NullArray, NoHandle, Logical!Shape, Logical!Closed
  <1> QED
    BY <1>1, <1>2 DEF Init, Logical!Init, ShapeOf, OpenOf, Logical!Blank, Blank,
       Logical!Idx, Idx

\* One lemma per kind of action: the step of the logical array it is.
LEMMA LifetimeSimulates ==
  ASSUME IInv, ClientSyncs, NEW a \in Arrays, Lifetime(a)
  PROVE  Logical!Construct(a) \/ Logical!Resize(a) \/ Logical!ResizeRows(a)
  BY ConstructSimulates, Resize1DSimulates, Resize2DSimulates DEF Lifetime

LEMMA StepSimulates ==
  ASSUME ClientSyncs, IInv, [Next]_vars
  PROVE  [Logical!Next]_(Logical!vars)
  <1>1. CASE UNCHANGED vars
    BY <1>1, AbstractVars DEF vars, val, shape, open
  <1>2. ASSUME NEW a \in Arrays, Lifetime(a)
        PROVE  Logical!Next
    BY <1>2, LifetimeSimulates DEF Logical!Next
  <1>3. ASSUME NEW a \in Arrays, Access(a)
        PROVE  Logical!Next \/ UNCHANGED Logical!vars
    BY <1>3, AcquireSimulates, WriteSimulates, ReleaseSimulates, Stutters
    DEF Access, Logical!Next
  <1>4. ASSUME NEW a \in Arrays, CopyCompletes(a) \/ KernelCompletes(a)
        PROVE  UNCHANGED Logical!vars
    BY <1>4, Stutters
  <1>5. ASSUME NEW a \in Arrays, NEW b \in Arrays, Assign(a, b) \/ Swap(a, b)
        PROVE  Logical!Next
    BY <1>5, PairSimulates DEF Logical!Next
  <1> QED
    BY <1>1, <1>2, <1>3, <1>4, <1>5 DEF Next

\* Host and device memory, the copies between them and the kernels in flight
\* together are one array of values: every step of GPUArray is a step of that
\* array or changes nothing a client sees.
THEOREM OneArray == ASSUME ClientSyncs PROVE Spec => ImplementsLogicalArray
  BY InitIInv, NextIInv, InitSimulates, StepSimulates, PTL
  DEF Spec, ImplementsLogicalArray, Logical!Spec
=============================================================================
