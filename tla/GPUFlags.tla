------------------------------ MODULE GPUFlags ------------------------------
(***************************************************************************)
(* GPUFlags: one value that kernels set and the host reads and resets.     *)
(* The memory is mapped (one cell for host and device), copied (a cell on  *)
(* each side) or the host's alone.  A launch only queues a kernel: it runs *)
(* later, in the order of the default stream, and holds the pointer that   *)
(* getDeviceFlags() gave at the launch, whatever swap() did since.         *)
(*                                                                         *)
(* The copy constructor and operator= call the non-const readFlags() of a  *)
(* const object: they do not compile when used, and nothing uses them.     *)
(***************************************************************************)
EXTENDS Naturals, Sequences, SequencesExt

CONSTANTS
    Flags,      \* the GPUFlags objects
    Values,     \* what the flags can hold
    Zero,       \* the value of cleared memory
    Junk,       \* what memory holds before it is cleared
    Kind,       \* Kind[f]: "mapped", "copied" or "host", as f was constructed
    MaxPending  \* bound of the model: kernels that have not run

FlagsAssumption ==
    /\ Zero \in Values /\ Junk \notin Values
    /\ Kind \in [Flags -> {"mapped", "copied", "host"}]

VARIABLES
    cell,       \* cell[f]: the allocation f points to, named by its first owner
    h_data,     \* h_data[c]: the host memory of allocation c
    d_data,     \* d_data[c]: the device memory of c, if c is "copied"
    stream,     \* the kernels that were launched and have not run
    got,        \* got[f]: the value the last readFlags() of f returned
    asked       \* history: the last value a launch or a reset gave to f

vars == <<cell, h_data, d_data, stream, got, asked>>

Allocations == Flags

\* The memory after the constructors: allocate() and memclear().
MemClear == /\ h_data = [c \in Allocations |-> Zero]
            /\ d_data = [c \in Allocations |-> Zero]

Init == /\ cell = [f \in Flags |-> f]
        /\ MemClear
        /\ stream = <<>>
        /\ got = [f \in Flags |-> Zero]
        /\ asked = [f \in Flags |-> Zero]

\* What the memories hold once the kernels in ks ran: the pair of host and
\* device memory.
After(ks) ==
    FoldLeft(LAMBDA m, k : IF Kind[k.cell] = "mapped"
                           THEN [m EXCEPT !.h[k.cell] = k.val]
                           ELSE [m EXCEPT !.d[k.cell] = k.val],
             [h |-> h_data, d |-> d_data], ks)

----------------------------------------------------------------------------
(* Device *)

\* The host launches a kernel that sets the flags.
Launch(f, v) ==
    /\ Kind[cell[f]] # "host"
    /\ Len(stream) < MaxPending
    /\ stream' = Append(stream, [cell |-> cell[f], val |-> v])
    /\ asked' = [asked EXCEPT ![f] = v]
    /\ UNCHANGED <<cell, h_data, d_data, got>>

\* The kernel at the head of the stream runs.
Kernel ==
    /\ stream # <<>>
    /\ LET m == After(<<Head(stream)>>)
       IN  h_data' = m.h /\ d_data' = m.d
    /\ stream' = Tail(stream)
    /\ UNCHANGED <<cell, got, asked>>

----------------------------------------------------------------------------
(* Host *)

\* readFlags(): mapped memory is read after a cudaDeviceSynchronize(), the
\* other is copied, and the copy runs in the stream as well.
readFlags(f) ==
    LET c == cell[f]
        m == After(stream)
        h == IF Kind[c] = "copied" THEN [m.h EXCEPT ![c] = m.d[c]] ELSE m.h
    IN  /\ IF Kind[c] = "host"
           THEN UNCHANGED <<h_data, d_data, stream>>
           ELSE h_data' = h /\ d_data' = m.d /\ stream' = <<>>
        /\ got' = [got EXCEPT ![f] = IF Kind[c] = "host" THEN h_data[c] ELSE h[c]]
        /\ UNCHANGED <<cell, asked>>

\* Mutation: resetFlags() of mapped memory does not wait for the kernels.
ResetRunning(f, flags) ==
    /\ Kind[cell[f]] = "mapped"
    /\ h_data' = [h_data EXCEPT ![cell[f]] = flags]
    /\ asked' = [asked EXCEPT ![f] = flags]
    /\ UNCHANGED <<cell, d_data, stream, got>>
\* resetFlags(flags): the same two ways.
resetFlags(f, flags) ==
    LET c == cell[f]
        m == After(stream)
    IN  /\ \/ /\ Kind[c] = "mapped"
              /\ h_data' = [m.h EXCEPT ![c] = flags]
              /\ d_data' = m.d
              /\ stream' = <<>>
           \/ /\ Kind[c] = "copied"
              /\ h_data' = [m.h EXCEPT ![c] = flags]
              /\ d_data' = [m.d EXCEPT ![c] = flags]
              /\ stream' = <<>>
           \/ /\ Kind[c] = "host"
              /\ h_data' = [h_data EXCEPT ![c] = flags]
              /\ UNCHANGED <<d_data, stream>>
        /\ asked' = [asked EXCEPT ![f] = flags]
        /\ UNCHANGED <<cell, got>>

\* swap(): the pointers and the kind of the memory change owner.
swap(f, g) ==
    /\ f # g
    /\ cell' = [cell EXCEPT ![f] = cell[g], ![g] = cell[f]]
    /\ asked' = [asked EXCEPT ![f] = asked[g], ![g] = asked[f]]
    /\ UNCHANGED <<h_data, d_data, stream, got>>

Next ==
    \/ Kernel
    \/ \E f \in Flags :
          \/ \E v \in Values : Launch(f, v) \/ resetFlags(f, v)
          \/ readFlags(f)
          \/ \E g \in Flags : swap(f, g)

Spec == Init /\ [][Next]_vars

----------------------------------------------------------------------------
(* Properties *)

\* Every memory holds a value, no two objects own the same allocation, and the
\* queued kernels point into allocations.
TypeOK ==
    /\ cell \in [Flags -> Allocations]
    /\ \A f, g \in Flags : f # g => cell[f] # cell[g]
    /\ h_data \in [Allocations -> Values] /\ d_data \in [Allocations -> Values]
    /\ stream \in Seq([cell : Allocations, val : Values])
    /\ got \in [Flags -> Values] /\ asked \in [Flags -> Values]

\* "GPUFlags inserts synchronization points 1) when resetFlags() is called to
\* reset the value of the flags (otherwise a running kernel may overwrite the
\* reset value) and 2) when reading the flags on the host": with kernels that
\* run late and resets, reads and swaps between them, every read returns what
\* the last launch or reset of the object asked for.
Register == INSTANCE FlagRegister WITH value <- asked
=============================================================================
