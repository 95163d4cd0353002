# A verification project for HOOMD-blue

HOOMD-blue is a particle simulation code that runs on one CPU, one GPU, or many
MPI ranks with a domain decomposition.  Its arithmetic is floating point and not
the subject here.  The subject is what holds the arithmetic together: which copy
of an array is current, which rank owns a particle and which ghosts it has,
whether the ranks agree on what to exchange next, when lists and forces are
stale, and what a run does when it is limited, interrupted or fails.

Paths below are relative to `src/libhoomd/`.  `PROJECT.json` has the details this
text leaves out: the lines of the code behind every definition (`map`), the
hazards with the lines where they bite, and for each property a plausible bug of
the code that violates it (`mutants`).

Contents: 1 parts of the system; 2 modules; 3 runs; 4 fairness; 5 where code and
documentation differ; 6 proofs; 7 what is not modelled; 8 plan.

## 1. Parts of the system

| Part | State | Operations | Talks to |
|---|---|---|---|
| `GPUArray`, `ArrayHandle` | host and device copy, `m_data_location`, `m_acquired`, shape | construct, acquire and release (also asynchronously), copy, assign, swap, resize | every class with per-particle data; the CUDA stream |
| `GPUVector`, `GPUFlags` | size and capacity; a flag in mapped, copied or host memory | push, pop, resize, swap; read, reset, launch | GPUArray; kernels |
| `CachedAllocator` | free and live blocks, bytes cached | allocate, deallocate, evict | thrust, scopes of temporary buffers |
| `ParticleData` | `m_tag`, `m_rtag`, ghosts, tag set, recycled tags, tag cache, flags, capacity | add, remove, migrate, snapshot, sort, ghosts | signals to all that cache indices |
| `DomainDecomposition`, `BoxDim`, `LoadBalancer` | grid, rank tables, cuts | search, placement, neighbors, local boxes, new cuts | Communicator, ParticleData |
| `Communicator`, `CommunicatorGPU`, `GroupCommunicator` | plans, copy lists, ghost counts, `m_force_migrate` | migrate, exchange ghosts, update ghosts, the same for bonded groups | MPI; signals from NeighborList and forces |
| `NeighborList`, `CellList`, trees | last positions, update flags, list memory, exclusions, cells, nodes | distance check, rebuild, overflow and retry, query | Communicator's migrate request; ParticleData's signals |
| `BondedGroupData`, `ParticleGroup` | tables of groups by tag and index; members | add, remove, snapshot, rebuild, combine | tags and order of ParticleData |
| `System`, `Integrator`, `ForceCompute` | step counter, schedules, PDataFlags; lists of forces and methods, net force, accelerations | `run()`, script calls between runs | signals, SIGINT, python callback |
| `Messenger`, exception hook | error counter and locks | `error()`, teardown | all ranks |
| `IMDInterface` | socket, `m_active`, `m_paused`, forces | `analyze()` with its socket calls | a client that may vanish |
| `Autotuner` | state machine, samples, optimum | begin, end, enable, period | kernels, Communicator's precompute switch |
| `SFCPackUpdater` | sort order | migrate, sort, exchange | ParticleData, Communicator |
| Potentials, integration methods, kernels, rigid bodies | floating-point fields | numerics | - |
| Analyzers, writers, initializers, python | files | I/O | - |

What is hard in it: a kernel or an asynchronous copy is in flight while host code
runs; every operation on particles is collective, yet ranks reach it at their own
pace; a particle that changes rank is for a while on no rank; lists of ghosts
survive many time steps in which particles are sorted and moved; caches are
invalidated by signals that some operations forget; a decision of one rank
(migrate, rebuild, stop, tune) has to be the decision of all; buffers grow by
building until nothing overflows; a script changes things between two runs.

What makes each part correct is the property that section 3 names for it.

## 2. Modules

Each component module declares the state of one part as VARIABLES, with one
action per operation, handler or message, and keeps the names of the code.  Inputs
come from CONSTANTS; a constant that bounds the model is marked "bound".

| Module | Part of the code | How its state and actions correspond |
|---|---|---|
| `LogicalArray` | what GPUArray promises | an array of values; reads see the last writes |
| `GPUArray` | `data_structures/GPUArray.h` | a record per C++ object with the members' names; `pend` and `kernel` are unfinished work in the CUDA stream; `hdl[a]` is the live handle. `Acquire`, `Release`, `HostWrite`, `KernelWrite`, `CopyCompletes`, `KernelCompletes`, `Assign`, `Swap`, `Resize1D`, `Resize2D`, constructors |
| `SequenceStore`, `GPUVector` | `GPUVector.h` | a sequence, and its storage with `RESIZE_FACTOR`, slack and junk |
| `FlagRegister`, `GPUFlags` | `GPUFlags.h` | a register, and the cells with queues of kernels that hold the pointer of their launch |
| `CachedAllocator` | `utils/CachedAllocator.h` | device blocks, free and allocated maps, the stack of `ScopedAllocation`s; `cudaMalloc` may fail, and every `CHECK_CUDA_ERROR()` may throw: the exception unwinds the scopes (`GetFails`, `GetThrows`, `EvictThrows`, `Unwound`). What it leaves behind is history: `lost`, `stray`, `dangling` |
| `ParticleData` | `ParticleData.cc` | `m_tag`, `m_rtag` and flags per rank; replicated tables once. `Send`, `Receive` happen rank by rank |
| `ParticleFields` | `addParticle()`, `removeParticle()` | ParticleData with the two fields that do not follow their particle |
| `DomainDecomposition` | `communication/DomainDecomposition.cc` | root's search, node blocks, tables and cuts of every rank, placement |
| `Communicator` | `communication/Communicator.cc`, `SFCPackUpdater` | a W x H grid of ranks that wait in `MPI_Waitall` or in the allreduce of the distance check, and run in one step between waits |
| `GPUCommunicator` | `CommunicatorGPU.cc/.cu` | stages, neighbors per stage, plans of particles and groups |
| `LoadBalancer` | `updaters/LoadBalancer.cc` | collectives as steps of all ranks; the solver returns any point of its constraints |
| `NeighborList` | `computes/NeighborList.cc`, `PotentialPairGPU.h`, `ForceCompute.cc` | positions abstracted to the largest displacement; per rank update flags, votes, migrate requests |
| `Exclusions` | `NeighborList.cc`, `nlist.py` | lists by tag, their translation to indices, the filter |
| `NlistStorage` | `NeighborList.cc` | head list, room per type, conditions, the loop of builds |
| `CellList` | `CellList.cc`, `CellListStencil.cc` | flags of `compute()`, dimensions, memory, overflow, stencil, searches |
| `TreeGeometry`, `AABBTree` | `AABBTree.h`, `NeighborListTree.cc` | build, query and update of trees; maps kept between builds and the signals that void them |
| `GPUTree` | `NeighborListGPUTree.cc/.cu` | codes, sort, hierarchy, bottom-up boxes by concurrent threads, traversal |
| `BondedGroups` | `BondedGroupData.cc`, `Communicator.cc` | tables per rank, passes of `migrateGroups()` and `markGhostParticles()` on a ring |
| `ParticleGroup` | `ParticleGroup.cc` | tags, cached lists, the flags the slots set, the collective rebuild |
| `RunLoop` | `system/System.cc`, `System.h` | a schedule per analyzer and updater; the phases of a step; every way a run ends; the forces as one, with `m_last_computed` (`last`), and as history the step of its last evaluation (`asof`), its fields, and the items touched since (`late`) |
| `Integrator` | `Integrator.cc`, `IntegratorTwoStep.cc`, `ForceCompute.cc` | sums as functions from forces to "absent", "stale", "current", "twice"; SIGINT may leave a step uncounted (`Count`), which history keeps in `redone`; `netof` and `accelof` are the forces the sums were made of |
| `Teardown` | `Messenger.cc`, catch clause of `System::run()`, exception hook | the counter and the locks, with the two accesses of `error()` in either order; ranks fail at any time; the barrier of the catch clause ends when all are in it |
| `IMDInterface` | `analyzers/IMDInterface.cc` | every socket call of `analyze()` is a step; clients call, send parts of commands, vanish |
| `Autotuner` | `utils/Autotuner.cc` | the state machine on several ranks with the barrier of the synchronised optimum |

The proofs of section 6 are in modules of their own, `GPUArrayProofs`,
`ParticleDataProofs`, `NlistStorageProofs`, `CachedAllocatorProofs`,
`TeardownProofs`, `IMDInterfaceProofs`, `RunLoopProofs` and `AutotunerProofs`.

`GPUArray`, `GPUVector` and `GPUFlags` are shown to implement `LogicalArray`,
`SequenceStore` and `FlagRegister` by `INSTANCE ... WITH` and a refinement
mapping.  `Communicator` composes the exchanges with the schedule of calls and
the sort; `NeighborList` composes lists, potentials, run loop and communication;
`LoadBalancer` and `DomainDecomposition` the cuts with the placement.

Assumptions about clients are guards with a name: an overwrite handle writes each
element before it is released; `ClientSyncs` (a client does not overwrite from
the host, or resize, mapped memory that a kernel may still write); particles move
less than `Reach` or `Drift` between two checks; groups span at most `MaxExtent`.

## 3. Runs

A run is one question asked of a family of parts, and each of its instances (its
"parts") is a set of constants that makes a hard case happen.  `MCX.tla`
instantiates the components; the variable `part` says which instance a behaviour
belongs to, the variables of the others stay `Off`.  A property is a conjunction
of named properties of the components, or is defined in the MC module for the
parts it applies to.

| Run | Instances | What it shows |
|---|---|---|
| `arrays` (`MCArrays`) | one GPUArray with 1-D and 2-D shapes, up to 4 elements; two arrays that are copied and swapped; two vectors; one that grows past 8; flags of all three kinds | `Coherent`: a ready handle shows the current contents and `m_data_location` is true. `ImplementsLogicalArray`, `OthersImplement`: refinement. `StoragesRight`: elements in use lie in memory, growth is amortised |
| `particles` (`MCParticles`) | 2 ranks and 3 tags; grids, nodes and cuts of DomainDecomposition | `ParticlesRight`: tags and indices are inverse, a particle is in one place, ghosts are copies of live particles, capacity suffices. `TagPool`, `NothingStale`: recycled tags are free, cached tags current, no mark is left. `DecompositionRight`: optimal grid, mutual neighbors, one rank per box |
| `ranks` (`MCRanks`) | rings, a 2 x 2 grid and a pair of domains; three ranks that fail | `GhostsRight`: particles in their domain, exactly the ghosts needed, at the right image and the present position. `Matched`: messages fit whatever the pace. `ErrorLock`: only ranks of the first two `error()` calls can speak, and exactly the first one as long as no `MPI_Get` came before its own `MPI_Accumulate`; nobody waits in the barrier without an error. `Returns`: calls return; all ranks end if the order is kept |
| `nlist` (`MCNeighborLists`) | two lists on two ranks, precomputed forces, one rank with a list without check; topologies; the memory | `ListsFresh`: forces come from a list that was good. `RanksAgree`: all ranks rebuild together. `ExclusionsRight`, `StorageRight`, `Completes` |
| `cells` (`MCCellLists`) | periodic box, narrow cells, split domain, overflow, a call that must end | `CellsRight`: nothing out of bounds, each particle in one cell. `SearchComplete`: neighbors found, cells searched once. `ComputeEnds` |
| `trees` (`MCTrees`) | four instances of GPUTree, four of AABBTree | `TreesRight`: hierarchy and boxes, with concurrent threads. `NeighborsExact`: exactly the neighbors within the radius |
| `groups` (`MCGroups`) | bonds on a ring of 3 and on 2 domains, angles on 4; groups that update and combine | `BondsFollow`: a group is on every rank of a member. `GroupsCurrent`, `SnapshotTrue`, `QueryEnds` |
| `devices` (`MCDevices`) | the allocator; stages, updates, a bond and pace of CommunicatorGPU; three load balancers | `BlocksSafe`: memory is cached, in use, being made or left behind by a throw, and scopes own theirs. `Accounting`: the counter is the sum of the blocks it counts. `GPUGhostsRight`, `BalanceRight`, `BroughtHome` |
| `run` (`MCRun`) | an analyzer and an updater with limits and callback, undisturbed and with SIGINT; five integrators | `NeverMissed`, `ExactlyPeriodic`: schedules. `FlagsReady`: a force evaluated at the present step has the fields of the items that read it. `NetForceRight`: each force once in the sum, evaluated at the present positions unless the step is a repeated one; what a later run begins with. `RunEnds` |
| `support` (`MCSupport`) | two clients of a run that starts paused; a tuner on two ranks and one alone | `ConnectionSafe`, `Noticed`, `TunerRight`, `KeepsTuning` |
| `fields_remove` | ParticleFields, 2 ranks and tags | violation, section 5 |
| `hosttree_flat` | AABBTree in two dimensions | violation, section 5 |

Why the bounds suffice.  Arrays interact in pairs, and one element tells old from
new; an alignment of 2 makes `1x1`, `1x2`, `2x1` change pitch and height both
ways.  Three tags are an added, a removed and a surviving particle.  Two domains
along an axis make both neighbours the same rank, three make them different; `L =
3`, `R = 1` has points in the lower layer, the upper layer and neither; the first
call builds lists, the later ones use, update or rebuild them.  A rank is never
more than one call ahead of a neighbor.  Seven forces are one more than a launch
of the sum kernel takes.  Four leaves are the smallest number with two levels of
internal nodes and a range that is no power of two.  A period of 3 with
a phase and a function with a dip over four steps, and with SIGINT a period of 2 that
starts at once or at a multiple over three, let items coincide, alternate and be
rescheduled, in runs of at most two steps.  The theorems of
section 6 remove the bounds where they apply; there the run is a check of the
model, and the theorem the result.

Some instances leave out inputs for which section 5 describes what the code does
instead: constants (`GhostAlone`, `BuffAlone`, `Multiple` in
CellList, `InOrder` and far ghosts only along z in GPUTree, `Caught`
in Teardown, `Interrupts` in Integrator, `RootQueries` in ParticleGroup, `Edits`, `Restarted` in Integrator,
`Rings` in Exclusions, the commands of the clients in IMDInterface) switch them
off or on, so that each remains one value of a constant away.  `Reordered` is on
where `ErrorLock` is checked, and off where `Returns` asks that all ranks end.

Deadlock is checked wherever the system may not stop; parts that may (an array
program ends, an allocator's client stops) stutter explicitly, and the runs with
`CHECK_DEADLOCK FALSE` have only such parts.

## 4. Fairness

The liveness properties are those of the runs `ranks`, `nlist`, `cells`,
`groups`, `run` and `support`; each of those MC modules states the fairness of
the instances it asks about in its `Spec`, and no other run needs any.

* Ranks (`MCRanks`, `MCGroups`, `MCNeighborLists`): weak fairness of each rank's
  next step and of the collectives all ranks wait in.  A rank is an
  operating-system process that waits for nothing but MPI calls, and MPI delivers
  matched messages.  Nothing is assumed about relative speed.
* `MCRun`: weak fairness of the steps of the loop.  The script need not do
  anything; limits, callback and SIGINT need not happen.
* `MCSupport`, IMD: weak fairness of the host; nothing is assumed of clients.
* `MCSupport`, the synchronised tuner: weak fairness of each rank and strong fairness of the issue
  of kernel calls (a run that goes on calls the kernel again and again while
  other operations may come between).
* `MCCellLists`: weak fairness of the steps of the `compute()` call under way,
  which is sequential code.

## 5. Where code and documentation differ

Two are kept as runs that TLC must find violated:

* `fields_remove` (`ParticleData.cc:2248`): `removeParticle()` moves the last
  particle to the hole without its angular momentum and moment of inertia.
* `hosttree_flat` (`NeighborListTree.cc:245`): in two dimensions every image vector
  stays zero, so a traversal looks nine times at the same place.

The others were found the same way while the modules were written.  They are
described here and not kept as runs; each is reached by the constant or the
property in parentheses.
* `GPUArray.h:834`: `aquire()` marks the array and then throws if there is no GPU; nothing releases it (`CUDAEnabled = FALSE`).
* `GPUArray.h:1198`: `resize(n)` of a NULL array leaves pitch and height at 0.
* `GPUVector.h:266`: `operator=` assigns to a temporary; the vector gets the size of the other without its memory.
* `ParticleData.cc:2142`: `addParticle()` leaves angular momentum and moment of inertia as they were at that index.
* `PotentialPairGPU.h:195`: With two lists, or an analyzer of the next run in the same step, precomputed forces survive a migration: `hasBeenUpdated()` is false though the list was rebuilt.
* `NeighborList.cc:1109`: With `m_every = 1` and no distance check the check is made nevertheless.
* `NeighborList.cc:1098`: A dangerous build is not counted when the rebuild is forced.
* `NeighborList.cc:530`: A ring of three bonds makes `addExclusion(C, C)` write two entries where it made room for one (`Rings`).
* `nlist.py:307`: `reset_exclusions()` without arguments does not store the choice, so exclusions come back; the default is applied by the first run only (`nlist.py:183`).
* `CellList.cc:186`: A wider ghost layer alone changes `m_dim` after the memory was sized (`GhostAlone`).
* `CellList.h:224`: `setMultiple()` does not set `m_params_changed`.
* `CellListStencil.cc:183`: The x axis of the stencil asks for `periodic.z`.
* `NeighborList.cc:394`: `setRBuff()` leaves the cell width as it was (`BuffAlone`).
* `CommunicatorGPU.cc:1508`: With more than one stage, a bonded ghost for a corner may be lost on the way.
* `CommunicatorGPU.cu:1540`: The direction of a group's ghosts is decided by its first local member for all of them.
* `ParticleGroup.cc:680`: A static group keeps tags of particles that are gone; when the tag table shrinks they index past it.
* `ParticleGroup.cc:557`: `groupUnion()` acquires handles before a call that may replace the arrays.
* `DCDDumpWriter.cc:303`: Only the root asks for a count that is collective while a change is pending (`RootQueries`).
* `NeighborListGPUTree.cu:141`: `x || y || z && idx < N` lets ghosts beyond the layer along x or y stop the build.
* `NeighborListGPUTree.cu:611`: From three equal Morton codes on, `findSplit()` and `determineRange()` disagree.
* `NeighborListGPUTree.cu:866`: No fence between the box of a node and the lock of its parent (`InOrder`).
* `System.cc:619`: A run that SIGINT ends integrates its last step again in the next run; analyzers do not repeat. In the repeated step `compute(t + 1)` returns early (`Compute.cc:135`), so the sum is of forces at the positions of the first attempt; with a new integrator and a sort, which leaves `m_last_computed` alone, also in the step before (`redone`).
* `System.cc:459`: The fields of an item added or rescheduled between two runs are requested after the force of the first step was computed, since `prepRun()` computes nothing then (`IntegratorTwoStep.cc:355`): in that step the item reads a force without them (`late`).
* `System.cc:135`: A phase is added, where `analyze.py:321` says it is subtracted.
* `System.h:320`: `setVariablePeriod()` goes on with the old frame number.
* `System.cc:636`: The error lock is never reset: a caught error silences a later one of another rank (`Caught`).
* `Messenger.cc:187`: The two accesses of `error()` are not ordered by MPI: two ranks may speak, or none, and then all wait in the barrier of the catch clause (`Reordered`).
* `Autotuner.h:137`: Disabling during the first sweep keeps the parameter under test, not the first one.
* `CachedAllocator.h:224`: `CHECK_CUDA_ERROR()` synchronises and throws for any earlier error: a block that `cudaMalloc()` did return is then in no map (`lost`).
* `CachedAllocator.h:239`: A throw here leaves the new block in no map (`stray`) but counted, and the cached one in `m_free_blocks` though it may be freed (`dangling`): a script that catches the exception can be given it again. The model stops there ("broken").
* `CachedAllocator.h:145`: A throw in `free_all()` leaves the rest allocated, and the exception leaves a destructor.
* `CachedAllocator.h:228`: The limit of the cache is looked at on a miss only.
* `IMDInterface.cc:416`: A client that toggles or drops the connection starts a run that was to wait for GO.
* `IMDInterface.cc:459`: A NULL of `vmdsock_accept()` goes to `imd_handshake()` unseen; the model takes `accept()` to succeed.
* `IMDInterface.cc:231`: A signal that arrives in a run that is not paused is reported as one during a pause.
* `IMDInterface.cc:195`: Ranks other than the root run the loop on sockets they never opened.
* `IntegratorTwoStep.cc:355`: Only the first run computes net force and accelerations; a new force or a larger group starts from old ones.
* `ForceCompute.cc:161`: Moving a particle between runs in the same step does not make forces stale (`Edits`).
* `LoadBalancer.cc:456`: An exception of the solver is thrown again on the root only; the others wait in the broadcast. The model takes the solver to succeed.
* `ParticleData.cc:823`: `initializeFromSnapshot()` may throw (also at 760, 878 and 1023) after the tags were cleared (768); the model takes snapshots to be valid.
* `IntegratorTwoStep.cc:340`: The case Isotropic falls through to Automatic.
* `IntegratorTwoStep.cc:294`: The degrees of freedom of a group nobody moves wrap around in 32 bits (`UIntSpan`).
* `DomainDecomposition.cc:635`: A particle on a cut is placed in the domain that ends there; migration takes the one that begins there.
* `DomainDecomposition.cc:345`: The assertion on the number of fractions fails for the sizes both constructors pass.


## 6. Proofs

TLC checks small instances; the theorems here hold for every value of the
constants that satisfies the named assumption of the component.  A property in the
second column is the very definition that the run of section 3 checks; those in
parentheses are conjuncts of the property named after them.  Every inductive
invariant was checked by TLC before it was proved, except that of Autotuner, which
says that a history exists and cannot be evaluated.

| Theorem | Property | Assumes | Invariant |
|---|---|---|---|
| `GPUArrayProofs!ArraysCoherent` | `Coherent` | `GPUArrayAssumption`, `ClientSyncs` | `IInv` per object and handle |
| `GPUArrayProofs!OneArray` | `ImplementsLogicalArray` | `GPUArrayAssumption`, `ClientSyncs` | the same; `View` of every operation |
| `ParticleDataProofs!TagPoolCorrect` | `TagPool` | `ParticleDataAssumption` | `OwnInv` |
| `ParticleDataProofs!ParticlesCorrect` | `ParticlesRight` | `ParticleDataAssumption` | `OwnInv`, `Room` |
| `ParticleDataProofs!StaleFree` | `NothingStale` | `ParticleDataAssumption` | `IInv` with `Marks`, `Bare`, `WireFinite` |
| `CachedAllocatorProofs!AllocatorSafe` | `BlocksSafe` | `AllocatorAssumption` | `TypeOK`, `NoLeak`, `OwnBlock`, `BigEnough` together |
| `CachedAllocatorProofs!BytesCounted` | `Accounting` | `AllocatorAssumption` | the same, with `Counted` |
| `NlistStorageProofs!StorageCorrect` | `StorageRight` | `StorageAssumption` | `Apart`, `Noted`, `Filled`, `Fits` |
| `TeardownProofs!ErrorStream` | `ErrorLock` | `TeardownAssumption` | `CallsInv`, `StepInv`, `LockInv` |
| `IMDInterfaceProofs!Connection` | `ConnectionSafe` | `IMDAssumption` | `Types`, `Inside`, `Safe` |
| `RunLoopProofs!NothingMissed` | `NeverMissed` | `RunLoopAssumption` | `Ahead` |
| `RunLoopProofs!PeriodsKept` | `ExactlyPeriodic` | `RunLoopAssumption` | `Ahead`, `Periodic` |
| `RunLoopProofs!FieldsRequested` | `FlagsReady` | `RunLoopAssumption` | `Ahead`, `Flagged`, `Provided` |
| `AutotunerProofs!TunersAgree` | (`ParamsAgree` of `TunerRight`) | `AutotunerAssumption` | `Typed`, `Sampled`, `InStep` |
| `AutotunerProofs!TunersMeet` | (`BarrierFills` of `TunerRight`) | `AutotunerAssumption` | the same |
| `AutotunerProofs!TunersSampled` | (`SamplesTaken` of `TunerRight`) | `AutotunerAssumption` | the same |

**GPUArray.**  That a handle shows the current contents is not inductive: it says
nothing while a copy or a kernel is pending.  `IInv` adds for each object and its
handle that what is in flight is accounted for by the handle (`InFlight`); that the
location includes the side the handle is on, and only that side when it may write
(`AtHandle`); that memory beyond the allocation is never touched, the two copies
agree where the location says so, and mapped objects do not use their device copy
(`Agree`).  `IInv` speaks of one object at a time, so each operation on an object
has a lemma (`AquireObject`, `ReleaseObject`, ...), which the lemmas of the actions
combine.  `ClientSyncs` is not a property of the class but a duty of its clients;
without it the theorem is false, as TLC shows with `ClientSyncs = FALSE`.

**GPUArray implements LogicalArray.**  The refinement mapping shows each object as
its contents, `View`: the copy the location names, with what is still in flight
applied to it.  One group of lemmas says what every operation on an object does to
its `View` (`AquireView`, `KernelWriteView`, `CompletedView`, `ReallocatedView`,
...): making a handle changes nothing but the elements to be overwritten, a copy or
a kernel that ends changes nothing, a resize keeps the elements both shapes have.
The second group says which step of LogicalArray each action is
(`AcquireSimulates`, `Resize2DSimulates`, `PairSimulates`, ...), and that the
completions are stutters (`Stutters`).  The invariant is needed in every one: only
with it is the copy a handle reads the one `View` names.

**ParticleData.**  `NothingStale` speaks of quiet states, so its invariant says
what holds while particles are under way: a rank that has nothing to send has no
marked particle (`Marks`), there are no ghosts then (`Bare`, or a mark on a slot that
a ghost used could survive), and messages are finite (`WireFinite`).  That the
arrays keep their type through `removeParticles()` and a snapshot rests on
`InOrderBijection`: the elements of a finite set, numbered by how many are smaller,
fill `0 .. Cardinality(S) - 1` exactly.

**Ownership of particles.**  `ParticlesRight` and `TagPool` speak of what one sees
when no particle is under way; `OwnInv` follows each particle on its way.
`TablesRight`: on every rank the tables `m_tag` and `m_rtag` are inverse.
`Apart`, `MessagesDistinct`: a particle is on one rank or in one message, once.
`InUse`: the tags in use are those of particles that are somewhere.  `Routes`: no
message is overwritten before it is taken.  `Backed`: ghosts are of particles that
live on another rank.  `Pool`: recycled tags are distinct, not in use, and with
those in use all that were given out.  `TablesRight` speaks of all tags that were
ever given out (`Known`), not of those `m_rtag` reaches at the moment: when the
highest tags are removed the table shrinks, and it grows over the old entries
later, which therefore have to read NOT_LOCAL.  Each operation has a lemma on the
tables of a rank (`SwapLastInverts` for `removeParticle()`, `ScatteredInverts` for
a snapshot, ...) and one on the invariant (`RemoveParticleOwn`, ...).  `Room`, that
the arrays hold all particles and ghosts, rests on `GrownEnough`: the loop that
grows by an eighth ends, at a capacity that suffices.  Its induction is over the
smallest number of turns for which the claim could fail (`Smallest`).

**NlistStorage.**  `StorageRight` looks at the list before a build and after
`compute()` has returned; the invariant says what holds on the way.  `Apart`: unless
an update is forced, the rooms of the particles lie one behind the other, inside the
memory, also while nothing is computed, because an update that is not forced uses
the head list of an earlier one.  `Noted`: after a build `m_conditions` holds, for
each type, the largest number of neighbors that found no room, and nothing else.
`Filled`: what had room is written.  `Fits` is why two builds are enough: the room
found after an overflow is for the numbers that overflowed, which no second build
can exceed.  `HeadsBuilt` is the lemma about `buildHeadList()`; it rests on
`HeadsApart`, that the running sums of rooms are apart, and on `AllocSizeEnough`,
that the loop that grows the memory ends with enough.  The model writes the two loops
with a fold and with a recursive function, and that such a function exists is
itself proved by induction (`SumsExist`, `LoopExists`, from `Induction` for sets of
numbers).  `WrittenOnce` makes the parallel writes of a build a function of the place.

**CachedAllocator.**  The three parts support each other: a block stays large
enough over a miss because the new address is in no map (`NoLeak`), and what a
scope gives back is nobody else's (`OwnBlock`).  A block is accounted for while it is
in no map of the code: `Making` is the one of a miss, and `lost` and `stray` are what
a throw at one of the two checks leaves; nothing else is ever lost.  `TolBound` is the arithmetic of the
tolerance.  `Counted` is `Accounting` with the sum over the blocks written as a
function on the subsets of `dev` (`Sum`, shown to be the sum of the module in
`SumIs`).  That adding or taking away a block adds or takes away its size whatever
the order of summation is an induction over the subsets of a finite set
(`SubsetInduction`, by the well-founded order of strict subsets); `ResidueOfSum` is
the arithmetic modulo the width of the counter.

**Teardown.**  Nothing is assumed about the order of the two accesses of `error()`.
Only a call that read 1 takes the lock: the one that moved the counter from 0 or, if
its `MPI_Get` came first, the one that moved it from 1.  `LockInv` says so of all that
have it, with `CallsInv`: no rank is noted as the first or second caller before the
counter moved that far.  `StepInv` keeps the steps of the ranks within the run, which
the type of `step` needs.

**IMDInterface.**  `analyze()` is many steps with clients moving between them.
`Inside` says what a call may rely on: the number of particles is the one the buffer
was sized for, and an active client is one that sent GO.

**RunLoop.**  `NeverMissed` is not inductive within a step: between analyzers and
updaters the schedules of one are ahead and those of the other may be at the
present step.  `Ahead` says which; `Periodic` that a fixed schedule's next step is
a multiple of its period from its start, at most one period away, and that all
multiples before it were executed; `Flagged` that the requested fields cover what is
due when forces are computed; and `Provided` which items the force serves that was
evaluated last, for the present step or, when the step was interrupted, for the next
one.  The force for the next step is needed because `compute()` may take it again when
that step is repeated: an item that is due there was due when it was evaluated, or was
touched by the script since, also if it executes once more in between.  The arithmetic is in five lemmas (`DivMod`,
`SmallMultiple`, `Multiple`, `Gap`, `Shift`).

**Autotuner.**  That two ranks with the same operations behind them agree is not
inductive: it says nothing of ranks that are operations apart.  `InStep` says that
there is one history for all ranks: a list of operations, of which every rank has
executed a beginning and has the rest before it (`Lockstep`).  All of a tuner but
its samples and parameter, its control part `Ctl`, is a function of the operations
behind it (`OperationStep`), so all ranks reach `computeOptimalParameter()` at the
same place of the list; no rank is past a computation that another has not
finished (`Past`, `NobodyPast`); and the parameter after each operation is one for
all ranks.  `TunersMeet` follows: a rank that is not in the barrier is behind it.
Only that the optimum is the best element is not in the proof, which holds for any
value that rank 0 broadcasts.

Only model-checked, because the provers cannot reach it: every liveness property
(`Returns`, `Completes`, `ComputeEnds`, `QueryEnds`, `RunEnds`, `Noticed`,
`KeepsTuning`); the trees, which are recursive (`TreesRight`, `NeighborsExact`);
that the tuner's optimum is the best element (`BestInUse`, and the type of what is
found), because `SortSeq` has no definition the provers know.

Only model-checked, though nothing of this kind stands in the way: the
refinements of `SequenceStore` and `FlagRegister` (`OthersImplement`) and
`StoragesRight`; the exchanges of the communicators and of groups (`GhostsRight`,
`Matched`, `GPUGhostsRight`, `BondsFollow`, `GroupsCurrent`) and the cells
(`CellsRight`, `SearchComplete`), where the geometry of the grid is most of the
work; `DecompositionRight`, `BalanceRight`, `BroughtHome`; `NeighborList` and the
exclusions (`ListsFresh`, `RanksAgree`, `ExclusionsRight`);
`NetForceRight`, `SnapshotTrue`.

## 7. What is not modelled

* Potentials, integration methods, rigid bodies, kernels: floating-point arithmetic.
  Their effect on arrays is in GPUArray as kernel writes, on forces in Integrator.
* Snapshots and SystemDefinition: containers; the part that changes state is
  ParticleData's `initializeFromSnapshot()`.
* Initializers, analyzers, dump writers, python: file formats and scripts.  What
  they call of the classes above is in the models of those.
* Within components that are modelled in part: `takeSnapshot()` and the GPU versions
  of adding and removing particles (ParticleData); several particle types
  (Communicator); the third dimension and the fields other than tag and position
  (CommunicatorGPU); the Hilbert curve (SFCPackUpdater takes any order); exclusions
  from angles and dihedrals, which follow those from bonds; NaN positions and the GPU
  version of CellList; forces that differ between runs in RunLoop (they do in
  Integrator); runs without an integrator; the removal of `isotropic_virial` with rigid
  bodies; statistics and messages for the user everywhere.
* Exceptions that are thrown inside a step, are not those of `error()` or of the
  allocator, and are caught by the script; in particular those of
  `initializeFromSnapshot()`, of the load balancer's solver and of `accept()` (section 5).

## 8. Plan

1. Proofs: the refinements of `SequenceStore` and `FlagRegister`.
2. Proofs per component of the properties the MC modules compose: `Exclusions`, the
   group cache of ParticleGroup, the net force of Integrator.
3. Models: several particle types in Communicator; anisotropic forces.
