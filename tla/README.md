# A TLA+ verification of vulkanite

vulkanite is a C++ library (`vulkanite/`, C interface `vulkanite/include/vulkanite/vulkanite.h`) that puts an
OptiX-like interface on Vulkan ray tracing: an application creates contexts on GPUs, in a context ray generation and
miss programs, geometry types, geometries and acceleration structures, textures, buffers and compute kernels; builds the
pipeline and the shader binding table (SBT); and launches. This directory holds TLA+ modules for the parts of it that
keep state, TLC models that check them, and TLAPS proofs.

Contents: 1 the system, 2 the modules, 3 the runs, 4 fairness and deadlock, 5 the proofs, 6 what the code does that its
documentation does not say, 7 what is not modelled, 8 the plan, 9 how to run it.

## 1. The system

### Parts, state and operations

| part | state | operations that change it |
|---|---|---|
| driver instance (`DriverInstance`) | the logical devices it found; the handle of the Vulkan instance | `vknInitialize`, `vknTerminate` |
| choice of GPUs (`PhysicalDevice`, `findDevices`) | what Vulkan lists | none after the start |
| logical device (`LogicalDevice`) | `contextsOnThisDevice`, the queue, one command pool, **one command buffer** | creation, `terminate` |
| context (`Context`) | `appUseCount` (a `shared_ptr` and a count for each object of the application), the pipeline, the SBT buffers, the SBT range allocator, the set of uniform buffers, a reference to itself | every create call, `buildPipeline`, `buildSBT`, `launch`, `terminate` |
| pipeline (`RTPipeline`) | `std::set`s of types (ordered by address), lists of raygens, miss programs, images and samplers, the pipeline, the shader group handles | `track`/`forget`, `build`, `writeHeader` |
| types and objects (`SBTObject`, `RayGen`, `MissProg`, `GeomType`, ...) | programs, `shaderGroupIndex`, user data | `setIS/AH/CH`, `setData` |
| acceleration structures (`Accel` and its subclasses) | range of SBT entries, Vulkan handle and buffer, geometries or instanced accels | constructor, `build`, destructor |
| range allocator (`RangeAllocator`) | freed ranges, `maxAllocedID` | `alloc`, `release` |
| textures (`Image`, `Sampler`, `DSHelper`, `DescriptorPool`) | IDs, lists with holes, pool, layout and set per list | creation, destruction, `createLayout`, `createDS` |
| compute kernels (`Compute`) | pipeline; **statics** for pool, layout and set | creation, `launch` |
| buffers (`DeviceBuffer`) | device memory, a mapped pointer | creation, `map`/`unmap`/`upload`, `free` |
| programs (`ShaderModule`, `ShaderProgram`) | a weak cache by entry point; the programs the pipeline tracks, their stage numbers | `ShaderModule::get`, `set*`, the last user's destructor |
| `prime/`: nearest hits of rays | the application's array of hits, the hurdle and the best hit of a ray on the GPU | `vpTrace` in two modes, the ray generation and any-hit programs |
| `apps/printSanitize.cpp`, samples | a filter of log output; examples | - |

### How they interact

* The application calls; everything else follows from a call, on one thread. The only other actor is the GPU, which
  executes what a call has submitted. Host and GPU share memory, and `vkQueueWaitIdle()` after every submission is all
  that orders them.
* Objects hold their context's parts by `shared_ptr`: a sampler its image, an instance accel its accels, an object its
  type, everything its device, a device (through the physical device) the driver handle. The context holds what the
  application created. The API destroys single buffers only; everything else dies in `vknTerminate()`, in the order of
  maps and sets of pointers, that is in any order.
* A launch finds a program through three tables filled at three times: the type's `shaderGroupIndex` and the handles
  (`buildPipeline`), the records (`buildSBT`), and the record offset an instance accel copied when it was built.
* The programs in the groups are found through another: a type holds a program it got from its module's map of weak
  pointers; the program is in the pipeline's set while it lives, and a build gives it a number there.
* A shader finds a texture through two more: the slots of the lists and the descriptor sets written from them by the last
  `buildPipeline`.

### What is hard about it, and what makes each part correct

| part | hard behaviour | correct when |
|---|---|---|
| range allocator | any order of destructors; recursion that erases from the vector it walks; `int` -1 converted to `size_t` for an accel without geometries | entries have one owner, none is lost, an accel's entries do not move, the table shrinks |
| pipeline and SBT | numbers depend on heap addresses; a build can throw halfway; types and data change between builds | every record leads to the program and the data of its own object |
| accels | rebuilds below an instance accel; sharing; nested destructors | what is instanced is alive, offsets stay valid, the end leaves nothing |
| lists and textures | IDs are reused; constructors throw after taking an ID; sets are snapshots | a texture object names what the set binds; 0 stays invalid; sets are freed from living pools |
| lifetimes | lists change while they are walked; statics outlive everything; `exit(1)` in a destructor | everything dies before what it needs, `vknTerminate()` ends |
| submissions | one command buffer and reused buffers shared with an asynchronous GPU | every call's result is what was asked for; nothing is touched under a pending command |
| choice of GPUs | a retry, several types, a filter, an order | the devices are those asked for, best first |
| programs | programs die when they are replaced and are made again at the address of another; two modules have entry points of one name; the cache does not look at the stage; stage numbers are addresses in order, kernels left out; SPIR-V that breaks off | a pipeline runs what was last asked for; nobody finds a dead program; only one capability is stripped |
| prime | the GPU meets hits in any order, several times, and shortens the ray meanwhile; `NEXT_HIT` starts from what the last call left | the records the device code writes go from nearest hit to nearest hit; none is skipped |

The full list of hazards, each at its line with the properties that cover it, is in `PROJECT.json`.

## 2. The modules

| module | models | instantiates / extends |
|---|---|---|
| `SbtSlots` | abstract: exclusive, contiguous, immovable sets of slots | |
| `RangeAllocator` | `RangeAllocator.cpp`, `Accel`'s constructor and destructor | `SbtSlots` by the refinement mapping `slots[a] = SlotsOf(sbtEntries[a])` |
| `ShaderTables` | `RTPipeline::gatherPrograms`, `build`, `writeHeader`, `Context::buildSBT`, `launch`, creation of types and objects | `RangeAllocator` |
| `AccelTree` | ownership, building and teardown of accels | `RangeAllocator`, whose contract is `RangesSpec` |
| `IndexedList` | `ListOf`, `IndexedListOf` | |
| `SpirvCapability` | `stripStoragePushConstant8`, its loop and a reference definition without one | |
| `ShaderPrograms` | `ShaderModule`, `ShaderProgram`, the programs of types and kernels, `gatherPrograms` as far as programs go | `SpirvCapability` |
| `HitOrder` | `prime`'s order of hits | |
| `HitSequence` | abstract: the sequence of `PrimeHit` records the device code means to write for one ray | `HitOrder` |
| `PrimeTrace` | `vpTrace()`, `deviceCode.slang` and the GPU's traversal, for one ray | `HitOrder`; `HitSequence`, implemented as `SequenceSpec` |
| `DescriptorSets` | operators on a `DescriptorPool`/`Layout`/`Set` trio | |
| `DescriptorTables` | images, samplers, their descriptor sets, texture objects | `IndexedList` twice, `DescriptorSets` |
| `Lifetimes` | driver instances, devices, contexts, kernels, statics, `vknTerminate()` | `DescriptorSets` |
| `DeviceSelect` | `vknInitialize()` down to the logical devices | |
| `DeviceQueue` | host and GPU, one command buffer, buffers, submissions and waits | |
| `RangeAllocatorProofs`, `ShaderTablesProofs`, `AccelTreeProofs`, `DescriptorTablesProofs`, `LifetimesProofs`, `DeviceQueueProofs`, `ShaderProgramsProofs`, `PrimeTraceProofs` | the theorems | the module they are about; `ShaderTablesProofs` also `RangeAllocatorProofs`, `LifetimesProofs` also `DeviceSelect`; `DescriptorTablesProofs` has those about `IndexedList` too |
| `MC*` | the instances TLC checks | |

Correspondence and the choices behind it:

* **RangeAllocator.** `ConstructReusing`, `ConstructAtTop` and `ConstructEmpty` are the ways through
  `Accel::Accel` and `alloc()`; `Destroy` is `~Accel` and all of `release()`. `release()` recurses whenever it merged;
  `Coalesced` does that twice, and `CoalesceIsDone` says (and is proved to say) that a third level would find nothing. An
  accel without geometries has begin `int` -1 and its destructor still calls `release(-1, 0)`: the model keeps -1 and 0,
  because the converted begin is only ever compared for equality, and the wrap-around of -1 + 0 compares alike. The
  module states the contract of the class for any order of calls. Through the C API an accel dies in `vknTerminate()`
  only; AccelTree models that. The assertion on negative sizes is not modelled, since no caller passes one.
* **ShaderTables.** A type is a number, its address: `InOrder` is the iteration order of `std::set<Type *>`, so that TLC
  tries every relative order of creation and address. `BuildPipelineThrows` is the throw at a user type without
  intersection program: some types renumbered, old handles still there. `phase` is no variable of the program: it
  remembers whether the application followed the order of the samples (types, pipeline, objects, SBT, launch) and guards
  nothing but `Launch`. An instance accel reserves entries that nothing writes (`InstanceAccel.cpp:19`): `Unwritten`.
  Two bounds are stated as constants: `Tuned`, the objects whose data is set, and `MaxBuilds`. The assumptions say that
  addresses are positive, objects of different kinds differ and the bounds are natural numbers.
* **AccelTree.** Constructions are the allocator's actions, but `~Accel` (`Release`) calls `GiveBack` with no guard, as the
  code calls `release()`: it does not ask whether the accel lives or has given its range back before. The allocator's
  contract (`Destroy`) allows that once, while the accel lives; `RangesSpec` says the nesting destructors keep to it, and
  fails as soon as a destructor can run twice (its mutant: references of an accel whose own destructor
  has begun are not counted, so that an accel it instances twice dies twice). `unwinding` is the stack of destructors in progress: `DropAppRef` starts one for each entry of
  `appUseCount`, `DropInstance` nests one in `~InstanceAccel`, `Release` is `~Accel`. A build's address is the number of
  the build, since every build makes a new structure.
* **IndexedList** is the same code twice in the repository (`ListOf`, `IndexedListOf`); nothing but an object's
  constructor and destructor calls it, so objects are tracked once. TLC checks it where it is used, as the two lists of
  `DescriptorTables`. There an ID is never given out twice, since the API destroys no image or sampler before its context
  ends; what reuse would do is covered by the theorems, for any order of calls.
* **ShaderPrograms.** A program is its address. `Addresses` are the blocks the heap has; a block is free again when its
  program is dead and no weak pointer keeps it, so programs do come back at an address they, or others, had. `Get` is
  `ShaderModule::get()` with the assignment of its result, in which the program held before may die and leave the
  pipeline's set. A compute kernel is in that set too, without an entry in any map. Three variables are ghosts: `current`
  (nothing was asked for since the last build), `asked` (what each user asked for last) and `stageAsked` (the stages an
  entry point was asked for). `Given` bounds what is set on types, `Followed` the modules whose programs are used (the
  code of the others only matters when they are created). Codes are assumed to be sequences of natural numbers.
* **SpirvCapability** works on words, as the loop does. The reference definition, `WithoutCapability`, finds the
  instructions as a set of places without walking from one to the next: the least set that has the place behind the header
  and, with an instruction, the place behind it. A result is right if it has as many words as are kept, and each of these
  stands behind those kept before it. Words are natural numbers; of a word that does not fit 32 bits the length would be
  cut off in the code, but there is none.
* **PrimeTrace.** One ray, because rays share nothing. Distances are numbers of which the even ones are floats and the odd
  ones what `nextLowerThan()` makes of them, so that stepping back stays below the hit and above the one before.
  `Ignore`, `Take` and `Accept` are the three ways through the any-hit program: ignoring the hit below the hurdle, taking
  it as the best and ignoring it, and returning without ignoring it, after which the GPU looks no farther. The GPU calls
  it for hits in its interval in any order, repeatedly if `MayRepeat` (the geometry flag against it is not set), and ends
  when everything nearer was met. `ModelsAssumption`: the IDs of two hits differ (section 6 has a case where they would
  not), and no hit is exactly at the end of the ray, where it is up to the GPU. A result is the `PrimeHit` the device code
  writes into the application's array and reads from it again, in one layout. What an application finds there when it
  reads `VPHit` records, as `prime.h` has it, is not modelled (section 6).
* **DescriptorTables.** `CreateImage` takes the ID before the format is looked at; when `toVulkan()` throws the pointer
  stays in the list, and what a build reads through it is `Garbage` or the descriptor of an image that was allocated in
  the freed memory (`Readings`). `HalfWord` is the 2^32 of the texture object.
  The assumptions say that images, samplers and null differ and that the bound `MaxBuilds` is a natural number.
* **Lifetimes.** What outlives its owner in the process is here: the flag `created` of `rebuildDescriptors()`, and the
  pool, layout and set of `Compute::buildPipeline()` (`statics`) with the device of the first kernel (`staticsOn`).
  `CreateCompute` makes all three anew for every kernel, in the code's order, pool first: the set of the kernel before is
  then freed after its pool is gone, which the trio records in `strayFree` (section 6).
* **DeviceSelect** has one action per stage of the constructor; the machine and the request are chosen in the initial
  state. `findDevices()` goes through all GPUs once for each type, the best first: `MatchGPU` is one round of its loop,
  `gpu` the loop variable and `pass` the type whose loop it is. `VK_CALL` raises SIGINT when a device cannot be created:
  result `"killed"`. Its names do not meet those of `Lifetimes`, so that one module can hold the proofs about both:
  `selected` is the `devices` vector being filled.
* **DeviceQueue.** A call of the API is a sequence of steps (create, upload, begin, record, end, submit, wait, destroy)
  that the action of the call puts into `todo` and the host works through, one step at a time; `Execute` lets the GPU run
  any submitted command at any time in between, as nothing in the code orders two submissions but the wait. A kernel's
  effect is to copy what it reads to what it writes, so a stale or destroyed input is visible in the result. `wanted` and
  `linked` are ghosts: what the calls so far should have left in each buffer, and whether the application built the
  instance accel after those below it. Of the SBT only the buffer of the hit group records is here, and of a context's
  scene one accel of each kind. Memory given back reads as `Garbage`. A map, the application's stores and the unmap are
  one upload. A buffer that is replaced through its `shared_ptr` keeps its name; the replacement starts as `Garbage`. The
  loop over the bounds kernels is a step of its own (`"loop"`), which unfolds into the round of one geometry and the loop
  over those after it. The assumptions: there is a geometry, and garbage is neither a value nor an array of values.

Definitions whose comment begins with "Mutant" are variants of the definition after them, each with a bug somebody might
write; they are used to see that the property they are listed with in `PROJECT.json` notices it, and nowhere else.

## 3. The runs

| run | instance | what it shows |
|---|---|---|
| `ranges` | 4 accels of 0 to 2 entries, every order of construction and destruction | held and freed ranges partition the table (`Partition`), no entry is shared, the table shrinks to nothing, `release()` recurses at most twice, and the allocator implements `SbtSlots` |
| `tables` | one raygen, one miss program, two geometry types (one of user kind) at addresses around one another, 2 geometries, 1 geometry accel, 1 instance accel, 2 pipelines | after `buildPipeline` and `buildSBT`, whatever came before, group numbers are current and every record is its object's |
| `accels` | 2 geometry accels, an instance accel with up to 2 instances and one with 1, which may share, 3 builds | instanced accels live, offsets and addresses are current, termination ends with nothing left, and every accel's range goes back to the allocator once |
| `descriptors` | 3 images in a good or a bad format, 2 samplers, 3 builds | IDs lead back to their objects, texture objects sample what they name, 0 is invalid, pool, layout and set of a list agree (sizes, and the pool a set is freed from), samplers keep their images, nothing is left |
| `lifetimes` | 2 driver instances, 3 GPUs, 3 contexts, 2 kernels | contexts are visited once while alive; kernels, contexts, devices and drivers die in that order, but the device of the statics never; one context of the process at most has its uniform buffers set, and that one loses it in time; only the statics make the process exit; `vknTerminate()` ends |
| `devices` | every machine with up to 3 GPUs of 4 types and 3 sets of extensions, every nonempty request | devices are sorted, and are those asked for |
| `queue` | 2 geometries with 2 data values, 2 application buffers, all three kinds of accel, SBT, image and launch in every order | results are those asked for although the GPU runs when it likes; what a submitted command uses exists, and the host changes neither the command buffer nor any buffer until it is done; every call returns |
| `programs` | 2 modules with an entry point of the same name, a raygen, a kernel, a user type with a bounds kernel, a triangles type, 4 addresses; 11 codes | every group runs what was last asked for, as the stage it was asked for (ray generation, closest hit, intersection, kernel and bounds kernel; any-hit and miss programs take the same way and are not instantiated); the set of programs is exactly those held, one for an entry point; the driver gets a module's words in order without the capability |
| `prime` | every model of 4 hits at 6 distances: one before the interval, one at its start, three inside, one behind | the device code's records go through the sequence of nearest hits (`HitSequence`), none is skipped when distances differ, and no ray starts before its origin |
| `tables_launch` (violation) | 2 raygens | section 6 |
| `lifetimes_terminate` (violation) | one context, one kernel | section 6 |
| `prime_ties` (violation) | 4 hits at one distance, each met once | section 6 |

Why the bounds are enough. A release involves at most three ranges and an allocation one, so four accels cover a range
between two freed neighbours next to a live one; sizes 0 to 2, and merged ranges of more, give fits that are exact, too small and too large. (The
allocator's properties are proved for any number besides.) Two geometry types suffice for every order of address against
creation, and the accel's range starts at 0 or behind the instance accel's, so index and offset are never equal by
accident. Two instance accels sharing two accels make destructors nest in both orders; three builds
are a TLAS, the accel below it again, and the TLAS again. Three images let a failed one be followed by two more. Three contexts on two
GPUs of one instance and a GPU of another separate "first of the process" from "first of the device". Two geometries are
what it takes to overwrite one's data while the other's kernel runs; two values tell stale from fresh. Two modules tell
a name from an entry point; four addresses are room for the two cached programs and the two kernels there can be at once,
in any order, and with fewer alive addresses are used again. Of four hits three can be at one distance (the one that was
taken, the one that ended the ray, and the one that was not met) with another behind; more only repeat this. Three distances
inside the interval let `NEXT_HIT` follow itself.

Symmetry is used where the elements are interchangeable and what is checked is safety (`ranges`, `tables`,
`descriptors`, `programs`), never with a liveness property.

## 4. Fairness and deadlock

* `AccelTree` and `Lifetimes` assume `WF_vars(Teardown)`: `Context::terminate()` and `vknTerminate()` are straight-line
  code of the host thread; once called they go on. Nothing makes the application call them.
* `DeviceQueue` assumes `WF_vars(Host)`, for the same reason, and `WF_vars(Execute)`: the GPU gets to the end of what was
  submitted (a lost device raises SIGINT in `VK_CALL`, and a shader that never ends is the application's).
* The other specifications have no liveness property and no fairness.
* Deadlock is not checked in the runs of `accels`, `descriptors`, `lifetimes`: there the program ends; nor in `devices`,
  which ends when `vknInitialize()` has returned. It is checked in `ranges`, `tables`, `queue`,
  `programs` and `prime`.

## 5. The proofs

**`RangeAllocatorProofs`**, for any set of accels and any sizes, from the assumption `MaxEntries \in Nat`:
`PartitionInvariant` (`Spec => []Partition`), `LiveRangesNeverOverlap`, `TableShrinks`, `ReleaseIsShallow` and
`AllocatorImplementsSlots` (`Spec => SlotsSpec`).

`LiveRangesDisjoint`, the property one cares about, is not inductive: a freed range that overlaps a held one would be
handed out again. `Partition` adds that freed ranges are unused, maximal (neither overlapping nor adjacent, none at the
end of the table), inside the table, that nothing is lost, and types. The work is in `release()`: a range between freed
ranges touches at most one on each side, since the freed ranges are maximal; so two levels of recursion merge everything,
the union is again apart from what is left, and lowering `maxAllocedID` cannot expose another freed range. The lemmas
follow that: what `RemoveAt` leaves of separated ranges, what one `Coalesce` does, what two do, what `Deposit` does, then
one lemma per action. Refinement: a construction is `Acquire`, a destruction `GiveUp`.

**`ShaderTablesProofs`**, for any types at any addresses, any geometries and accels: `GroupIndicesStayCurrent`,
`HitsAlwaysReachTheirGeometry`, `CallsAlwaysReachTheirProgram` and `TypesAlwaysOK`. It assumes what the module assumes:
positive addresses, different kinds of objects, `MaxGeoms \in Nat` and the other bounds natural. The invariant joins the three properties with `Partition` of the range
allocator (its lemmas are cited through `INSTANCE RangeAllocatorProofs`), with `HandlesCurrent` (the handles are the
pipeline's groups whenever the pipeline is up to date), with `Placed` (an accel's range has an entry for each of its
geometries, and these exist) and with types. Two arguments carry it. A build numbers a type by the types below it in its
set: `GatheredAtItsNumber` shows that the group at that number is the type's own, since no two elements of a finite set of
numbers have equally many below them. And a hit record is written by one accel alone, since an entry in two ranges would
contradict `LiveRangesDisjoint`; that is where the allocator's correctness becomes that of the table. For the types there
are two more parts, `Numbered` (programs, group numbers, groups, handles and counts of builds are in their range) and
`Recorded` (records are of handles and data there can be). Group numbers are bounded by the number of types, so this
theorem alone assumes that there are finitely many; `GatheredParts` counts the groups of a build.

**`AccelTreeProofs`**, for any accels, any sharing and any number of instances: `InstancedAccelsAlwaysLive`,
`OffsetsStayCurrent`, `AddressesStayCurrent` and `AccelsUseTheAllocator` (`Spec => RangesSpec`: although the destructor
gives its range back unasked, it only ever does so for a living accel, and so once). The invariant adds that
what an instance accel refers to lives, that dead accels have no structure and no references, and that a destructor which
has begun belongs to a living accel nobody holds and has begun once; the last is what lets destructors nest, and what makes
`Release` an allowed `Destroy`.

**`DescriptorTablesProofs`** begins with the lists, about `ImageList!Spec`, that is `IndexedList` with any objects and any
order of calls: `IndexedAlways` (`Spec => []Indexed`), `IDsAlwaysLeadBack`, and, for finitely many objects,
`ListIsCompact`. An ID that leads back is not inductive by itself: it needs that the free IDs are exactly the holes and
that none is on the stack twice; otherwise a reused ID could be somebody's. Compactness follows by an injection from the
slots in use into the objects whenever the list grows.

Then, for any images, samplers and formats: `ListsAreAlwaysIndexed`, `ZeroIsAlwaysInvalid`,
`SamplersAlwaysKeepTheirImage`, `SetsAlwaysAgreeWithTheirPools`, `NothingIsEverLeft`, `TypesAlwaysOK` and
`TextureObjectsAlwaysSample`. The last assumes that there are at most `HalfWord` samplers, 2^32 in the code: with more, the
halves of a texture object would run into each other. The first part of the invariant: both lists are `Indexed`, a
living sampler's image lives, the application's references are to living objects, and the default objects have ID 0 from
their construction to the end of the context. It needs that the list of an image that failed to construct is still
indexed. The second part is about the sets: `TriosFit` (what is allocated was allocated from the present pool and fits),
`GrownSince` (while the context runs, a list only grows: what a build wrote is still what the list says, and a sampler in
the set has its image in the other set), `ImagesAreHeld` (an image of the application lives because somebody holds it) and
`NothingLeft` itself. `ImagesAreHeld` is what the end needs: the last reference gone, nothing of the application is alive.

**`LifetimesProofs`**, for any instances, GPUs, contexts and kernels: `OnlyLiveContextsEverVisited`,
`NothingEverOutlivesItsOwner`, `OnlyStaticsEverBlockTheEnd`, `FirstContextAlwaysHasTheUniforms` and `TypesAlwaysOK`. From
`EveryDeviceHasADriver` and `NoneIsNothing`. The invariant adds which devices are listed in which state of their instance,
that a visited device has no contexts but those still in the copy `terminate()` walks, and that clearing the vector of
devices leaves at most the one the statics hold. For the uniform buffers it adds (`UniformsInv`) that the flag is set if
and only if there is a context that was served, that every other context has the trio it was constructed with, and that
the served one is not among those that launched with a null set. For the statics (`StaticsInv`): pool, layout and
set have their types, there is none before the statics are on a device, and that device lives.

About `DeviceSelect`, for any number of GPUs: `DevicesAlwaysSorted` and `DevicesAlwaysThoseAskedFor`. The invariant says
what the loops have done so far: found are exactly the wanted GPUs that the loops have reached, in the order of type and
number (`FoundSoFar`), and the devices are a prefix of what was found (`MadeInOrder`), all of it once an instance is
returned.

**`DeviceQueueProofs`**, for any number of geometries and any values: `WorkAlwaysUndisturbed`,
`ResultsAlwaysThoseAskedFor` and `TypesAlwaysOK`. An invariant on buffers would have to say, for every call and every step
of it, what is done and what is not. Instead `Leads(d, q, s, t)` says that the steps `q`, with the GPU at work only while
the host waits, are possible one after the other from machine `s` and end in machine `t`; one lemma per call (and one for
its parts: a build, the loop over the bounds kernels) shows where the call leads, as in a proof about a
program without concurrency. The invariant is that what is left of the call leads from the machine as it is to one at
rest with the wanted contents. A step of the host takes the first step off that prediction. A step of the GPU anticipates
a part of it, which is sound because the host, whose next step with work pending can only be the wait, has nothing to do
with it in between: that is where the one wait after every submission is needed. The same fact
gives the second half of `WorkIsUndisturbed`: with work pending the host can take no step at all (`NothingHappensUnderWork`).

**`ShaderProgramsProofs`**, for any modules, names, types and addresses: `AlwaysOneProgramPerEntryPoint` and
`PipelineRunsWhatWasAskedFor`, from `AddressesArePositive`, and `TypesAlwaysOK` if the addresses are finitely many. The
first needs that every tracked program that is no kernel is where the map leads from its own entry point, and that the heap does not hand out a block a weak pointer keeps:
`FreeAddresses` is used in the proof. The second adds (`Faithful`) that a user holds a program made from what it asked
for, of the compute stage if and only if it is a kernel; that the map never leads to a kernel or to the program of another
entry point; that only types the pipeline tracks hold hit programs; and that a program has the stage its entry point was
asked for unless there were several. At a build, `StageUnderNumber` then shows that the number of a program, its place
among the staged ones, is where its stage was pushed.

`OnlyTheCapabilityIsEverStripped`, for any modules with any codes (`CodesAreWords`), is about what a loop computes. The prover has no use for
the induction theorems of the library, which take the formula to be proved as a parameter; the proof takes the set of
places for which a fact holds instead, and shows with `WFMin` that it is everything (`SetInduction`, and
`DownwardInduction` from the end of a code to its start). First that the recursive function `Loop` uses exists and is its
own unfolding (`LoopIsDefined`, `LoopUnfolds`). Then `Right`: what the iterations from a place on return is a failure only
if no set of places leads from there to the end, and otherwise there is a set `V` of the places of instructions, contained
in every other (`Reaches`), such that a declaration was removed if and only if `V` has one and the words are those of the
rest (`Keeps`). An iteration puts a place before `V` and the words of its instruction before the others
(`IterationIsRight`, `KeepsInFront`). At the place behind the header `V` is the least set the reference definition
speaks of.

**`PrimeTraceProofs`**, for any model within `ModelsAssumption`: `TypesAlwaysOK`, `DistinctHitsAlwaysAllReported` and
`ImplementsHitSequence` (`Spec => SequenceSpec`). The invariant says of a trace that is running that the ray starts before
every hit it is to find, that the best so far is one of them and at least as near as any that was met, and that the ray
still reaches it; of the calls, that what was reported leads up to the hurdle.

Only model-checked: liveness (`TerminateFinishes`, `TerminateEnds`, `CallsReturn`), which rests on fairness and ENABLED; the
prover handles neither. Every invariant, every action property and every refinement a run checks is a theorem.

## 6. What the code does that its documentation does not say

Three runs each end in a counterexample to a sentence of the repository (quoted in `PROJECT.json`):

1. `tables_launch`: `Context::launch()` never looks at the raygen it is given and passes the whole raygen table; the
   record at its start runs. With two raygens, launching the second runs the first.
2. `lifetimes_terminate`: after any compute kernel was created (a user geometry type with a bounds program is enough)
   `vknTerminate()` ends the process, because the statics of `Compute::buildPipeline()` hold the device and it the driver.
3. `prime_ties`: `deviceCode.slang:84` means to keep the GPU calling for other hits at the distance of the best one. A hit
   there that does not come before the best leaves the any-hit program at its end, without `IgnoreHit()`, and so ends the
   ray at that distance. A third hit there need not be met; if it comes first in the order, `NEXT_HIT` never reports it.

Seen while modelling, without a run of their own:

* `vulkanite.h:113` says `vknInitialize()` returns null when no device matches; `findDevices()` returns an empty list for
  a machine whose GPUs do not match (`DriverInstance.cpp:248`) and the instance is created without devices.
* `PhysicalDevice.h:27` lists the extensions a GPU is chosen by; `LogicalDevice.cpp:106` enables ray queries besides. A
  GPU without them passes the choice, and the process is killed when its device is created (`DeviceSelect`, "killed").
* `Compute.cpp:165` and `177`: kernels on a second GPU use the layout that was created on the first; a second kernel frees
  the set of the first from a pool that was just destroyed (`Compute.cpp:173`, `DescriptorPool.cpp:86`). In `Lifetimes`
  `statics.strayFree` is TRUE from the second kernel of the process on.
* `VKN_TEXEL_FORMAT_R8` and `R32F` are listed as supported (`vulkanite.h`), but `toVulkan()` throws; the failed image's
  pointer stays in the list of images, where the next pipeline build reads through it (`DescriptorTables`, `Garbage`).
* Only the first context of a process that launches gets its uniform buffers set (`FirstContextHasTheUniforms` states what
  does hold).
* The same entry point asked for as two stages is one program, of the first stage (`ShaderModule.cpp:84`):
  `GroupsRunWhatWasAskedFor` excludes it by `stageAsked`.
* `prime.cpp:115` hands the application's array of `VPHit` (`prime.h:54`: a 64-bit `geomDataValue`, `primID`, `instID`, `t`,
  `u`, `v`; 32 bytes) to the device code as one of `PrimeHit` (`deviceCode.h:28`: `primID`, `geomID`, `instID`, `t`, `u`, `v`;
  24 bytes). An application that follows `prime.h` finds other fields in its records, and another record from the second ray
  on; `PrimeTrace` and `HitSequence` speak of the device code's records only.
* `prime` reports a miss with `primID` INT_MAX (`deviceCode.slang:134`), where `prime.h:59` speaks of -1; the 64-bit user
  geometry ID becomes an `int`, and meshes may share one, so that two hits can be equal (`prime.cpp:59`); a model ignores the transforms it is given; `vpContextDestroy` only warns
  that it is missing.
* A rebuild of an accel leaves the instance accels above it with the address of the structure it destroyed
  (`InstanceAccel.cpp:97`); nothing says that they have to be built again (`AddressesCurrent` states what holds if they are).
* An image created after a pipeline build is not bound until the next one: `DSHelper::update()` is empty.
* `UserGeom.cpp:75` uploads the size of the largest geometry type from a vector that may be shorter.
* A kernel that is launched before the first pipeline build binds null handles; nothing says whether it may be.

## 7. What is not modelled, and why

* The arithmetic of build inputs and record sizes, alignment, the choice of a memory type and of a queue family: functions
  and searches without state, whose results go to Vulkan and are read by nothing in the library.
* The mapped pointer of a buffer and `DeviceBuffer::copy()`, which nothing calls; the copying of push constants.
* The end of modules, types and programs in `vknTerminate()`: no call releases them earlier, and nothing is built after.
* Contents of shaders, texels, layout transitions; Vulkan errors, which end the process by SIGINT wherever they occur.
* `prime`'s host code, which forwards to calls the other modules model, in one fixed order; the samples; `printSanitize`,
  a filter with one line of state.
* Most of the repository's lines: `glm`, `stb_image`, `vma`, the SPIR-V headers and `spirv_reflect` are third-party code
  kept beside the library, and `driver/Instance.cpp` is compiled out. The parts modelled above are what vulkanite itself is.

## 8. The plan

Done, in this order, most important behaviour first: `SbtSlots`, `RangeAllocator` and its proofs; `ShaderTables`;
`AccelTree`; `IndexedList`; `DescriptorSets`, `DescriptorTables`; `Lifetimes`; `DeviceSelect`;
`DeviceQueue`; `SpirvCapability`, `ShaderPrograms`; `HitOrder`, `HitSequence`, `PrimeTrace`; the proofs about
`IndexedList`, `DescriptorTables`, `PrimeTrace`, `ShaderPrograms`, `Lifetimes`, `AccelTree`, `ShaderTables`, `DeviceQueue`
and `DeviceSelect`.

Left: several contexts in one `DeviceQueue`, and the uniform set of `Lifetimes` in its launches.

## 9. How to run it

`tlc -workers 2 -config MCRangeAllocator.cfg MCRangeAllocator` for one run (`PROJECT.json` "runs" names the module and the
configuration of each), `tlapm RangeAllocatorProofs.tla` for the proofs. The runs take from seconds to two
or three minutes (`accels`), the proofs up to a few minutes.
