----------------------------- MODULE Lifetimes -----------------------------
(***************************************************************************)
(* Who keeps whom alive, from vknInitialize() to vknTerminate() and over   *)
(* several driver instances of one process: the driver handle, the logical *)
(* devices, the contexts, the compute kernels, and the three variables of  *)
(* the process that outlive them all: rebuildDescriptors()'s `created`, and*)
(* the descriptor pool, layout and set of Compute::buildPipeline().        *)
(***************************************************************************)
EXTENDS Integers, FiniteSets, DescriptorSets

CONSTANTS
  Instances,   \* the driver instances a process may ask for, one after another or together
  Devices,     \* the GPUs; a device below is the logical device made of one
  DriverOf,    \* DriverOf[d]: the driver instance that found d
  Contexts,
  Computes,    \* vkn::Compute objects: kernels, and the bounds programs of geometry types
  None

ASSUME EveryDeviceHasADriver == DriverOf \in [Devices -> Instances]
ASSUME NoneIsNothing == None \notin Devices \cup Contexts

VARIABLES
  state,       \* state[i]: "none", "running", "terminating", "dropped", "gone"
  devices,     \* DriverInstance::devices, of all instances
  alive,       \* the logical devices not yet destroyed
  tracked,     \* LogicalDevice::contextsOnThisDevice
  copyOfList,  \* the contexts terminate() still has to visit
  visited,     \* the devices whose terminate() has been called
  device,      \* Context::device, None while the context is not constructed
  uniforms,    \* the uniformBuffers* trio of a context
  owner,       \* the context of a compute kernel, None while not constructed
  created,     \* the static flag in Context::rebuildDescriptors()
  staticsOn,   \* the device of the statics in Compute::buildPipeline(), None before
  statics,     \* their pool, layout and set
  bound,       \* the contexts that launched with a null uniform buffers set
  exited       \* exit(1) was called

vars == <<state, devices, alive, tracked, copyOfList, visited, device, uniforms, owner,
          created, staticsOn, statics, bound, exited>>

DevicesOf(i) == {d \in Devices : DriverOf[d] = i}
LiveContexts == {c \in Contexts : device[c] # None}
LiveComputes == {k \in Computes : owner[k] # None}

Init ==
  /\ state = [i \in Instances |-> "none"]
  /\ devices = {} /\ alive = {}
  /\ tracked = [d \in Devices |-> {}]
  /\ copyOfList = {} /\ visited = {}
  /\ device = [c \in Contexts |-> None]
  /\ uniforms = [c \in Contexts |-> NewTrio]
  /\ owner = [k \in Computes |-> None]
  /\ created = FALSE
  /\ staticsOn = None /\ statics = NewTrio
  /\ bound = {}
  /\ exited = FALSE

---------------------------------------------------------------------------
(* The calls of the application.  It makes none while vknTerminate() runs. *)

Callable == ~ exited /\ \A i \in Instances : state[i] \notin {"terminating", "dropped"}

\* vknInitialize()
Initialize(i) ==
  /\ Callable /\ state[i] = "none"
  /\ state' = [state EXCEPT ![i] = "running"]
  /\ devices' = devices \cup DevicesOf(i)
  /\ alive' = alive \cup DevicesOf(i)
  /\ UNCHANGED <<tracked, copyOfList, visited, device, uniforms, owner, created,
                 staticsOn, statics, bound, exited>>

\* Mutant: the context does not register with its device.
CreateContextUntracked(c, d) ==
  /\ Callable /\ d \in devices /\ device[c] = None
  /\ device' = [device EXCEPT ![c] = d]
  /\ UNCHANGED <<state, devices, alive, tracked, copyOfList, visited, uniforms, owner,
                 created, staticsOn, statics, bound, exited>>

\* vknContextCreate().  A context that had its descriptors when it ended is not
\* created again: the next one is another Context.
CreateContext(c, d) ==
  /\ Callable /\ d \in devices /\ device[c] = None /\ uniforms[c] = NewTrio
  /\ device' = [device EXCEPT ![c] = d]
  /\ tracked' = [tracked EXCEPT ![d] = @ \cup {c}]
  /\ UNCHANGED <<state, devices, alive, copyOfList, visited, uniforms, owner, 
                 created, staticsOn, statics, bound, exited>>

\* Compute::buildPipeline(): the statics are constructed on the device of the
\* first kernel of the process and never moved; every kernel makes the pool, the
\* layout and the set anew.  A pool is known by its kernel, and the next kernel
\* is another one.
CreateCompute(k, c) ==
  /\ Callable /\ device[c] # None /\ owner[k] = None /\ statics.pool # k
  /\ owner' = [owner EXCEPT ![k] = c]
  /\ staticsOn' = IF staticsOn = None THEN device[c] ELSE staticsOn
  /\ statics' = SetCreate(LayoutCreate(PoolCreate(statics, k, 1), 1), <<None>>)
  /\ UNCHANGED <<state, devices, alive, tracked, copyOfList, visited, device, uniforms,
                 created, bound, exited>>

\* Context::rebuildDescriptors(): only the first call in the process creates.
RebuildDescriptors(c) ==
  IF created
  THEN UNCHANGED <<created, uniforms>>
  ELSE /\ created' = TRUE
       /\ uniforms' = [uniforms EXCEPT
            ![c] = SetCreate(LayoutCreate(PoolCreate(@, c, 1), 1), <<None>>)]

\* Context::launch() and Compute::launch() begin with the same few lines.
Launch(c) ==
  /\ Callable /\ device[c] # None
  /\ IF uniforms[c].allocated
     THEN UNCHANGED <<created, uniforms>>
     ELSE RebuildDescriptors(c)
  /\ bound' = IF uniforms'[c].allocated THEN bound ELSE bound \cup {c}
  /\ UNCHANGED <<state, devices, alive, tracked, copyOfList, visited, device, owner,
                 staticsOn, statics, exited>>

---------------------------------------------------------------------------
(* vknTerminate().                                                         *)

Terminate(i) ==
  /\ Callable /\ state[i] = "running"
  /\ state' = [state EXCEPT ![i] = "terminating"]
  /\ UNCHANGED <<devices, alive, tracked, copyOfList, visited, device, uniforms, owner,
                 created, staticsOn, statics, bound, exited>>

\* Mutant: only the context created last is visited.
TerminateDeviceVisitingOne(d) ==
  /\ state[DriverOf[d]] = "terminating" /\ copyOfList = {} /\ d \notin visited
  /\ visited' = visited \cup {d}
  /\ copyOfList' = IF tracked[d] = {} THEN {} ELSE {CHOOSE c \in tracked[d] : TRUE}
  /\ UNCHANGED <<state, devices, alive, tracked, device, uniforms, owner, created,
                 staticsOn, statics, bound, exited>>

\* LogicalDevice::terminate(): contexts leave the list while it is walked, so
\* that a copy is.
TerminateDevice(d) ==
  /\ ~ exited /\ state[DriverOf[d]] = "terminating" /\ copyOfList = {} /\ d \notin visited
  /\ visited' = visited \cup {d}
  /\ copyOfList' = tracked[d]
  /\ UNCHANGED <<state, devices, alive, tracked, device, uniforms, owner, created,
                 staticsOn, statics, bound, exited>>

\* Mutant: the layout is left out.
DestroyTrioKeepingLayout(d) == PoolDestroy(SetFree(d))

\* What the destructor of the trio leaves: DescriptorSet, then the layout, then
\* the pool, the reverse of their declaration.
DestroyTrio(d) == PoolDestroy(LayoutDestroy(SetFree(d)))

\* Context::terminate(): what the application created in the context dies with
\* appUseCount, and the context with its reference to itself.
TerminateContext(c) ==
  /\ c \in copyOfList
  /\ copyOfList' = copyOfList \ {c}
  /\ owner' = [k \in Computes |-> IF owner[k] = c THEN None ELSE owner[k]]
  /\ uniforms' = [uniforms EXCEPT ![c] = DestroyTrio(@)]
  /\ tracked' = [tracked EXCEPT ![device[c]] = @ \ {c}]
  /\ device' = [device EXCEPT ![c] = None]
  /\ UNCHANGED <<state, devices, alive, visited, created, staticsOn, statics,
                 bound, exited>>

\* The devices somebody still holds: contexts and all of their objects, and the
\* statics.
HeldDevices == {device[c] : c \in LiveContexts} \cup ({staticsOn} \ {None})

\* Mutant: the vector is cleared before the contexts are terminated.
DropDevicesFirst(i) ==
  /\ ~ exited /\ state[i] = "terminating"
  /\ state' = [state EXCEPT ![i] = "dropped"]
  /\ devices' = devices \ DevicesOf(i)
  /\ alive' = alive \ (DevicesOf(i) \ HeldDevices)
  /\ UNCHANGED <<tracked, copyOfList, visited, device, uniforms, owner, created,
                 staticsOn, statics, bound, exited>>

\* Mutant: the devices are destroyed but stay in the vector.
DropDevicesKeepingVector(i) ==
  /\ ~ exited /\ state[i] = "terminating"
  /\ DevicesOf(i) \subseteq visited /\ copyOfList = {}
  /\ state' = [state EXCEPT ![i] = "dropped"]
  /\ alive' = alive \ (DevicesOf(i) \ HeldDevices)
  /\ UNCHANGED <<devices, tracked, copyOfList, visited, device, uniforms, owner, 
                 created, staticsOn, statics, bound, exited>>

\* devices = {}
DropDevices(i) ==
  /\ ~ exited /\ state[i] = "terminating"
  /\ DevicesOf(i) \subseteq visited /\ copyOfList = {}
  /\ state' = [state EXCEPT ![i] = "dropped"]
  /\ devices' = devices \ DevicesOf(i)
  /\ alive' = alive \ (DevicesOf(i) \ HeldDevices)
  /\ UNCHANGED <<tracked, copyOfList, visited, device, uniforms, owner, created,
                 staticsOn, statics, bound, exited>>

\* Mutants: the instance goes whoever holds the handle; it waits for the others.
EndInstanceUnchecked(i) ==
  /\ state[i] = "dropped"
  /\ state' = [state EXCEPT ![i] = "gone"]
  /\ UNCHANGED <<devices, alive, tracked, copyOfList, visited, device, uniforms, owner,
                 created, staticsOn, statics, bound, exited>>
EndInstanceWhenUnused(i) ==
  /\ state[i] = "dropped" /\ alive \cap DevicesOf(i) = {}
  /\ state' = [state EXCEPT ![i] = "gone"]
  /\ UNCHANGED <<devices, alive, tracked, copyOfList, visited, device, uniforms, owner,
                 created, staticsOn, statics, bound, exited>>

\* ~DriverInstance: every logical device that is left holds, through its
\* physical device, the driver handle, and then the process exits.
EndInstance(i) ==
  /\ ~ exited /\ state[i] = "dropped"
  /\ IF alive \cap DevicesOf(i) = {}
     THEN state' = [state EXCEPT ![i] = "gone"] /\ UNCHANGED exited
     ELSE exited' = TRUE /\ UNCHANGED state
  /\ UNCHANGED <<devices, alive, tracked, copyOfList, visited, device, uniforms, owner,
                 created, staticsOn, statics, bound>>

Teardown ==
  \/ \E d \in Devices : TerminateDevice(d)
  \/ \E c \in Contexts : TerminateContext(c)
  \/ \E i \in Instances : DropDevices(i) \/ EndInstance(i)

Next ==
  \/ \E i \in Instances : Initialize(i) \/ Terminate(i)
  \/ \E c \in Contexts, d \in Devices : CreateContext(c, d)
  \/ \E k \in Computes, c \in Contexts : CreateCompute(k, c)
  \/ \E c \in Contexts : Launch(c)
  \/ Teardown

Spec == Init /\ [][Next]_vars

\* vknTerminate() is straight-line code of the host: it does not stop halfway.
FairSpec == Spec /\ WF_vars(Teardown)
---------------------------------------------------------------------------
(* Properties.                                                             *)

TypeOK ==
  /\ state \in [Instances -> {"none", "running", "terminating", "dropped", "gone"}]
  /\ devices \subseteq alive /\ alive \subseteq Devices
  /\ tracked \in [Devices -> SUBSET Contexts]
  /\ copyOfList \subseteq Contexts /\ visited \subseteq Devices
  /\ device \in [Contexts -> Devices \cup {None}]
  /\ uniforms \in [Contexts -> TypeOfTrio(Contexts, {None})]
  /\ owner \in [Computes -> Contexts \cup {None}]
  /\ created \in BOOLEAN /\ exited \in BOOLEAN
  /\ staticsOn \in Devices \cup {None}
  /\ statics \in TypeOfTrio(Computes, {None})
  /\ bound \subseteq Contexts

\* terminate() is called on contexts that exist and that nobody terminated
\* before, although each removes itself from the list it was found in.
OnlyLiveContextsVisited ==
  /\ copyOfList \subseteq LiveContexts
  /\ \A d \in Devices : tracked[d] = {c \in LiveContexts : device[c] = d}

\* A device is destroyed after its contexts and their kernels, none of these
\* outlives vknTerminate() of its driver instance, and the Vulkan instance is
\* destroyed only when none of its devices is left.  The pool, layout and set
\* of the statics outlive everything, so their device is never destroyed.
NothingOutlivesItsOwner ==
  /\ statics.pool # NoHandle => staticsOn \in alive
  /\ \A c \in LiveContexts : device[c] \in alive
  /\ \A k \in LiveComputes : owner[k] \in LiveContexts
  /\ \A i \in Instances : state[i] \in {"dropped", "gone"} =>
       \A c \in LiveContexts : DriverOf[device[c]] # i
  /\ \A i \in Instances : state[i] = "gone" => alive \cap DevicesOf(i) = {}

\* rebuildDescriptors() gives the uniform buffers set to the first context of
\* the process that launches and to no other, that context never binds a null
\* set, and the set is gone with its context.
FirstContextHasTheUniforms ==
  LET served == {c \in Contexts : uniforms[c] # NewTrio} IN
  /\ Cardinality(served) <= 1
  /\ bound \cap served = {}
  /\ bound # {} => served # {}
  /\ \A c \in Contexts \ LiveContexts : NothingAllocated(uniforms[c])

\* The exit(1) in ~DriverInstance can only be blamed on the statics of Compute:
\* contexts and what is created in them never hold the driver handle too long.
OnlyStaticsBlockTheEnd ==
  exited => \E i \in Instances : state[i] = "dropped" /\ alive \cap DevicesOf(i) = {staticsOn}

\* vknTerminate() ends: the instance is gone, or the process is.
TerminateEnds ==
  \A i \in Instances : state[i] = "terminating" ~> (state[i] = "gone" \/ exited)

\* vulkanite.h:119: vknTerminate() "terminates a given driver instance, frees
\* all devices": the process goes on.
TerminateReturns == ~ exited
=============================================================================
