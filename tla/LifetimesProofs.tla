--------------------------- MODULE LifetimesProofs ---------------------------
(***************************************************************************)
(* Proofs about vknInitialize() to vknTerminate(), for any driver          *)
(* instances, GPUs, contexts and kernels: which devices an instance gets,  *)
(* what is destroyed after what, and which context gets the uniform buffers*)
(* set.                                                                    *)
(***************************************************************************)
EXTENDS Lifetimes, DeviceSelect, SequenceTheorems, FiniteSetTheorems, TLAPS

Types ==
  /\ state \in [Instances -> {"none", "running", "terminating", "dropped", "gone"}]
  /\ devices \subseteq alive /\ alive \subseteq Devices
  /\ tracked \in [Devices -> SUBSET Contexts]
  /\ device \in [Contexts -> Devices \cup {None}]
  /\ owner \in [Computes -> Contexts \cup {None}]

\* The vector of an instance has its devices until vknTerminate() clears it,
\* and contexts are made on listed devices only.
ListedWhileRunning ==
  /\ \A d \in Devices :
       d \in devices <=> state[DriverOf[d]] \in {"running", "terminating"}
  /\ \A c \in LiveContexts : device[c] \in devices

KernelsHaveContexts == \A k \in LiveComputes : owner[k] \in LiveContexts

\* A device that was visited has no contexts but those terminate() is at.
VisitedAreEmptied ==
  \A d \in visited :
    /\ state[DriverOf[d]] \notin {"none", "running"}
    /\ tracked[d] \subseteq copyOfList

\* What clearing the vector leaves, and what ~DriverInstance leaves.
DroppedDevicesDie ==
  \A i \in Instances :
    /\ state[i] = "dropped" => alive \cap DevicesOf(i) \subseteq {staticsOn}
    /\ state[i] = "gone" => alive \cap DevicesOf(i) = {}

Inv ==
  /\ Types
  /\ OnlyLiveContextsVisited
  /\ ListedWhileRunning
  /\ KernelsHaveContexts
  /\ visited \subseteq Devices /\ VisitedAreEmptied
  /\ DroppedDevicesDie
  /\ OnlyStaticsBlockTheEnd

LEMMA InitInv == Init => Inv
<1> SUFFICES ASSUME Init PROVE Inv OBVIOUS
<1>1. LiveContexts = {} /\ LiveComputes = {} BY DEF Init, LiveContexts, LiveComputes
<1>2. \A d \in Devices : DriverOf[d] \in Instances BY EveryDeviceHasADriver
<1> QED
  BY <1>1, <1>2 DEF Init, Inv, Types, OnlyLiveContextsVisited, ListedWhileRunning,
    KernelsHaveContexts, VisitedAreEmptied, DroppedDevicesDie, OnlyStaticsBlockTheEnd

---------------------------------------------------------------------------
(* The calls of the application.                                           *)

LEMMA InitializeKeepsInv ==
  ASSUME Inv, NEW i \in Instances, Initialize(i)
  PROVE  Inv'
<1>1. /\ Callable /\ state[i] = "none" /\ state' = [state EXCEPT ![i] = "running"]
      /\ devices' = devices \cup DevicesOf(i) /\ alive' = alive \cup DevicesOf(i)
      /\ UNCHANGED <<tracked, copyOfList, visited, device, owner, staticsOn, exited>>
  BY DEF Initialize
<1>2. LiveContexts' = LiveContexts /\ LiveComputes' = LiveComputes
  BY <1>1 DEF LiveContexts, LiveComputes
<1>3. \A d \in Devices : DriverOf[d] \in Instances BY EveryDeviceHasADriver
<1>4. Types' BY <1>1 DEF Inv, Types, DevicesOf
<1>5. OnlyLiveContextsVisited' BY <1>1, <1>2 DEF Inv, OnlyLiveContextsVisited
<1>6. ListedWhileRunning'
  BY <1>1, <1>2, <1>3 DEF Inv, Types, ListedWhileRunning, DevicesOf
<1>7. KernelsHaveContexts' BY <1>1, <1>2 DEF Inv, KernelsHaveContexts
<1>8. VisitedAreEmptied' BY <1>1, <1>3 DEF Inv, Types, VisitedAreEmptied
<1>9. DroppedDevicesDie'
  BY <1>1, <1>3 DEF Inv, Types, DroppedDevicesDie, DevicesOf
<1>10. OnlyStaticsBlockTheEnd' BY <1>1 DEF Callable, OnlyStaticsBlockTheEnd
<1> QED BY <1>1, <1>4, <1>5, <1>6, <1>7, <1>8, <1>9, <1>10 DEF Inv

\* A device on which a context may be made has not been visited.
LEMMA CreateContextKeepsInv ==
  ASSUME Inv, NEW c \in Contexts, NEW d \in Devices, CreateContext(c, d)
  PROVE  Inv'
<1>1. /\ Callable /\ d \in devices /\ device[c] = None
      /\ device' = [device EXCEPT ![c] = d]
      /\ tracked' = [tracked EXCEPT ![d] = @ \cup {c}]
      /\ UNCHANGED <<state, devices, alive, copyOfList, visited, owner, staticsOn, exited>>
  BY DEF CreateContext
<1>2. d # None BY NoneIsNothing
<1>3. LiveContexts' = LiveContexts \cup {c} BY <1>1, <1>2 DEF Inv, Types, LiveContexts
<1>4. LiveComputes' = LiveComputes BY <1>1 DEF LiveComputes
<1>5. DriverOf[d] \in Instances BY EveryDeviceHasADriver
<1>6. Types' BY <1>1 DEF Inv, Types
<1>7. OnlyLiveContextsVisited'
  <2>1. copyOfList' \subseteq LiveContexts' BY <1>1, <1>3 DEF Inv, OnlyLiveContextsVisited
  <2>2. ASSUME NEW e \in Devices
        PROVE  tracked'[e] = {b \in LiveContexts' : device'[b] = e}
    <3>1. tracked[e] = {b \in LiveContexts : device[b] = e}
      BY DEF Inv, OnlyLiveContextsVisited
    <3>2. c \notin LiveContexts BY <1>1 DEF LiveContexts
    <3>3. \A b \in LiveContexts : device'[b] = device[b] BY <1>1, <3>2 DEF Inv, Types
    <3>4. device'[c] = d BY <1>1 DEF Inv, Types
    <3>5. CASE e = d
      <4>1. tracked'[e] = tracked[e] \cup {c} BY <1>1, <3>5 DEF Inv, Types
      <4> QED BY <1>3, <3>1, <3>3, <3>4, <3>5, <4>1
    <3>6. CASE e # d
      <4>1. tracked'[e] = tracked[e] BY <1>1, <3>6 DEF Inv, Types
      <4> QED BY <1>3, <3>1, <3>3, <3>4, <3>6, <4>1
    <3> QED BY <3>5, <3>6
  <2> QED BY <2>1, <2>2 DEF OnlyLiveContextsVisited
<1>8. ListedWhileRunning' BY <1>1, <1>3 DEF Inv, Types, ListedWhileRunning
<1>9. KernelsHaveContexts' BY <1>1, <1>3, <1>4 DEF Inv, KernelsHaveContexts
<1>10. VisitedAreEmptied'
  <2>1. state[DriverOf[d]] = "running"
    BY <1>1, <1>5 DEF Inv, ListedWhileRunning, Callable
  <2>2. d \notin visited BY <2>1 DEF Inv, VisitedAreEmptied
  <2> QED BY <1>1, <2>2 DEF Inv, Types, VisitedAreEmptied
<1>11. DroppedDevicesDie' BY <1>1 DEF Inv, DroppedDevicesDie
<1>12. OnlyStaticsBlockTheEnd' BY <1>1 DEF Inv, OnlyStaticsBlockTheEnd
<1> QED BY <1>1, <1>6, <1>7, <1>8, <1>9, <1>10, <1>11, <1>12 DEF Inv

\* The statics move, if they do, while no instance is being taken down.
LEMMA CreateComputeKeepsInv ==
  ASSUME Inv, NEW k \in Computes, NEW c \in Contexts, CreateCompute(k, c)
  PROVE  Inv'
<1>1. /\ Callable /\ device[c] # None /\ owner' = [owner EXCEPT ![k] = c]
      /\ UNCHANGED <<state, devices, alive, tracked, copyOfList, visited, device, exited>>
  BY DEF CreateCompute
<1>2. c \in LiveContexts /\ LiveContexts' = LiveContexts BY <1>1 DEF LiveContexts
<1>3. Types' BY <1>1 DEF Inv, Types
<1>4. OnlyLiveContextsVisited' BY <1>1, <1>2 DEF Inv, OnlyLiveContextsVisited
<1>5. ListedWhileRunning' BY <1>1, <1>2 DEF Inv, ListedWhileRunning
<1>6. KernelsHaveContexts'
  BY <1>1, <1>2 DEF Inv, Types, KernelsHaveContexts, LiveComputes
<1>7. VisitedAreEmptied' BY <1>1 DEF Inv, VisitedAreEmptied
<1>8. DroppedDevicesDie' BY <1>1 DEF Inv, DroppedDevicesDie, Callable
<1>9. OnlyStaticsBlockTheEnd' BY <1>1 DEF OnlyStaticsBlockTheEnd, Callable
<1> QED BY <1>1, <1>3, <1>4, <1>5, <1>6, <1>7, <1>8, <1>9 DEF Inv

\* What changes neither lists nor owners.
LEMMA OthersKeepInv ==
  ASSUME Inv,
         UNCHANGED <<state, devices, alive, tracked, copyOfList, visited, device, owner,
                     staticsOn, exited>>
  PROVE  Inv'
<1>1. LiveContexts' = LiveContexts /\ LiveComputes' = LiveComputes
  BY DEF LiveContexts, LiveComputes
<1> QED
  BY <1>1 DEF Inv, Types, OnlyLiveContextsVisited, ListedWhileRunning, KernelsHaveContexts,
    VisitedAreEmptied, DroppedDevicesDie, OnlyStaticsBlockTheEnd

---------------------------------------------------------------------------
(* vknTerminate().                                                         *)

LEMMA TerminateKeepsInv ==
  ASSUME Inv, NEW i \in Instances, Terminate(i)
  PROVE  Inv'
<1>1. /\ Callable /\ state[i] = "running" /\ state' = [state EXCEPT ![i] = "terminating"]
      /\ UNCHANGED <<devices, alive, tracked, copyOfList, visited, device, owner,
                     staticsOn, exited>>
  BY DEF Terminate
<1>2. LiveContexts' = LiveContexts /\ LiveComputes' = LiveComputes
  BY <1>1 DEF LiveContexts, LiveComputes
<1>3. \A d \in Devices : DriverOf[d] \in Instances BY EveryDeviceHasADriver
<1>4. Types' BY <1>1 DEF Inv, Types
<1>5. OnlyLiveContextsVisited' BY <1>1, <1>2 DEF Inv, OnlyLiveContextsVisited
<1>6. ListedWhileRunning' BY <1>1, <1>2, <1>3 DEF Inv, Types, ListedWhileRunning
<1>7. KernelsHaveContexts' BY <1>1, <1>2 DEF Inv, KernelsHaveContexts
<1>8. VisitedAreEmptied' BY <1>1, <1>3 DEF Inv, Types, VisitedAreEmptied
<1>9. DroppedDevicesDie' BY <1>1 DEF Inv, Types, DroppedDevicesDie
<1>10. OnlyStaticsBlockTheEnd' BY <1>1 DEF Callable, OnlyStaticsBlockTheEnd
<1> QED BY <1>1, <1>4, <1>5, <1>6, <1>7, <1>8, <1>9, <1>10 DEF Inv

\* The copy is made when the contexts of the device before are gone.
LEMMA TerminateDeviceKeepsInv ==
  ASSUME Inv, NEW d \in Devices, TerminateDevice(d)
  PROVE  Inv'
<1>1. /\ state[DriverOf[d]] = "terminating" /\ copyOfList = {} /\ d \notin visited
      /\ visited' = visited \cup {d} /\ copyOfList' = tracked[d]
      /\ UNCHANGED <<state, devices, alive, tracked, device, owner, staticsOn, exited>>
  BY DEF TerminateDevice
<1>2. LiveContexts' = LiveContexts /\ LiveComputes' = LiveComputes
  BY <1>1 DEF LiveContexts, LiveComputes
<1>3. Types' BY <1>1 DEF Inv, Types
<1>4. OnlyLiveContextsVisited' BY <1>1, <1>2 DEF Inv, OnlyLiveContextsVisited
<1>5. ListedWhileRunning' BY <1>1, <1>2 DEF Inv, ListedWhileRunning
<1>6. KernelsHaveContexts' BY <1>1, <1>2 DEF Inv, KernelsHaveContexts
<1>7. VisitedAreEmptied' BY <1>1 DEF Inv, VisitedAreEmptied
<1>8. DroppedDevicesDie' BY <1>1 DEF Inv, DroppedDevicesDie
<1>9. OnlyStaticsBlockTheEnd' BY <1>1 DEF Inv, OnlyStaticsBlockTheEnd
<1>10. visited' \subseteq Devices BY <1>1 DEF Inv
<1> QED BY <1>3, <1>4, <1>5, <1>6, <1>7, <1>8, <1>9, <1>10 DEF Inv

\* A context leaves the list of its device and the copy, with its kernels.
LEMMA TerminateContextKeepsInv ==
  ASSUME Inv, NEW c \in Contexts, TerminateContext(c)
  PROVE  Inv'
<1>1. /\ c \in copyOfList /\ copyOfList' = copyOfList \ {c}
      /\ owner' = [k \in Computes |-> IF owner[k] = c THEN None ELSE owner[k]]
      /\ tracked' = [tracked EXCEPT ![device[c]] = @ \ {c}]
      /\ device' = [device EXCEPT ![c] = None]
      /\ UNCHANGED <<state, devices, alive, visited, staticsOn, exited>>
  BY DEF TerminateContext
<1>2. LiveContexts' = LiveContexts \ {c} BY <1>1 DEF Inv, Types, LiveContexts
<1>3. \A b \in LiveContexts' : device'[b] = device[b]
  BY <1>1, <1>2 DEF Inv, Types, LiveContexts
<1>4. Types' BY <1>1 DEF Inv, Types
<1>5. c \in LiveContexts /\ device[c] \in Devices
  BY <1>1 DEF Inv, Types, OnlyLiveContextsVisited, LiveContexts
<1>6. ASSUME NEW e \in Devices PROVE tracked'[e] = tracked[e] \ {c}
  <2>1. tracked[e] = {b \in LiveContexts : device[b] = e}
    BY DEF Inv, OnlyLiveContextsVisited
  <2>2. CASE e = device[c] BY <1>1, <1>5, <2>2 DEF Inv, Types
  <2>3. CASE e # device[c]
    <3>1. tracked'[e] = tracked[e] BY <1>1, <2>3 DEF Inv, Types
    <3> QED BY <2>1, <2>3, <3>1
  <2> QED BY <2>2, <2>3
<1>7. OnlyLiveContextsVisited'
  <2>1. copyOfList' \subseteq LiveContexts' BY <1>1, <1>2 DEF Inv, OnlyLiveContextsVisited
  <2>2. ASSUME NEW e \in Devices
        PROVE  tracked'[e] = {b \in LiveContexts' : device'[b] = e}
    <3>1. tracked[e] = {b \in LiveContexts : device[b] = e}
      BY DEF Inv, OnlyLiveContextsVisited
    <3> QED BY <1>2, <1>3, <1>6, <3>1
  <2> QED BY <2>1, <2>2 DEF OnlyLiveContextsVisited
<1>8. ListedWhileRunning' BY <1>1, <1>2, <1>3 DEF Inv, ListedWhileRunning
<1>9. KernelsHaveContexts'
  BY <1>1, <1>2 DEF Inv, Types, KernelsHaveContexts, LiveComputes
<1>10. VisitedAreEmptied' BY <1>1, <1>6 DEF Inv, VisitedAreEmptied
<1>11. DroppedDevicesDie' BY <1>1 DEF Inv, DroppedDevicesDie
<1>12. OnlyStaticsBlockTheEnd' BY <1>1 DEF Inv, OnlyStaticsBlockTheEnd
<1> QED BY <1>1, <1>4, <1>7, <1>8, <1>9, <1>10, <1>11, <1>12 DEF Inv

\* All devices of the instance were visited and nothing is left to visit, so
\* no context holds one.
LEMMA DropDevicesKeepsInv ==
  ASSUME Inv, NEW i \in Instances, DropDevices(i)
  PROVE  Inv'
<1>1. /\ ~ exited /\ state[i] = "terminating"
      /\ DevicesOf(i) \subseteq visited /\ copyOfList = {}
      /\ state' = [state EXCEPT ![i] = "dropped"]
      /\ devices' = devices \ DevicesOf(i)
      /\ alive' = alive \ (DevicesOf(i) \ HeldDevices)
      /\ UNCHANGED <<tracked, copyOfList, visited, device, owner, staticsOn, exited>>
  BY DEF DropDevices
<1>2. LiveContexts' = LiveContexts /\ LiveComputes' = LiveComputes
  BY <1>1 DEF LiveContexts, LiveComputes
<1>3. \A d \in Devices : DriverOf[d] \in Instances BY EveryDeviceHasADriver
<1>4. ASSUME NEW c \in LiveContexts PROVE device[c] \notin DevicesOf(i)
  <2>1. SUFFICES ASSUME device[c] \in DevicesOf(i) PROVE FALSE OBVIOUS
  <2>2. device[c] \in visited /\ device[c] \in Devices BY <1>1, <2>1 DEF DevicesOf
  <2>3. c \in tracked[device[c]] BY <2>2 DEF Inv, OnlyLiveContextsVisited
  <2> QED BY <1>1, <2>2, <2>3 DEF Inv, VisitedAreEmptied
<1>5. Types' BY <1>1 DEF Inv, Types, DevicesOf
<1>6. OnlyLiveContextsVisited' BY <1>1, <1>2 DEF Inv, OnlyLiveContextsVisited
<1>7. ListedWhileRunning'
  BY <1>1, <1>2, <1>3, <1>4 DEF Inv, Types, ListedWhileRunning, DevicesOf
<1>8. KernelsHaveContexts' BY <1>1, <1>2 DEF Inv, KernelsHaveContexts
<1>9. VisitedAreEmptied' BY <1>1, <1>3 DEF Inv, Types, VisitedAreEmptied
<1>10. DroppedDevicesDie'
  <2>1. HeldDevices \cap DevicesOf(i) \subseteq {staticsOn} BY <1>4 DEF HeldDevices
  <2>2. alive' \cap DevicesOf(i) \subseteq {staticsOn} BY <1>1, <2>1
  <2>3. alive' \subseteq alive BY <1>1
  <2> QED BY <1>1, <2>2, <2>3 DEF Inv, Types, DroppedDevicesDie
<1>11. OnlyStaticsBlockTheEnd' BY <1>1 DEF OnlyStaticsBlockTheEnd
<1> QED BY <1>1, <1>5, <1>6, <1>7, <1>8, <1>9, <1>10, <1>11 DEF Inv

\* ~DriverInstance looks for devices: what it finds is the one of the statics.
LEMMA EndInstanceKeepsInv ==
  ASSUME Inv, NEW i \in Instances, EndInstance(i)
  PROVE  Inv'
<1>1. /\ ~ exited /\ state[i] = "dropped"
      /\ UNCHANGED <<devices, alive, tracked, copyOfList, visited, device, owner, staticsOn>>
  BY DEF EndInstance
<1>2. LiveContexts' = LiveContexts /\ LiveComputes' = LiveComputes
  BY <1>1 DEF LiveContexts, LiveComputes
<1>3. \A d \in Devices : DriverOf[d] \in Instances BY EveryDeviceHasADriver
<1>4. CASE alive \cap DevicesOf(i) = {}
  <2>1. state' = [state EXCEPT ![i] = "gone"] /\ exited' = exited
    BY <1>4 DEF EndInstance
  <2>2. Types' BY <1>1, <2>1 DEF Inv, Types
  <2>3. OnlyLiveContextsVisited' BY <1>1, <1>2 DEF Inv, OnlyLiveContextsVisited
  <2>4. ListedWhileRunning'
    BY <1>1, <1>2, <1>3, <2>1 DEF Inv, Types, ListedWhileRunning
  <2>5. KernelsHaveContexts' BY <1>1, <1>2 DEF Inv, KernelsHaveContexts
  <2>6. VisitedAreEmptied' BY <1>1, <1>3, <2>1 DEF Inv, Types, VisitedAreEmptied
  <2>7. DroppedDevicesDie' BY <1>1, <1>4, <2>1 DEF Inv, Types, DroppedDevicesDie
  <2>8. OnlyStaticsBlockTheEnd' BY <1>1, <2>1 DEF OnlyStaticsBlockTheEnd
  <2> QED BY <1>1, <2>2, <2>3, <2>4, <2>5, <2>6, <2>7, <2>8 DEF Inv
<1>5. CASE alive \cap DevicesOf(i) # {}
  <2>1. state' = state /\ exited' = TRUE BY <1>5 DEF EndInstance
  <2>2. alive \cap DevicesOf(i) = {staticsOn} BY <1>1, <1>5 DEF Inv, DroppedDevicesDie
  <2>3. OnlyStaticsBlockTheEnd' BY <1>1, <2>1, <2>2 DEF OnlyStaticsBlockTheEnd
  <2>4. Types' BY <1>1, <2>1 DEF Inv, Types
  <2>5. OnlyLiveContextsVisited' BY <1>1, <1>2 DEF Inv, OnlyLiveContextsVisited
  <2>6. ListedWhileRunning' BY <1>1, <1>2, <2>1 DEF Inv, ListedWhileRunning
  <2>7. KernelsHaveContexts' BY <1>1, <1>2 DEF Inv, KernelsHaveContexts
  <2>8. VisitedAreEmptied' BY <1>1, <2>1 DEF Inv, VisitedAreEmptied
  <2>9. DroppedDevicesDie' BY <1>1, <2>1 DEF Inv, DroppedDevicesDie
  <2> QED BY <1>1, <2>3, <2>4, <2>5, <2>6, <2>7, <2>8, <2>9 DEF Inv
<1> QED BY <1>4, <1>5

---------------------------------------------------------------------------
LEMMA NextKeepsInv == Inv /\ [Next]_vars => Inv'
<1> SUFFICES ASSUME Inv, [Next]_vars PROVE Inv' OBVIOUS
<1>1. CASE \E i \in Instances : Initialize(i) \/ Terminate(i)
  BY <1>1, InitializeKeepsInv, TerminateKeepsInv
<1>2. CASE \E c \in Contexts, d \in Devices : CreateContext(c, d)
  BY <1>2, CreateContextKeepsInv
<1>3. CASE \E k \in Computes, c \in Contexts : CreateCompute(k, c)
  BY <1>3, CreateComputeKeepsInv
<1>4. CASE \E c \in Contexts : Launch(c) BY <1>4, OthersKeepInv DEF Launch
<1>5. CASE \E d \in Devices : TerminateDevice(d) BY <1>5, TerminateDeviceKeepsInv
<1>6. CASE \E c \in Contexts : TerminateContext(c) BY <1>6, TerminateContextKeepsInv
<1>7. CASE \E i \in Instances : DropDevices(i) \/ EndInstance(i)
  BY <1>7, DropDevicesKeepsInv, EndInstanceKeepsInv
<1>8. CASE UNCHANGED vars BY <1>8, OthersKeepInv DEF vars
<1> QED BY <1>1, <1>2, <1>3, <1>4, <1>5, <1>6, <1>7, <1>8 DEF Next, Teardown

LEMMA InvAlways == Spec => []Inv
  BY InitInv, NextKeepsInv, PTL DEF Spec

\* LogicalDevice::terminate() and the copy it walks: every context it calls is
\* alive, and the list of a device is exactly its contexts.
THEOREM OnlyLiveContextsEverVisited == Spec => []OnlyLiveContextsVisited
<1>1. Inv => OnlyLiveContextsVisited BY DEF Inv
<1> QED BY <1>1, InvAlways, PTL

---------------------------------------------------------------------------
(* The statics of Compute::buildPipeline().                                *)

\* Once they have a pool they hold a device, and it stays alive.
StaticsInv ==
  /\ statics \in TypeOfTrio(Computes, {None})
  /\ statics.pool # NoHandle => staticsOn # None
  /\ staticsOn # None => staticsOn \in alive

LEMMA StaticsMadeAnew ==
  ASSUME NEW k \in Computes, NEW s \in TypeOfTrio(Computes, {None})
  PROVE  SetCreate(LayoutCreate(PoolCreate(s, k, 1), 1), <<None>>)
           \in TypeOfTrio(Computes, {None})
<1> DEFINE d == LayoutCreate(PoolCreate(s, k, 1), 1)
           e == SetFree(d)
<1>1. d \in TypeOfTrio(Computes, {None})
  BY DEF TypeOfTrio, LayoutCreate, PoolCreate, PoolDestroy, NoHandle
<1> HIDE DEF d
<1>2. e \in TypeOfTrio(Computes, {None})
  <2>1. <<>> \in Seq({None}) BY EmptySeq
  <2>2. CASE d.allocated BY <1>1, <2>1, <2>2 DEF SetFree, TypeOfTrio
  <2>3. CASE ~ d.allocated BY <1>1, <2>3 DEF SetFree
  <2> QED BY <2>2, <2>3
<1>3. SetCreate(d, <<None>>)
        = [e EXCEPT !.allocated = TRUE, !.poolHandle = d.pool, !.written = <<None>>]
  BY DEF SetCreate
<1>4. d.pool \in Computes \cup {NoHandle} BY <1>1 DEF TypeOfTrio
<1> HIDE DEF e
<1>5. <<None>> \in Seq({None}) OBVIOUS
<1>6. SetCreate(d, <<None>>) \in TypeOfTrio(Computes, {None})
  BY <1>2, <1>3, <1>4, <1>5 DEF TypeOfTrio
<1> QED BY <1>6 DEF d

LEMMA InitStaticsInv == Init => StaticsInv
<1>1. <<>> \in Seq({None}) BY EmptySeq
<1> QED BY <1>1 DEF Init, StaticsInv, TypeOfTrio, NewTrio, NoHandle

\* A kernel is made on a living device; clearing the vector spares the device
\* the statics hold.
LEMMA NextKeepsStaticsInv == Inv /\ StaticsInv /\ [Next]_vars => StaticsInv'
<1> SUFFICES ASSUME Inv, StaticsInv, [Next]_vars PROVE StaticsInv' OBVIOUS
<1>1. ASSUME UNCHANGED <<statics, staticsOn>>, alive \subseteq alive' PROVE StaticsInv'
  BY <1>1 DEF StaticsInv
<1>2. CASE \E i \in Instances : Initialize(i) \/ Terminate(i)
  BY <1>1, <1>2 DEF Initialize, Terminate
<1>3. CASE \E c \in Contexts, d \in Devices : CreateContext(c, d)
  BY <1>1, <1>3 DEF CreateContext
<1>4. ASSUME NEW k \in Computes, NEW c \in Contexts, CreateCompute(k, c) PROVE StaticsInv'
  <2>1. /\ staticsOn' = IF staticsOn = None THEN device[c] ELSE staticsOn
        /\ statics' = SetCreate(LayoutCreate(PoolCreate(statics, k, 1), 1), <<None>>)
        /\ device[c] # None /\ alive' = alive
    BY <1>4 DEF CreateCompute
  <2>2. statics' \in TypeOfTrio(Computes, {None})
    BY <2>1, StaticsMadeAnew DEF StaticsInv
  <2>3. device[c] \in alive
    BY <2>1 DEF Inv, Types, ListedWhileRunning, LiveContexts
  <2> QED BY <2>1, <2>2, <2>3 DEF StaticsInv
<1>5. CASE \E c \in Contexts : Launch(c) BY <1>1, <1>5 DEF Launch
<1>6. CASE \E d \in Devices : TerminateDevice(d) BY <1>1, <1>6 DEF TerminateDevice
<1>7. CASE \E c \in Contexts : TerminateContext(c) BY <1>1, <1>7 DEF TerminateContext
<1>8. ASSUME NEW i \in Instances, DropDevices(i) PROVE StaticsInv'
  <2>1. alive' = alive \ (DevicesOf(i) \ HeldDevices) /\ UNCHANGED <<statics, staticsOn>>
    BY <1>8 DEF DropDevices
  <2>2. staticsOn # None => staticsOn \in HeldDevices BY DEF HeldDevices
  <2> QED BY <2>1, <2>2 DEF StaticsInv
<1>9. CASE \E i \in Instances : EndInstance(i) BY <1>1, <1>9 DEF EndInstance
<1>10. CASE UNCHANGED vars BY <1>1, <1>10 DEF vars
<1> QED
  BY <1>2, <1>3, <1>4, <1>5, <1>6, <1>7, <1>8, <1>9, <1>10 DEF Next, Teardown

LEMMA StaticsInvAlways == Spec => [](Inv /\ StaticsInv)
  BY InitInv, InitStaticsInv, NextKeepsInv, NextKeepsStaticsInv, PTL DEF Spec

\* Context::terminate(), devices = {} and ~DriverInstance: kernels die with
\* their contexts, contexts before their device, devices before the driver; the
\* device of Compute's statics never dies.
THEOREM NothingEverOutlivesItsOwner == Spec => []NothingOutlivesItsOwner
<1>1. Inv /\ StaticsInv => NothingOutlivesItsOwner
  <2> SUFFICES ASSUME Inv, StaticsInv PROVE NothingOutlivesItsOwner OBVIOUS
  <2>1. \A c \in LiveContexts : device[c] \in devices BY DEF Inv, ListedWhileRunning
  <2>2. \A c \in LiveContexts : device[c] \in alive BY <2>1 DEF Inv, Types
  <2>3. ASSUME NEW c \in LiveContexts
        PROVE  state[DriverOf[device[c]]] \in {"running", "terminating"}
    BY <2>1 DEF Inv, Types, ListedWhileRunning
  <2>4. \A k \in LiveComputes : owner[k] \in LiveContexts BY DEF Inv, KernelsHaveContexts
  <2> QED
    BY <2>2, <2>3, <2>4 DEF Inv, StaticsInv, DroppedDevicesDie, NothingOutlivesItsOwner
<1> QED BY <1>1, StaticsInvAlways, PTL

\* The exit(1) of ~DriverInstance: only the device of the statics in
\* Compute::buildPipeline() ever stands in the way.
THEOREM OnlyStaticsEverBlockTheEnd == Spec => []OnlyStaticsBlockTheEnd
<1>1. Inv => OnlyStaticsBlockTheEnd BY DEF Inv
<1> QED BY <1>1, InvAlways, PTL

---------------------------------------------------------------------------
(* The uniform buffers set.                                                *)

Trios == TypeOfTrio(Contexts, {None})

\* A context that rebuildDescriptors() served has its set while it lives, and
\* nothing of it after that; the size of its pool tells it from the others.
Served(c) ==
  /\ uniforms[c].poolSize = 1
  /\ device[c] # None => uniforms[c].allocated
  /\ device[c] = None => NothingAllocated(uniforms[c])

\* The static flag remembers whether there is such a context.
UniformsInv ==
  /\ created \in BOOLEAN /\ exited \in BOOLEAN
  /\ staticsOn \in Devices \cup {None}
  /\ bound \subseteq Contexts
  /\ uniforms \in [Contexts -> Trios]
  /\ ~ created => bound = {} /\ \A c \in Contexts : uniforms[c] = NewTrio
  /\ created => \E c \in Contexts \ bound :
       Served(c) /\ \A b \in Contexts \ {c} : uniforms[b] = NewTrio

LEMMA NewTrioIsEmpty ==
  /\ NewTrio \in Trios /\ NewTrio.poolSize = 0 /\ NewTrio.allocated = FALSE
  /\ NothingAllocated(NewTrio)
<1>1. <<>> \in Seq({None}) BY EmptySeq
<1>2. NewTrio \in Trios BY <1>1 DEF Trios, TypeOfTrio, NewTrio, NoHandle
<1> QED BY <1>2 DEF NewTrio, NothingAllocated

LEMMA FirstSetCreated ==
  ASSUME NEW c \in Contexts, NEW t,
         t = SetCreate(LayoutCreate(PoolCreate(NewTrio, c, 1), 1), <<None>>)
  PROVE  t \in Trios /\ t.allocated = TRUE /\ t.poolSize = 1
<1> DEFINE d == LayoutCreate(PoolCreate(NewTrio, c, 1), 1)
<1>1. d \in Trios /\ d.pool = c /\ d.poolSize = 1 /\ d.allocated = FALSE
  <2>1. NewTrio \in Trios /\ NewTrio.allocated = FALSE BY NewTrioIsEmpty
  <2> QED BY <2>1 DEF Trios, TypeOfTrio, LayoutCreate, PoolCreate, PoolDestroy, NoHandle
<1> HIDE DEF d
<1>2. SetFree(d) = d BY <1>1 DEF SetFree
<1>3. t = [d EXCEPT !.allocated = TRUE, !.poolHandle = c, !.written = <<None>>]
  BY <1>1, <1>2 DEF d, SetCreate
<1>4. <<None>> \in Seq({None}) OBVIOUS
<1> QED BY <1>1, <1>3, <1>4 DEF Trios, TypeOfTrio

LEMMA TrioDestroyed ==
  ASSUME NEW d \in Trios
  PROVE  /\ DestroyTrio(d) \in Trios /\ NothingAllocated(DestroyTrio(d))
         /\ DestroyTrio(d).poolSize = d.poolSize
<1> DEFINE e == SetFree(d)
<1>1. e \in Trios /\ e.allocated = FALSE /\ e.poolSize = d.poolSize
  <2>1. <<>> \in Seq({None}) BY EmptySeq
  <2>2. CASE d.allocated BY <2>1, <2>2 DEF SetFree, Trios, TypeOfTrio
  <2>3. CASE ~ d.allocated BY <2>3 DEF SetFree, Trios, TypeOfTrio
  <2> QED BY <2>2, <2>3
<1> HIDE DEF e
<1>2. DestroyTrio(d) = PoolDestroy(LayoutDestroy(e)) BY DEF DestroyTrio, e
<1> DEFINE f == LayoutDestroy(e)
<1>3. f \in Trios /\ f.allocated = FALSE /\ f.poolSize = d.poolSize /\ f.layout = 0
  BY <1>1 DEF LayoutDestroy, Trios, TypeOfTrio
<1>4. DestroyTrio(d) = PoolDestroy(f) BY <1>2
<1> HIDE DEF f
<1>5. PoolDestroy(f) \in Trios BY <1>3 DEF PoolDestroy, Trios, TypeOfTrio, NoHandle
<1>6. NothingAllocated(PoolDestroy(f)) /\ PoolDestroy(f).poolSize = d.poolSize
  BY <1>3 DEF PoolDestroy, NothingAllocated, Trios, TypeOfTrio
<1> QED BY <1>4, <1>5, <1>6

LEMMA DestroyedNewTrio == DestroyTrio(NewTrio) = NewTrio
<1>1. SetFree(NewTrio) = NewTrio BY DEF SetFree, NewTrio
<1>2. ASSUME NEW t \in Trios, t.layout = 0 PROVE LayoutDestroy(t) = t
  BY <1>2 DEF LayoutDestroy, Trios, TypeOfTrio
<1>3. ASSUME NEW t \in Trios, t.pool = NoHandle PROVE PoolDestroy(t) = t
  BY <1>3 DEF PoolDestroy, Trios, TypeOfTrio
<1>4. NewTrio \in Trios /\ NewTrio.layout = 0 /\ NewTrio.pool = NoHandle
  BY NewTrioIsEmpty DEF NothingAllocated
<1>5. LayoutDestroy(NewTrio) = NewTrio BY <1>2, <1>4
<1>6. PoolDestroy(NewTrio) = NewTrio BY <1>3, <1>4
<1> QED BY <1>1, <1>5, <1>6 DEF DestroyTrio

LEMMA InitUniformsInv == Init => UniformsInv
  BY NewTrioIsEmpty DEF Init, UniformsInv

\* The flag goes up with the set, in the launch that finds neither.
LEMMA LaunchKeepsUniformsInv ==
  ASSUME Inv, UniformsInv, NEW c \in Contexts, Launch(c)
  PROVE  UniformsInv'
<1>1. device[c] # None /\ UNCHANGED <<device, staticsOn, exited>>
  BY DEF Launch
<1>2. CASE uniforms[c].allocated
  <2>1. UNCHANGED <<created, uniforms>> /\ bound' = bound BY <1>2 DEF Launch
  <2> QED BY <1>1, <2>1 DEF UniformsInv, Served
<1>3. CASE ~ uniforms[c].allocated /\ created
  <2>1. UNCHANGED <<created, uniforms>> BY <1>3 DEF Launch, RebuildDescriptors
  <2>2. bound' = bound \cup {c} BY <1>3, <2>1 DEF Launch
  <2>3. PICK b \in Contexts \ bound :
          Served(b) /\ \A a \in Contexts \ {b} : uniforms[a] = NewTrio
    BY <1>3 DEF UniformsInv
  <2>4. b # c BY <1>1, <1>3, <2>3 DEF Served
  <2>5. b \in Contexts \ bound' /\ Served(b)' /\ \A a \in Contexts \ {b} : uniforms'[a] = NewTrio
    BY <1>1, <2>1, <2>2, <2>3, <2>4 DEF Served
  <2>6. \E a \in Contexts \ bound' :
          Served(a)' /\ \A e \in Contexts \ {a} : uniforms'[e] = NewTrio
    BY <2>5
  <2> QED BY <1>1, <1>3, <2>1, <2>2, <2>6 DEF UniformsInv
<1>4. CASE ~ uniforms[c].allocated /\ ~ created
  <2> DEFINE t == SetCreate(LayoutCreate(PoolCreate(NewTrio, c, 1), 1), <<None>>)
  <2>1. /\ bound = {} /\ \A a \in Contexts : uniforms[a] = NewTrio
        /\ uniforms \in [Contexts -> Trios]
    BY <1>4 DEF UniformsInv
  <2>2. created' = TRUE /\ uniforms' = [uniforms EXCEPT ![c] = t]
    BY <1>4, <2>1 DEF Launch, RebuildDescriptors
  <2> HIDE DEF t
  <2>3. t \in Trios /\ t.allocated = TRUE /\ t.poolSize = 1 BY FirstSetCreated DEF t
  <2>4. uniforms'[c] = t /\ uniforms' \in [Contexts -> Trios]
        /\ \A a \in Contexts \ {c} : uniforms'[a] = NewTrio
    BY <2>1, <2>2, <2>3
  <2>5. bound' = {} BY <2>1, <2>3, <2>4 DEF Launch
  <2>6. Served(c)' BY <1>1, <2>3, <2>4 DEF Served
  <2>7. \E a \in Contexts \ bound' :
          Served(a)' /\ \A e \in Contexts \ {a} : uniforms'[e] = NewTrio
    BY <2>4, <2>5, <2>6
  <2> QED BY <1>1, <2>2, <2>4, <2>5, <2>7 DEF UniformsInv
<1> QED BY <1>2, <1>3, <1>4 DEF UniformsInv

\* The set dies with its context; the trios of the others were empty.
LEMMA TerminateContextKeepsUniformsInv ==
  ASSUME Inv, UniformsInv, NEW c \in Contexts, TerminateContext(c)
  PROVE  UniformsInv'
<1>1. /\ uniforms' = [uniforms EXCEPT ![c] = DestroyTrio(uniforms[c])]
      /\ device' = [device EXCEPT ![c] = None]
      /\ UNCHANGED <<created, bound, staticsOn, exited>>
  BY DEF TerminateContext
<1>2. /\ uniforms \in [Contexts -> Trios] /\ uniforms[c] \in Trios
      /\ device \in [Contexts -> Devices \cup {None}]
  BY DEF UniformsInv, Inv, Types
<1>3. /\ DestroyTrio(uniforms[c]) \in Trios /\ NothingAllocated(DestroyTrio(uniforms[c]))
      /\ DestroyTrio(uniforms[c]).poolSize = uniforms[c].poolSize
  BY <1>2, TrioDestroyed
<1>4. /\ uniforms' \in [Contexts -> Trios] /\ uniforms'[c] = DestroyTrio(uniforms[c])
      /\ \A a \in Contexts \ {c} : uniforms'[a] = uniforms[a] /\ device'[a] = device[a]
      /\ device'[c] = None
  BY <1>1, <1>2, <1>3
<1>5. ASSUME NEW a \in Contexts, uniforms[a] = NewTrio PROVE uniforms'[a] = NewTrio
  BY <1>4, <1>5, DestroyedNewTrio
<1>6. ASSUME NEW a \in Contexts, Served(a) PROVE Served(a)'
  <2>1. CASE a = c BY <1>3, <1>4, <1>6, <2>1 DEF Served
  <2>2. CASE a # c BY <1>4, <1>6, <2>2 DEF Served
  <2> QED BY <2>1, <2>2
<1>7. CASE ~ created BY <1>1, <1>4, <1>5, <1>7 DEF UniformsInv
<1>8. CASE created
  <2>1. \E a \in Contexts \ bound :
          Served(a) /\ \A e \in Contexts \ {a} : uniforms[e] = NewTrio
    BY <1>8 DEF UniformsInv
  <2>2. \E a \in Contexts \ bound' :
          Served(a)' /\ \A e \in Contexts \ {a} : uniforms'[e] = NewTrio
    BY <1>1, <1>5, <1>6, <2>1
  <2> QED BY <1>1, <1>4, <1>8, <2>2 DEF UniformsInv
<1> QED BY <1>7, <1>8

\* A context that is created was never served.
LEMMA CreateContextKeepsUniformsInv ==
  ASSUME Inv, UniformsInv, NEW c \in Contexts, NEW d \in Devices, CreateContext(c, d)
  PROVE  UniformsInv'
<1>1. /\ uniforms[c] = NewTrio /\ device' = [device EXCEPT ![c] = d]
      /\ UNCHANGED <<uniforms, created, bound, staticsOn, exited>>
  BY DEF CreateContext
<1>2. device \in [Contexts -> Devices \cup {None}] BY DEF Inv, Types
<1>3. ASSUME NEW a \in Contexts, Served(a) PROVE Served(a)'
  <2>1. a # c BY <1>1, <1>3, NewTrioIsEmpty DEF Served
  <2> QED BY <1>1, <1>2, <1>3, <2>1 DEF Served
<1> QED BY <1>1, <1>3 DEF UniformsInv

\* The other steps touch neither the sets nor the contexts.
LEMMA OthersKeepUniformsInv ==
  ASSUME UniformsInv, UNCHANGED <<uniforms, device, created, bound>>,
         staticsOn' \in Devices \cup {None}, exited' \in BOOLEAN
  PROVE  UniformsInv'
  BY DEF UniformsInv, Served

LEMMA NextKeepsUniformsInv == Inv /\ UniformsInv /\ [Next]_vars => UniformsInv'
<1> SUFFICES ASSUME Inv, UniformsInv, [Next]_vars PROVE UniformsInv' OBVIOUS
<1>1. staticsOn \in Devices \cup {None} /\ exited \in BOOLEAN BY DEF UniformsInv
<1>2. CASE \E i \in Instances : Initialize(i) \/ Terminate(i)
  BY <1>1, <1>2, OthersKeepUniformsInv DEF Initialize, Terminate
<1>3. CASE \E c \in Contexts, d \in Devices : CreateContext(c, d)
  BY <1>3, CreateContextKeepsUniformsInv
<1>4. ASSUME NEW k \in Computes, NEW c \in Contexts, CreateCompute(k, c) PROVE UniformsInv'
  <2>1. staticsOn' \in Devices \cup {None} BY <1>1, <1>4 DEF CreateCompute, Inv, Types
  <2> QED BY <1>1, <1>4, <2>1, OthersKeepUniformsInv DEF CreateCompute
<1>5. CASE \E c \in Contexts : Launch(c) BY <1>5, LaunchKeepsUniformsInv
<1>6. CASE \E d \in Devices : TerminateDevice(d)
  BY <1>1, <1>6, OthersKeepUniformsInv DEF TerminateDevice
<1>7. CASE \E c \in Contexts : TerminateContext(c) BY <1>7, TerminateContextKeepsUniformsInv
<1>8. CASE \E i \in Instances : DropDevices(i)
  BY <1>1, <1>8, OthersKeepUniformsInv DEF DropDevices
<1>9. ASSUME NEW i \in Instances, EndInstance(i) PROVE UniformsInv'
  <2>1. exited' \in BOOLEAN BY <1>1, <1>9 DEF EndInstance
  <2> QED BY <1>1, <1>9, <2>1, OthersKeepUniformsInv DEF EndInstance
<1>10. CASE UNCHANGED vars BY <1>1, <1>10, OthersKeepUniformsInv DEF vars
<1> QED
  BY <1>2, <1>3, <1>4, <1>5, <1>6, <1>7, <1>8, <1>9, <1>10 DEF Next, Teardown

LEMMA UniformsInvAlways == Spec => [](Inv /\ UniformsInv)
  BY InitInv, InitUniformsInv, NextKeepsInv, NextKeepsUniformsInv, PTL DEF Spec

\* Type correctness, with the ownership, the uniform buffers sets and the pool,
\* layout and set of the statics.
THEOREM TypesAlwaysOK == Spec => []TypeOK
<1>1. ASSUME Inv, UniformsInv, StaticsInv PROVE TypeOK
  <2>1. copyOfList \subseteq Contexts
    BY <1>1 DEF Inv, OnlyLiveContextsVisited, LiveContexts
  <2> QED BY <1>1, <2>1 DEF Inv, Types, UniformsInv, StaticsInv, Trios, TypeOK
<1> QED BY <1>1, UniformsInvAlways, StaticsInvAlways, PTL

\* Context::rebuildDescriptors() and its static flag: one context of the process
\* has the uniform buffers, it never binds a null set, and its set dies with it.
THEOREM FirstContextAlwaysHasTheUniforms == Spec => []FirstContextHasTheUniforms
<1> DEFINE served == {c \in Contexts : uniforms[c] # NewTrio}
<1>1. ASSUME Inv, UniformsInv, ~ created PROVE FirstContextHasTheUniforms
  <2>1. served = {} /\ bound = {} BY <1>1 DEF UniformsInv
  <2>2. Cardinality(served) = 0 BY <2>1, FS_EmptySet
  <2>3. \A c \in Contexts : NothingAllocated(uniforms[c]) BY <1>1, NewTrioIsEmpty DEF UniformsInv
  <2> QED BY <2>1, <2>2, <2>3 DEF FirstContextHasTheUniforms
<1>2. ASSUME Inv, UniformsInv, created PROVE FirstContextHasTheUniforms
  <2>1. PICK b \in Contexts \ bound :
          Served(b) /\ \A a \in Contexts \ {b} : uniforms[a] = NewTrio
    BY <1>2 DEF UniformsInv
  <2>2. uniforms[b] # NewTrio BY <2>1, NewTrioIsEmpty DEF Served
  <2>3. served = {b} BY <2>1, <2>2
  <2>4. Cardinality(served) = 1 BY <2>3, FS_Singleton
  <2>5. ASSUME NEW c \in Contexts \ LiveContexts PROVE NothingAllocated(uniforms[c])
    <3>1. device[c] = None BY <2>5 DEF LiveContexts
    <3> QED BY <2>1, <2>5, <3>1, NewTrioIsEmpty DEF Served
  <2>6. bound \cap served = {} /\ served # {} BY <2>1, <2>3
  <2> HIDE DEF served
  <2>7. Cardinality(served) <= 1 BY <2>4
  <2> QED BY <2>5, <2>6, <2>7 DEF FirstContextHasTheUniforms, served
<1>3. Inv /\ UniformsInv => FirstContextHasTheUniforms BY <1>1, <1>2 DEF UniformsInv
<1> QED BY <1>3, UniformsInvAlways, PTL

---------------------------------------------------------------------------
(* Where the devices of an instance come from: vknInitialize(), as         *)
(* DeviceSelect has it, for any number of GPUs.                            *)

\* The loops of findDevices() that are over, or have got so far, reached GPU n.
Reached(n) ==
  \/ Rank(n) + 1 < pass
  \/ Rank(n) + 1 = pass /\ n < gpu

Wanted(n) == gpus[n].type \in requested /\ gpus[n].extensions # "none"

SelectionTypes ==
  /\ gpus \in Seq([type : GPUTypes, extensions : Extensions])
  /\ requested \in SUBSET Requestable
  /\ pass \in 1 .. 3 /\ gpu \in 1 .. Len(gpus) + 1
  /\ found \in Seq(1 .. Len(gpus)) /\ selected \in Seq(1 .. Len(gpus))

Sorted(s) ==
  \A j, k \in 1 .. Len(s) : j < k =>
    \/ Rank(s[j]) < Rank(s[k])
    \/ Rank(s[j]) = Rank(s[k]) /\ s[j] < s[k]

\* What was found so far are the wanted GPUs that were reached, in order.
FoundSoFar ==
  /\ \A n \in 1 .. Len(gpus) :
       (\E j \in 1 .. Len(found) : found[j] = n) <=> Wanted(n) /\ Reached(n)
  /\ Sorted(found)

\* Devices are made of what was found, from the first on.
MadeInOrder ==
  /\ Len(selected) <= Len(found)
  /\ \A j \in 1 .. Len(selected) : selected[j] = found[j]
  /\ step = "devices" \/ result = "instance" => pass = 3 /\ gpu = Len(gpus) + 1
  /\ result = "instance" => step = "done" /\ Len(selected) = Len(found)

SelectionInv == SelectionTypes /\ FoundSoFar /\ MadeInOrder

LEMMA SelectionInit ==
  ASSUME SelectInit
  PROVE  SelectionInv
<1>1. PICK n \in 0 .. MaxGPUs :
        gpus \in [1 .. n -> [type : GPUTypes, extensions : Extensions]]
  BY DEF SelectInit
<1>2. gpus \in Seq([type : GPUTypes, extensions : Extensions])
  <2>1. n \in Nat OBVIOUS
  <2> QED BY <1>1, <2>1, SeqDef
<1>3. Len(gpus) \in Nat BY <1>2, LenProperties
<1>4. found = <<>> /\ selected = <<>> /\ pass = 1 /\ gpu = 1 /\ step = "instance"
      /\ result = "pending" /\ requested \in SUBSET Requestable
  BY DEF SelectInit
<1>5. SelectionTypes BY <1>2, <1>3, <1>4, EmptySeq DEF SelectionTypes
<1>6. Len(found) = 0 /\ Len(selected) = 0 BY <1>4, EmptySeq
<1>7. ASSUME NEW n0 \in 1 .. Len(gpus) PROVE ~ Reached(n0)
  <2>1. Rank(n0) \in Nat BY DEF Rank
  <2> QED BY <1>4, <2>1 DEF Reached
<1>8. FoundSoFar BY <1>6, <1>7 DEF FoundSoFar, Sorted
<1>9. MadeInOrder BY <1>4, <1>6 DEF MadeInOrder
<1> QED BY <1>5, <1>8, <1>9 DEF SelectionInv

\* The p-th loop is over the GPUs of rank p - 1.
LEMMA RankOfPass ==
  ASSUME SelectionTypes, NEW n \in 1 .. Len(gpus)
  PROVE  /\ Rank(n) \in 0 .. 3
         /\ \A p \in 1 .. 3 : gpus[n].type = TypeOrder[p] <=> Rank(n) + 1 = p
         /\ Rank(n) = 3 <=> gpus[n].type \notin Requestable
<1>1. gpus[n].type \in {"Discrete", "Integrated", "Virtual", "Other"}
  <2>1. gpus[n] \in [type : GPUTypes, extensions : Extensions]
    BY ElementOfSeq DEF SelectionTypes
  <2> QED BY <2>1 DEF GPUTypes
<1>2. /\ TypeOrder[1] = "Discrete" /\ TypeOrder[2] = "Integrated"
      /\ TypeOrder[3] = "Virtual"
  BY DEF TypeOrder
<1>3. /\ gpus[n].type = "Discrete" => Rank(n) = 0
      /\ gpus[n].type = "Integrated" => Rank(n) = 1
      /\ gpus[n].type = "Virtual" => Rank(n) = 2
      /\ gpus[n].type = "Other" => Rank(n) = 3
  BY DEF Rank
<1> QED BY <1>1, <1>2, <1>3 DEF Requestable

LEMMA MatchGPUKeepsInv ==
  ASSUME SelectionInv, MatchGPU
  PROVE  SelectionInv'
<1> USE DEF MatchGPU
<1>1. /\ SelectionTypes /\ gpus' = gpus /\ requested' = requested /\ selected' = selected
      /\ pass' = pass /\ gpu' = gpu + 1 /\ step = "match" /\ step' = "match"
      /\ result' = result
  BY DEF SelectionInv
<1>2. gpu \in 1 .. Len(gpus) /\ Len(gpus) \in Nat /\ Len(found) \in Nat /\ pass \in 1 .. 3
      /\ Len(selected) \in Nat
  BY LenProperties DEF SelectionInv, SelectionTypes
<1>3. ASSUME NEW n \in 1 .. Len(gpus)
      PROVE  Rank(n)' = Rank(n) /\ Wanted(n)' = Wanted(n)
  BY DEF Rank, Wanted
<1>4. ASSUME NEW n \in 1 .. Len(gpus)
      PROVE  Reached(n)' <=> Reached(n) \/ (n = gpu /\ Rank(n) + 1 = pass)
  <2>1. Rank(n) \in 0 .. 3 BY <1>1, RankOfPass
  <2>2. Rank(n)' = Rank(n) BY <1>3
  <2> QED BY <1>1, <1>2, <2>1, <2>2 DEF Reached
<1>5. Matches(gpu, TypeOrder[pass])
        <=> Wanted(gpu) /\ Rank(gpu) + 1 = pass
  <2>1. gpus[gpu].type = TypeOrder[pass] <=> Rank(gpu) + 1 = pass
    BY <1>1, <1>2, RankOfPass
  <2> QED BY <2>1 DEF Matches, CanDoRayTracing, Wanted
<1>6. \A n \in 1 .. Len(gpus) :
        (\E j \in 1 .. Len(found) : found[j] = n) <=> Wanted(n) /\ Reached(n)
  BY DEF SelectionInv, FoundSoFar
<1>7. ASSUME NEW j \in 1 .. Len(found)
      PROVE  found[j] \in 1 .. Len(gpus) /\ Reached(found[j])
  <2>1. found[j] \in 1 .. Len(gpus) BY <1>1, ElementOfSeq DEF SelectionTypes
  <2> QED BY <1>6, <2>1
<1>8. CASE Matches(gpu, TypeOrder[pass])
  <2>1. found' = Append(found, gpu) BY <1>8
  <2>2. found \in Seq(1 .. Len(gpus)) /\ gpu \in 1 .. Len(gpus)
    BY <1>1, <1>2 DEF SelectionTypes
  <2>3. /\ found' \in Seq(1 .. Len(gpus)) /\ Len(found') = Len(found) + 1
        /\ found'[Len(found) + 1] = gpu
        /\ \A j \in 1 .. Len(found) : found'[j] = found[j]
    <3> HIDE DEF MatchGPU
    <3> QED BY <2>1, <2>2, AppendProperties
  <2>4. SelectionTypes' BY <1>1, <1>2, <2>3 DEF SelectionTypes
  <2>5. ASSUME NEW n \in 1 .. Len(gpus)
        PROVE  (\E j \in 1 .. Len(found') : found'[j] = n) <=> Wanted(n)' /\ Reached(n)'
    <3>1. (\E j \in 1 .. Len(found') : found'[j] = n)
            <=> (\E j \in 1 .. Len(found) : found[j] = n) \/ n = gpu
      BY <1>2, <2>3
    <3>2. Wanted(gpu) /\ Rank(gpu) + 1 = pass BY <1>5, <1>8
    <3> QED BY <1>3, <1>4, <1>6, <3>1, <3>2
  <2>6. Sorted(found')
    <3> SUFFICES ASSUME NEW j \in 1 .. Len(found'), NEW k \in 1 .. Len(found'), j < k
                 PROVE  \/ Rank(found'[j]) < Rank(found'[k])
                        \/ /\ Rank(found'[j]) = Rank(found'[k])
                           /\ found'[j] < found'[k]
      BY DEF Sorted
    <3>1. j \in 1 .. Len(found) /\ found'[j] = found[j] BY <1>2, <2>3
    <3>2. CASE k \in 1 .. Len(found)
      <4>1. found'[k] = found[k] BY <2>3, <3>2
      <4>2. Sorted(found) BY DEF SelectionInv, FoundSoFar
      <4> QED BY <3>1, <3>2, <4>1, <4>2 DEF Sorted
    <3>3. CASE k = Len(found) + 1
      <4>1. found'[k] = gpu /\ Rank(gpu) + 1 = pass BY <1>5, <1>8, <2>3, <3>3
      <4>2. Rank(gpu) \in 0 .. 3 BY <1>1, <1>2, RankOfPass
      <4>3. /\ found[j] \in 1 .. Len(gpus)
            /\ \/ Rank(found[j]) + 1 < pass
               \/ Rank(found[j]) + 1 = pass /\ found[j] < gpu
        BY <1>7, <3>1 DEF Reached
      <4>4. Rank(found[j]) \in 0 .. 3 BY <1>1, <4>3, RankOfPass
      <4> QED BY <1>2, <3>1, <4>1, <4>2, <4>3, <4>4
    <3> QED BY <1>2, <2>3, <3>2, <3>3
  <2>7. Sorted(found)'
    <3>1. gpus' = gpus OBVIOUS
    <3> HIDE DEF MatchGPU
    <3> QED BY <2>6, <3>1 DEF Sorted, Rank
  <2>8. MadeInOrder' BY <1>1, <1>2, <2>3 DEF SelectionInv, MadeInOrder
  <2> QED BY <1>1, <2>4, <2>5, <2>7, <2>8 DEF SelectionInv, FoundSoFar
<1>9. CASE ~ Matches(gpu, TypeOrder[pass])
  <2>1. found' = found BY <1>9
  <2>2. SelectionTypes' BY <1>1, <1>2, <2>1 DEF SelectionTypes
  <2>3. ASSUME NEW n \in 1 .. Len(gpus)
        PROVE  Wanted(n)' /\ Reached(n)' <=> Wanted(n) /\ Reached(n)
    BY <1>3, <1>4, <1>5, <1>9
  <2>4. Sorted(found)'
    BY <1>1, <2>1 DEF SelectionInv, FoundSoFar, Sorted, Rank
  <2>5. MadeInOrder' BY <1>1, <1>2, <2>1 DEF SelectionInv, MadeInOrder
  <2> QED BY <1>1, <1>6, <2>1, <2>2, <2>3, <2>4, <2>5 DEF SelectionInv, FoundSoFar
<1> QED BY <1>8, <1>9

\* A new loop has reached what the loops before it have.
LEMMA NextTypeKeepsInv ==
  ASSUME SelectionInv, NextType
  PROVE  SelectionInv'
<1> USE DEF NextType
<1>1. /\ UNCHANGED <<gpus, requested, step, found, selected, result>>
      /\ pass' = pass + 1 /\ gpu' = 1 /\ step = "match"
      /\ gpu > Len(gpus) /\ pass < 3
  BY DEF TypeOrder
<1>2. SelectionTypes /\ Len(gpus) \in Nat /\ pass \in 1 .. 2 /\ gpu \in Nat
  BY <1>1, LenProperties DEF SelectionInv, SelectionTypes
<1>3. SelectionTypes' BY <1>1, <1>2 DEF SelectionTypes
<1>4. ASSUME NEW n \in 1 .. Len(gpus)
      PROVE  Wanted(n)' = Wanted(n) /\ (Reached(n)' <=> Reached(n))
  <2>1. Rank(n) \in 0 .. 3 BY <1>2, RankOfPass
  <2>2. Rank(n)' = Rank(n) BY <1>1 DEF Rank
  <2>3. n < gpu BY <1>1, <1>2
  <2>4. Reached(n)' <=> Reached(n) BY <1>1, <1>2, <2>1, <2>2, <2>3 DEF Reached
  <2> QED BY <1>1, <2>4 DEF Wanted
<1>5. Sorted(found)'
  BY <1>1 DEF SelectionInv, FoundSoFar, Sorted, Rank
<1>6. MadeInOrder' BY <1>1 DEF SelectionInv, MadeInOrder
<1> QED BY <1>1, <1>3, <1>4, <1>5, <1>6 DEF SelectionInv, FoundSoFar

\* The steps that leave the list of GPUs and what was found as they are.
LEMMA NothingFoundKeepsInv ==
  ASSUME SelectionInv, UNCHANGED <<gpus, requested, pass, gpu, found>>,
         selected' \in Seq(1 .. Len(gpus)), MadeInOrder'
  PROVE  SelectionInv'
<1>1. SelectionTypes' BY DEF SelectionInv, SelectionTypes
<1>2. FoundSoFar' BY DEF SelectionInv, FoundSoFar, Sorted, Wanted, Reached, Rank
<1> QED BY <1>1, <1>2 DEF SelectionInv

LEMMA CreateDeviceKeepsInv ==
  ASSUME SelectionInv, CreateDevice
  PROVE  SelectionInv'
<1> USE DEF CreateDevice
<1>1. UNCHANGED <<gpus, requested, pass, gpu, found>> /\ step = "devices"
      /\ result # "instance"
  BY DEF SelectionInv, MadeInOrder
<1>2. /\ Len(selected) \in Nat /\ Len(found) \in Nat /\ Len(selected) < Len(found)
      /\ selected \in Seq(1 .. Len(gpus)) /\ found \in Seq(1 .. Len(gpus))
  BY LenProperties DEF SelectionInv, SelectionTypes
<1> DEFINE n == found[Len(selected) + 1]
<1>3. n \in 1 .. Len(gpus)
  <2>1. Len(selected) + 1 \in 1 .. Len(found) BY <1>2
  <2> QED BY <1>2, <2>1, ElementOfSeq
<1>4. CASE CanBeCreated(n)
  <2>1. selected' = Append(selected, n) /\ step' = step /\ result' = result BY <1>4
  <2> HIDE DEF n
  <2>2. /\ selected' \in Seq(1 .. Len(gpus)) /\ Len(selected') = Len(selected) + 1
        /\ selected'[Len(selected) + 1] = n
        /\ \A j \in 1 .. Len(selected) : selected'[j] = selected[j]
    BY <1>2, <1>3, <2>1, AppendProperties
  <2>3. n = found[Len(selected) + 1] BY DEF n
  <2>4. MadeInOrder'
    <3>1. ASSUME NEW j \in 1 .. Len(selected') PROVE selected'[j] = found[j]
      <4>1. j \in 1 .. Len(selected) \/ j = Len(selected) + 1 BY <1>2, <2>2
      <4> QED BY <2>2, <2>3, <4>1 DEF SelectionInv, MadeInOrder
    <3> QED BY <1>1, <1>2, <2>1, <2>2, <3>1 DEF SelectionInv, MadeInOrder
  <2> QED BY <1>1, <2>2, <2>4, NothingFoundKeepsInv
<1>5. CASE ~ CanBeCreated(n)
  <2>1. selected' = selected /\ step' = "done" /\ result' = "killed" BY <1>5
  <2>2. MadeInOrder' BY <1>1, <2>1 DEF SelectionInv, MadeInOrder
  <2> QED BY <1>1, <1>2, <2>1, <2>2, NothingFoundKeepsInv
<1> QED BY <1>4, <1>5

LEMMA SelectionNext == SelectionInv /\ [SelectNext]_selectVars => SelectionInv'
<1> SUFFICES ASSUME SelectionInv, SelectNext \/ UNCHANGED selectVars
             PROVE  SelectionInv'
  OBVIOUS
<1>1. selected \in Seq(1 .. Len(gpus)) /\ MadeInOrder BY DEF SelectionInv, SelectionTypes
<1>2. CASE MatchGPU BY <1>2, MatchGPUKeepsInv
<1>3. CASE NextType BY <1>3, NextTypeKeepsInv
<1>4. CASE CreateDevice BY <1>4, CreateDeviceKeepsInv
<1>5. CASE CreateDriver
  BY <1>1, <1>5, NothingFoundKeepsInv DEF CreateDriver, MadeInOrder
<1>6. CASE RetryWithoutLayer
  BY <1>1, <1>6, NothingFoundKeepsInv DEF RetryWithoutLayer, MadeInOrder
<1>7. CASE NoDriver
  BY <1>1, <1>7, NothingFoundKeepsInv DEF NoDriver, Throw, MadeInOrder
<1>8. CASE NoGPUs
  BY <1>1, <1>8, NothingFoundKeepsInv DEF NoGPUs, Throw, MadeInOrder
<1>9. CASE Enumerate
  BY <1>1, <1>9, NothingFoundKeepsInv DEF Enumerate, MadeInOrder
<1>10. CASE AllMatched
  <2>1. pass = 3 /\ gpu = Len(gpus) + 1 /\ step' = "devices" /\ result # "instance"
    <3>1. Len(gpus) \in Nat /\ gpu \in 1 .. Len(gpus) + 1
      BY LenProperties DEF SelectionInv, SelectionTypes
    <3> QED BY <1>1, <1>10, <3>1 DEF AllMatched, TypeOrder, MadeInOrder
  <2> QED BY <1>1, <1>10, <2>1, NothingFoundKeepsInv DEF AllMatched, MadeInOrder
<1>11. CASE Return
  BY <1>1, <1>11, NothingFoundKeepsInv DEF Return, MadeInOrder
<1>12. CASE UNCHANGED selectVars
  BY <1>1, <1>12, NothingFoundKeepsInv DEF selectVars, MadeInOrder
<1> QED BY <1>2, <1>3, <1>4, <1>5, <1>6, <1>7, <1>8, <1>9, <1>10, <1>11, <1>12
        DEF SelectNext

LEMMA SelectionInvAlways == SelectSpec => []SelectionInv
<1>1. SelectInit => SelectionInv BY SelectionInit
<1> QED BY <1>1, SelectionNext, PTL DEF SelectSpec

\* findDevices(): discrete GPUs first, then integrated ones, then virtual ones, and those
\* of one type in Vulkan's order, for any number of GPUs.
THEOREM DevicesAlwaysSorted == SelectSpec => []DevicesSorted
<1>1. ASSUME SelectionInv PROVE DevicesSorted
  <2> SUFFICES ASSUME NEW j \in DOMAIN selected, NEW k \in DOMAIN selected, j < k
               PROVE  \/ Rank(selected[j]) < Rank(selected[k])
                      \/ /\ Rank(selected[j]) = Rank(selected[k])
                         /\ selected[j] < selected[k]
    BY DEF DevicesSorted
  <2>1. /\ Len(selected) \in Nat /\ Len(found) \in Nat /\ Len(selected) <= Len(found)
        /\ DOMAIN selected = 1 .. Len(selected)
    BY <1>1, LenProperties DEF SelectionInv, SelectionTypes, MadeInOrder
  <2>2. j \in 1 .. Len(found) /\ k \in 1 .. Len(found) BY <2>1
  <2>3. selected[j] = found[j] /\ selected[k] = found[k]
    BY <1>1, <2>1 DEF SelectionInv, MadeInOrder
  <2> QED BY <1>1, <2>2, <2>3 DEF SelectionInv, FoundSoFar, Sorted
<1> QED BY <1>1, SelectionInvAlways, PTL

\* vknInitialize(): the instance it returns has a device on every GPU of a requested type
\* that can ray trace, and on no other.
THEOREM DevicesAlwaysThoseAskedFor == SelectSpec => []DevicesAreThoseAskedFor
<1>1. ASSUME SelectionInv, result = "instance"
      PROVE  Range(selected)
               = {n \in DOMAIN gpus : gpus[n].type \in requested /\ gpus[n].extensions # "none"}
  <2>1. /\ Len(selected) \in Nat /\ DOMAIN selected = 1 .. Len(selected)
        /\ Len(gpus) \in Nat /\ DOMAIN gpus = 1 .. Len(gpus)
        /\ Len(selected) = Len(found) /\ pass = 3 /\ gpu = Len(gpus) + 1
    BY <1>1, LenProperties DEF SelectionInv, SelectionTypes, MadeInOrder
  <2>2. ASSUME NEW j \in 1 .. Len(selected)
        PROVE  selected[j] = found[j] /\ selected[j] \in 1 .. Len(gpus)
    BY <1>1, ElementOfSeq DEF SelectionInv, SelectionTypes, MadeInOrder
  <2>3. ASSUME NEW n \in 1 .. Len(gpus), Wanted(n) PROVE Reached(n)
    <3>1. Rank(n) \in 0 .. 3 /\ Rank(n) # 3
      BY <1>1, <2>3, RankOfPass DEF SelectionInv, SelectionTypes, Wanted
    <3> QED BY <2>1, <3>1 DEF Reached
  <2>4. \A n \in 1 .. Len(gpus) :
          (\E j \in 1 .. Len(selected) : selected[j] = n) <=> Wanted(n)
    BY <1>1, <2>1, <2>2, <2>3 DEF SelectionInv, FoundSoFar
  <2>5. Range(selected) = {selected[j] : j \in 1 .. Len(selected)}
    BY <2>1 DEF Range
  <2> QED BY <2>1, <2>2, <2>4, <2>5 DEF Wanted
<1>2. SelectionInv => DevicesAreThoseAskedFor
  BY <1>1 DEF DevicesAreThoseAskedFor
<1> QED BY <1>2, SelectionInvAlways, PTL
=============================================================================
