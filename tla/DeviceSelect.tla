---------------------------- MODULE DeviceSelect ----------------------------
(***************************************************************************)
(* vknInitialize(): creating the Vulkan instance, with the validation layer*)
(* if there is one, finding the GPUs of the requested types that can ray   *)
(* trace, and creating a logical device on each.  What is installed in the *)
(* machine is chosen in the initial state and never changes.               *)
(***************************************************************************)
EXTENDS Integers, SequencesExt

CONSTANTS
  MaxGPUs  \* bound on the GPUs in the machine

ASSUME MaxGPUsAssumption == MaxGPUs \in Nat

GPUTypes == {"Discrete", "Integrated", "Virtual", "Other"}  \* "Other" is also PhysicalDevice::CPU
Requestable == {"Discrete", "Integrated", "Virtual"}     \* VKNDeviceType

\* What a GPU's extensions allow: nothing of interest, the ray tracing pipeline,
\* and ray queries as well.
Extensions == {"none", "rayTracing", "rayQuery"}

VARIABLES
  gpus,       \* the GPUs in the order in which Vulkan lists them
  requested,  \* the argument of vknInitialize()
  step,       \* the next thing the constructor of DriverInstance does
  attempt,    \* the loop variable of driver::Instance::Instance()
  pass,       \* findDevices(): the type whose loop it is in
  gpu,        \*   and the loop variable
  found,      \* what findDevices() returned: indices into gpus
  selected,   \* DriverInstance::devices: the GPU each was made of
  result      \* what vknInitialize() returned

selectVars == <<gpus, requested, step, attempt, pass, gpu, found, selected, result>>

SelectInit ==
  /\ \E n \in 0 .. MaxGPUs : gpus \in [1 .. n -> [type : GPUTypes, extensions : Extensions]]
  /\ requested \in SUBSET Requestable \ {{}}
  /\ step = "instance" /\ attempt = 0
  /\ pass = 1 /\ gpu = 1
  /\ found = <<>> /\ selected = <<>>
  /\ result = "pending"

\* The catch in vknInitialize().
Throw ==
  /\ step' = "done" /\ result' = "nullptr"
  /\ UNCHANGED <<gpus, requested, attempt, pass, gpu, found, selected>>

\* vkCreateInstance() may fail for many reasons, the first time most likely for
\* want of the validation layer.
CreateDriver ==
  /\ step = "instance"
  /\ step' = "find"
  /\ UNCHANGED <<gpus, requested, attempt, pass, gpu, found, selected, result>>

RetryWithoutLayer ==
  /\ step = "instance" /\ attempt = 0
  /\ attempt' = 1
  /\ UNCHANGED <<gpus, requested, step, pass, gpu, found, selected, result>>

NoDriver == step = "instance" /\ attempt = 1 /\ Throw

NoGPUs == step = "find" /\ gpus = <<>> /\ Throw

\* Mutant: the order of the loops is that in which PhysicalDevice::Type lists them.
TypesAsDeclared == <<"Integrated", "Discrete", "Virtual">>

\* findDevices() goes through the list once for each type, the best type first.
TypeOrder == <<"Discrete", "Integrated", "Virtual">>

Enumerate ==
  /\ step = "find" /\ gpus # <<>>
  /\ step' = "match"
  /\ UNCHANGED <<gpus, requested, attempt, pass, gpu, found, selected, result>>

CanDoRayTracing(n) == gpus[n].extensions # "none"

Matches(n, type) ==
  type \in requested /\ gpus[n].type = type /\ CanDoRayTracing(n)

MatchGPU ==
  /\ step = "match" /\ gpu <= Len(gpus)
  /\ found' = IF Matches(gpu, TypeOrder[pass]) THEN Append(found, gpu) ELSE found
  /\ gpu' = gpu + 1
  /\ UNCHANGED <<gpus, requested, step, attempt, pass, selected, result>>

\* Mutant: of several requested types only the best one there is.
NextTypeIfNoneFound ==
  /\ step = "match" /\ gpu > Len(gpus)
  /\ pass < Len(TypeOrder)
  /\ pass' = IF found = <<>> THEN pass + 1 ELSE Len(TypeOrder)
  /\ gpu' = IF found = <<>> THEN 1 ELSE gpu
  /\ UNCHANGED <<gpus, requested, step, attempt, found, selected, result>>

NextType ==
  /\ step = "match" /\ gpu > Len(gpus)
  /\ pass < Len(TypeOrder)
  /\ pass' = pass + 1 /\ gpu' = 1
  /\ UNCHANGED <<gpus, requested, step, attempt, found, selected, result>>

AllMatched ==
  /\ step = "match" /\ gpu > Len(gpus)
  /\ pass = Len(TypeOrder)
  /\ step' = "devices"
  /\ UNCHANGED <<gpus, requested, attempt, pass, gpu, found, selected, result>>

\* The extension LogicalDevice::LogicalDevice() enables on top of those that
\* canDoRayTracing() looks for.
CanBeCreated(n) == gpus[n].extensions = "rayQuery"

\* The constructor's loop over the devices found.  When vkCreateDevice() fails,
\* VK_CALL raises SIGINT.
CreateDevice ==
  /\ step = "devices" /\ Len(selected) < Len(found)
  /\ LET n == found[Len(selected) + 1]
     IN  IF CanBeCreated(n)
         THEN selected' = Append(selected, n) /\ UNCHANGED <<step, result>>
         ELSE step' = "done" /\ result' = "killed" /\ UNCHANGED selected
  /\ UNCHANGED <<gpus, requested, attempt, pass, gpu, found>>

Return ==
  /\ step = "devices" /\ Len(selected) = Len(found)
  /\ step' = "done" /\ result' = "instance"
  /\ UNCHANGED <<gpus, requested, attempt, pass, gpu, found, selected>>

SelectNext ==
  \/ CreateDriver \/ RetryWithoutLayer \/ NoDriver
  \/ NoGPUs \/ Enumerate \/ MatchGPU \/ NextType \/ AllMatched
  \/ CreateDevice \/ Return

SelectSpec == SelectInit /\ [][SelectNext]_selectVars
---------------------------------------------------------------------------
(* Properties.                                                             *)

Rank(n) ==
  CASE gpus[n].type = "Discrete" -> 0
    [] gpus[n].type = "Integrated" -> 1
    [] gpus[n].type = "Virtual" -> 2
    [] OTHER -> 3

\* vulkanite.h:185: discrete devices come before integrated ones and these
\* before virtual ones; devices of one type stay in Vulkan's order.
DevicesSorted ==
  \A j, k \in DOMAIN selected : j < k =>
    \/ Rank(selected[j]) < Rank(selected[k])
    \/ Rank(selected[j]) = Rank(selected[k]) /\ selected[j] < selected[k]

\* An instance has every GPU of a requested type that can ray trace, and no
\* other.
DevicesAreThoseAskedFor ==
  result = "instance" =>
    Range(selected) = {n \in DOMAIN gpus : gpus[n].type \in requested /\ gpus[n].extensions # "none"}
=============================================================================
