--------------------------- MODULE ShaderTables ---------------------------
(***************************************************************************)
(* The ray tracing pipeline and the shader binding table of one context:   *)
(* RTPipeline, Context::buildSBT and Context::launch, driven by the calls  *)
(* an application makes on types, geometries and accels.                   *)
(*                                                                         *)
(* What a launch executes is reached through three indirections that are   *)
(* filled in by different calls: a type's shaderGroupIndex (buildPipeline) *)
(* selects a shader group handle, the handle and the data of an object are *)
(* copied into a record (buildSBT), and the accel's SBT range (its         *)
(* constructor, RangeAllocator) says at which record a hit looks.          *)
(*                                                                         *)
(* Types are numbers: the addresses the code's std::set<Type *> sorts by.  *)
(* A raygen and a miss program are created together with a type of their   *)
(* own, so one number stands for both.  No call of the API destroys any of *)
(* these objects before the context ends, so nothing is destroyed here.    *)
(***************************************************************************)
EXTENDS Integers, FiniteSetsExt, SequencesExt

CONSTANTS
  RayGens, MissProgs,   \* addresses of ray generation and miss programs
  GeomTypes, UserTypes, \* addresses of geometry types; those of user kind
  Geoms,                \* geometries
  GeomAccels, InstAccels, \* geometry and instance accels
  MaxGeoms,             \* most geometries in an accel, instances in a TLAS
  MaxPrograms,          \* programs a geometry type is given, 1 .. MaxPrograms
  MaxData,              \* values of an object's data, 0 .. MaxData
  Tuned,                \* the objects whose data is set (bounds the model)
  MaxBuilds             \* pipeline builds (bounds the model)

ASSUME AddressesDiffer ==
  /\ RayGens \cup MissProgs \cup GeomTypes \subseteq Nat \ {0}
  /\ RayGens \cap MissProgs = {}
  /\ (RayGens \cup MissProgs) \cap GeomTypes = {}
  /\ UserTypes \subseteq GeomTypes
ASSUME KindsDiffer == GeomAccels \cap InstAccels = {}
ASSUME MaxGeomsAssumption == MaxGeoms \in Nat
ASSUME BoundsAssumption == MaxPrograms \in Nat /\ MaxData \in Nat /\ MaxBuilds \in Nat

Accels == GeomAccels \cup InstAccels
Types == RayGens \cup MissProgs \cup GeomTypes

VARIABLES
  rayGenTypes, missProgTypes, geomTypes, \* the sets RTPipeline tracks
  program,          \* the program of each geometry type, 0 for none
  shaderGroupIndex, \* SBTObjectType::shaderGroupIndex of each type
  pipeline,         \* number of the build that made the pipeline, 0 for null
  shaderGroups,     \* the groups the pipeline was created with
  handles,          \* RTPipeline::shaderHandleStorage
  builds,           \* pipelines created so far
  rayGens, missProgs, \* ListOf::elements
  geomType,         \* the type of each geometry, 0 before it is created
  data,             \* the data of each raygen, miss program and geometry
  geoms,            \* the geometries of each geometry accel
  rayGenRecords, missProgRecords, hitGroupRecords, \* the SBT buffers
  launched,         \* the raygen last asked for and the record that ran
  phase,            \* how far the application is, see below
  freedRanges, maxAllocedID, live, sbtEntries \* RangeAllocator

typeVars == <<rayGenTypes, missProgTypes, geomTypes, program>>
pipelineVars == <<shaderGroupIndex, pipeline, shaderGroups, handles, builds>>
rangeVars == <<freedRanges, maxAllocedID, live, sbtEntries>>
objectVars == <<rayGens, missProgs, geomType, data, geoms, rangeVars>>
sbtVars == <<rayGenRecords, missProgRecords, hitGroupRecords>>
vars == <<typeVars, pipelineVars, objectVars, sbtVars, launched, phase>>

Ranges == INSTANCE RangeAllocator WITH MaxEntries <- MaxGeoms

---------------------------------------------------------------------------
(* The samples make their calls in one order: types and their programs,    *)
(* then buildPipeline, then accels and data, then buildSBT, then launches. *)
(* phase remembers which of the two builds is still up to date.  It is not *)
(* part of the program; only launch is guarded by it.                      *)

Changing == "changing"   \* types changed since the pipeline was built
Built == "built"         \* the pipeline knows every type
Ready == "ready"         \* and the records know every object
Phases == {Changing, Built, Ready}

Outdate == phase' = IF phase = Ready THEN Built ELSE phase

---------------------------------------------------------------------------
(* Creating types and objects.                                             *)

CreateRayGen(r) ==
  /\ r \notin rayGenTypes
  /\ rayGenTypes' = rayGenTypes \cup {r}
  /\ rayGens' = Append(rayGens, r)
  /\ phase' = Changing
  /\ UNCHANGED <<missProgTypes, geomTypes, program, pipelineVars, sbtVars,
                 missProgs, geomType, data, geoms, rangeVars, launched>>

CreateMissProg(m) ==
  /\ m \notin missProgTypes
  /\ missProgTypes' = missProgTypes \cup {m}
  /\ missProgs' = Append(missProgs, m)
  /\ phase' = Changing
  /\ UNCHANGED <<rayGenTypes, geomTypes, program, pipelineVars, sbtVars,
                 rayGens, geomType, data, geoms, rangeVars, launched>>

CreateGeomType(t) ==
  /\ t \notin geomTypes
  /\ geomTypes' = geomTypes \cup {t}
  /\ phase' = Changing
  /\ UNCHANGED <<rayGenTypes, missProgTypes, program, pipelineVars, sbtVars,
                 objectVars, launched>>

\* setIS on a user type, setCH on a triangles type.
SetProgram(t, p) ==
  /\ t \in geomTypes
  /\ program' = [program EXCEPT ![t] = p]
  /\ phase' = Changing
  /\ UNCHANGED <<rayGenTypes, missProgTypes, geomTypes, pipelineVars, sbtVars,
                 objectVars, launched>>

CreateGeom(g, t) ==
  /\ geomType[g] = 0
  /\ t \in geomTypes
  /\ geomType' = [geomType EXCEPT ![g] = t]
  /\ UNCHANGED <<typeVars, pipelineVars, sbtVars, rayGens, missProgs, data,
                 geoms, rangeVars, launched, phase>>

Exists(x) ==
  \/ x \in rayGenTypes \cup missProgTypes
  \/ x \in Geoms /\ geomType[x] # 0

\* vknRayGenSetData, vknMissProgSetData, vknGeomSetData.
SetData(x, d) ==
  /\ Exists(x)
  /\ data' = [data EXCEPT ![x] = d]
  /\ Outdate
  /\ UNCHANGED <<typeVars, pipelineVars, sbtVars, rayGens, missProgs,
                 geomType, geoms, rangeVars, launched>>

Reserve(a, n) == Ranges!ConstructReusing(a, n) \/ Ranges!ConstructAtTop(a, n)

\* The geometries of one accel are all triangles or all user geometry.
Groupable(gs) ==
  /\ \A i \in DOMAIN gs : geomType[gs[i]] # 0
  /\ \A i, j \in DOMAIN gs :
       geomType[gs[i]] \in UserTypes <=> geomType[gs[j]] \in UserTypes

CreateGeomAccel(a, gs) ==
  /\ Groupable(gs)
  /\ Reserve(a, Len(gs))
  /\ geoms' = [geoms EXCEPT ![a] = gs]
  /\ Outdate
  /\ UNCHANGED <<typeVars, pipelineVars, sbtVars, rayGens, missProgs,
                 geomType, data, launched>>

\* An instance accel reserves an entry per instance that nothing ever uses.
CreateInstAccel(a, n) ==
  /\ Reserve(a, n)
  /\ UNCHANGED <<typeVars, pipelineVars, sbtVars, rayGens, missProgs,
                 geomType, data, geoms, launched, phase>>

---------------------------------------------------------------------------
(* RTPipeline::build.                                                      *)

Below(S, t) == Cardinality({u \in S : u < t})

\* A std::set of addresses, in iteration order.
InOrder(S) == [i \in 1 .. Cardinality(S) |-> CHOOSE t \in S : Below(S, t) = i - 1]

\* The types in the order gatherPrograms() visits them.
Gathered == InOrder(missProgTypes) \o InOrder(rayGenTypes) \o InOrder(geomTypes)

\* Mutant: each kind of type is numbered from zero.
NumberPerKind(t) ==
  CASE t \in missProgTypes -> Below(missProgTypes, t)
    [] t \in rayGenTypes -> Below(rayGenTypes, t)
    [] OTHER -> Below(geomTypes, t)

\* Mutant: the number is taken after the push.
NumberAfterPush(t) ==
  CASE t \in missProgTypes -> 1 + Below(missProgTypes, t)
    [] t \in rayGenTypes -> 1 + Cardinality(missProgTypes) + Below(rayGenTypes, t)
    [] OTHER -> 1 + Cardinality(missProgTypes) + Cardinality(rayGenTypes)
                  + Below(geomTypes, t)

\* shaderGroups.size() when the group of type t is pushed.
GroupNumber(t) ==
  CASE t \in missProgTypes -> Below(missProgTypes, t)
    [] t \in rayGenTypes -> Cardinality(missProgTypes) + Below(rayGenTypes, t)
    [] OTHER -> Cardinality(missProgTypes) + Cardinality(rayGenTypes)
                  + Below(geomTypes, t)

Group(t) == [type |-> t, program |-> IF t \in GeomTypes THEN program[t] ELSE 0]

\* The handle of a group of the pipeline that the given build made.
HandleOf(build, group) ==
  [build |-> build, type |-> group.type, program |-> group.program]

\* gatherPrograms() throws at a user type that has no intersection program.
Unusable == {t \in geomTypes \cap UserTypes : program[t] = 0}

Renumber(numbered) ==
  shaderGroupIndex' = [t \in Types |-> IF t \in numbered THEN GroupNumber(t)
                                       ELSE shaderGroupIndex[t]]

TrackedTypes == rayGenTypes \cup missProgTypes \cup geomTypes

\* Mutant: the handles of the previous pipeline are kept.
BuildPipelineKeepingHandles ==
  /\ Unusable = {}
  /\ builds < MaxBuilds
  /\ Renumber(TrackedTypes)
  /\ builds' = builds + 1
  /\ pipeline' = builds'
  /\ shaderGroups' = [i \in DOMAIN Gathered |-> Group(Gathered[i])]
  /\ handles' = IF handles # <<>> THEN handles ELSE
                [i \in DOMAIN shaderGroups' |-> HandleOf(builds', shaderGroups'[i])]
  /\ phase' = Built
  /\ UNCHANGED <<typeVars, objectVars, sbtVars, launched>>

BuildPipeline ==
  /\ Unusable = {}
  /\ builds < MaxBuilds
  /\ Renumber(TrackedTypes)
  /\ builds' = builds + 1
  /\ pipeline' = builds'
  /\ shaderGroups' = [i \in DOMAIN Gathered |-> Group(Gathered[i])]
  /\ handles' = [i \in DOMAIN shaderGroups' |-> HandleOf(builds', shaderGroups'[i])]
  /\ phase' = Built
  /\ UNCHANGED <<typeVars, objectVars, sbtVars, launched>>

\* The old pipeline is gone by then, the types visited so far have their new
\* numbers, and the handles are still the old ones.
BuildPipelineThrows ==
  /\ Unusable # {}
  /\ Renumber(missProgTypes \cup rayGenTypes
                \cup {t \in geomTypes : t < Min(Unusable)})
  /\ pipeline' = 0
  /\ shaderGroups' = <<>>
  /\ phase' = Changing
  /\ UNCHANGED <<typeVars, objectVars, sbtVars, handles, builds, launched>>

---------------------------------------------------------------------------
(* Context::buildSBT.                                                      *)

\* Mutant: the index counts from one.
HeaderFromOne(t) ==
  IF shaderGroupIndex[t] \in DOMAIN handles
  THEN handles[shaderGroupIndex[t]] ELSE [build |-> 0, type |-> 0, program |-> 0]

\* What a record holds where no handle was read, or nothing was written.
NoHandle == [build |-> 0, type |-> 0, program |-> 0]
Unwritten == [header |-> NoHandle, data |-> -1]

\* writeHeader() does not check the index.
Header(t) ==
  LET i == shaderGroupIndex[t] + 1
  IN IF i \in DOMAIN handles THEN handles[i] ELSE NoHandle

Record(t, x) == [header |-> Header(t), data |-> data[x]]

CallRecords(objects) == [i \in DOMAIN objects |-> Record(objects[i], objects[i])]

\* Mutant: a record is not advanced past for every geometry.
HitRecordsAtBegin ==
  [x \in 0 .. (IF maxAllocedID = 0 THEN 1 ELSE maxAllocedID) - 1 |->
     LET writers == {a \in live \cap GeomAccels : x = sbtEntries[a].begin}
     IN IF writers = {} THEN Unwritten
        ELSE LET g == Last(geoms[CHOOSE a \in writers : TRUE])
             IN Record(geomType[g], g)]

\* Each geometry accel writes a record per geometry from its first entry on;
\* entries of instance accels stay unwritten.
HitRecords ==
  [x \in 0 .. (IF maxAllocedID = 0 THEN 1 ELSE maxAllocedID) - 1 |->
     LET writers == {a \in live \cap GeomAccels : x \in Ranges!SlotsOf(sbtEntries[a])}
     IN IF writers = {} THEN Unwritten
        ELSE LET a == CHOOSE a \in writers : TRUE
                 g == geoms[a][x - sbtEntries[a].begin + 1]
             IN Record(geomType[g], g)]

\* The code asserts that there is a raygen and a miss program.
BuildSBT ==
  /\ rayGens # <<>> /\ missProgs # <<>>
  /\ rayGenRecords' = CallRecords(rayGens)
  /\ missProgRecords' = CallRecords(missProgs)
  /\ hitGroupRecords' = HitRecords
  /\ phase' = IF phase = Changing THEN Changing ELSE Ready
  /\ UNCHANGED <<typeVars, pipelineVars, objectVars, launched>>

\* Context::launch hands the whole raygen table to vkCmdTraceRays, which
\* runs the record at its start; the raygen asked for is not looked at.
Launch(r) ==
  /\ phase = Ready
  /\ launched' = [asked |-> r, ran |-> rayGenRecords[1]]
  /\ UNCHANGED <<typeVars, pipelineVars, objectVars, sbtVars, phase>>

---------------------------------------------------------------------------
Init ==
  /\ rayGenTypes = {} /\ missProgTypes = {} /\ geomTypes = {}
  /\ program = [t \in GeomTypes |-> 0]
  /\ shaderGroupIndex = [t \in Types |-> -1]
  /\ pipeline = 0 /\ shaderGroups = <<>> /\ handles = <<>> /\ builds = 0
  /\ rayGens = <<>> /\ missProgs = <<>>
  /\ geomType = [g \in Geoms |-> 0]
  /\ data = [x \in RayGens \cup MissProgs \cup Geoms |-> 0]
  /\ geoms = [a \in GeomAccels |-> <<>>]
  /\ rayGenRecords = <<>> /\ missProgRecords = <<>>
  /\ hitGroupRecords = [x \in {} |-> Unwritten]
  /\ launched = [asked |-> 0, ran |-> Unwritten]
  /\ phase = Changing
  /\ Ranges!Init

Next ==
  \/ \E r \in RayGens : CreateRayGen(r)
  \/ \E m \in MissProgs : CreateMissProg(m)
  \/ \E t \in GeomTypes : CreateGeomType(t)
  \/ \E t \in GeomTypes, p \in 1 .. MaxPrograms : SetProgram(t, p)
  \/ \E g \in Geoms, t \in GeomTypes : CreateGeom(g, t)
  \/ \E x \in Tuned, d \in 1 .. MaxData : SetData(x, d)
  \/ \E a \in GeomAccels, n \in 1 .. MaxGeoms :
       \E gs \in [1 .. n -> Geoms] : CreateGeomAccel(a, gs)
  \/ \E a \in InstAccels, n \in 1 .. MaxGeoms : CreateInstAccel(a, n)
  \/ BuildPipeline
  \/ BuildPipelineThrows
  \/ BuildSBT
  \/ \E r \in rayGenTypes : Launch(r)

Spec == Init /\ [][Next]_vars
---------------------------------------------------------------------------
(* Properties.                                                             *)

Handle == [build : 1 .. MaxBuilds, type : Types, program : 0 .. MaxPrograms]
Records == [header : Handle \cup {NoHandle}, data : -1 .. MaxData]

TypeOK ==
  /\ rayGenTypes \subseteq RayGens /\ missProgTypes \subseteq MissProgs
  /\ geomTypes \subseteq GeomTypes
  /\ program \in [GeomTypes -> 0 .. MaxPrograms]
  /\ shaderGroupIndex \in [Types -> -1 .. Cardinality(Types) - 1]
  /\ builds \in 0 .. MaxBuilds /\ pipeline \in {0, builds}
  /\ handles \in Seq(Handle)
  /\ shaderGroups \in Seq([type : Types, program : 0 .. MaxPrograms])
  /\ rayGens \in Seq(RayGens) /\ missProgs \in Seq(MissProgs)
  /\ geomType \in [Geoms -> GeomTypes \cup {0}]
  /\ data \in [RayGens \cup MissProgs \cup Geoms -> 0 .. MaxData]
  /\ geoms \in [GeomAccels -> Seq(Geoms)]
  /\ rayGenRecords \in Seq(Records) /\ missProgRecords \in Seq(Records)
  /\ \A x \in DOMAIN hitGroupRecords : hitGroupRecords[x] \in Records
  /\ phase \in Phases

\* Once the pipeline is built, every type the context knows names the group
\* of the pipeline with its own programs, whatever the addresses of the types
\* and however many builds, finished or thrown out of, came before.
GroupIndicesCurrent ==
  phase # Changing =>
    \A t \in TrackedTypes :
      /\ pipeline # 0
      /\ shaderGroupIndex[t] + 1 \in DOMAIN shaderGroups
      /\ shaderGroups[shaderGroupIndex[t] + 1] = Group(t)

Current(record, t, x) ==
  /\ record.header = HandleOf(pipeline, Group(t))
  /\ record.data = data[x]

\* Once buildSBT() has run, a hit on any geometry of any accel looks at a
\* record inside the hit-group table that holds the programs of that
\* geometry's own type in the current pipeline and that geometry's data.
HitsReachTheirGeometry ==
  phase = Ready =>
    \A a \in live \cap GeomAccels : \A j \in DOMAIN geoms[a] :
      LET x == sbtEntries[a].begin + j - 1
          g == geoms[a][j]
      IN /\ x \in DOMAIN hitGroupRecords
         /\ Current(hitGroupRecords[x], geomType[g], g)

\* The same for the ray generation and miss programs.
CallsReachTheirProgram ==
  phase = Ready =>
    /\ \A i \in DOMAIN rayGens :
         Current(rayGenRecords[i], rayGens[i], rayGens[i])
    /\ \A i \in DOMAIN missProgs :
         Current(missProgRecords[i], missProgs[i], missProgs[i])

\* vulkanite.h: vknRayGenLaunch2D(VKNRayGen rg, ...) launches rg.
LaunchRunsTheRayGen ==
  launched.asked # 0 => launched.ran.header.type = launched.asked
===========================================================================
