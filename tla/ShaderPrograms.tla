-------------------------- MODULE ShaderPrograms --------------------------
(***************************************************************************)
(* Shader modules, the programs made from their entry points, and the      *)
(* stages the ray tracing pipeline is built from.                          *)
(*                                                                         *)
(* A type asks its module for a program by entry point and stage.  The     *)
(* module keeps what it made in a map of weak pointers, so a program lives *)
(* as long as a type uses it; it enters itself in RTPipeline::programs     *)
(* when it is made and leaves when it dies.  gatherPrograms() numbers the  *)
(* tracked programs and the groups refer to them by number: a number, a    *)
(* tracked program or a cached pointer that is out of date makes a launch  *)
(* run something else than what the application asked for.                 *)
(*                                                                         *)
(* Programs are numbers: the addresses std::set<ShaderProgram *> sorts by. *)
(* make_shared() puts a program and its reference counts into one block,   *)
(* which a weak pointer keeps: the address of a program that died is not   *)
(* used again while its module's map still points at it.                   *)
(***************************************************************************)
EXTENDS Integers, FiniteSets, Sequences, SpirvCapability

CONSTANTS
  Modules, Names,            \* shader modules, names of entry points
  RayGens, MissProgs, Computes, \* objects that have one program for life
  UserTypes, TrianglesTypes, \* geometry types by kind
  Given,                     \* the programs types are given (bounds the model)
  Addresses,                 \* where programs may lie in memory
  Codes, Followed            \* codes of modules; those the model goes on with

ASSUME AddressesArePositive == Addresses \subseteq Nat \ {0}
ASSUME CodesAreWords == Codes \subseteq Seq(Nat)
ASSUME KindsDiffer == UserTypes \cap TrianglesTypes = {}

RayGen == "raygen"
Miss == "miss"
Intersection == "intersection"
AnyHit == "anyHit"
ClosestHit == "closestHit"
Compute == "compute"

GeomTypes == UserTypes \cup TrianglesTypes
EntryPoints == Modules \X Names

\* Who holds a shared pointer to a program, and the stage it is asked for.
GeneralUses == (RayGens \X {RayGen}) \cup (MissProgs \X {Miss})
HitUses == GeomTypes \X {AnyHit, ClosestHit, Intersection}
ComputeUses == (Computes \cup GeomTypes) \X {Compute}
Uses == GeneralUses \cup HitUses \cup ComputeUses
StageOf(u) == u[2]

None == 0      \* no program: a null pointer
Unused == -1   \* shaderStageIndex of a new program, VK_SHADER_UNUSED_KHR
NoPipeline == [stages |-> <<>>, index |-> <<>>]

VARIABLES
  code,       \* what each module was created from, <<>> before
  handed,     \* what the driver was given instead
  cache,      \* ShaderModule::programs: a weak pointer per entry point
  programs,   \* RTPipeline::programs
  program,    \* the entry point, stage and stage index of each program
  use,        \* the program each user holds
  geomTypes,  \* RTPipeline::geomTypes
  pipeline,   \* the stages and indices it was created with
  current,    \* not in the code: nothing was asked for since it was built
  asked,      \* not in the code: what each user asked for last
  stageAsked  \* not in the code: the stage each entry point was asked for

moduleVars == <<code, handed>>
ghosts == <<current, asked, stageAsked>>
programVars == <<cache, programs, program, use>>
vars == <<moduleVars, programVars, geomTypes, pipeline, ghosts>>

NoEntry == <<>>
NoStage == "none"
Several == "several"
Free == [entry |-> NoEntry, stage |-> NoStage, index |-> Unused]

---------------------------------------------------------------------------
(* Shader modules.                                                         *)

CreateModule(m, c) ==
  /\ code[m] = <<>>
  /\ code' = [code EXCEPT ![m] = c]
  /\ handed' = [handed EXCEPT ![m] = Stripped(c)]
  /\ UNCHANGED <<programVars, geomTypes, pipeline, ghosts>>

Usable(m) == code[m] \in Followed

\* Mutant: only the name is looked up.
CachedByName(e) == {cache[f] : f \in {f \in EntryPoints : f[2] = e[2]}} \ {None}

\* What the map has for an entry point, dead or alive.
Cached(e) == {cache[e]} \ {None}

Alive(p) == \E u \in Uses : use[u] = p

\* weak_ptr::lock().
Locked(e) == {p \in Cached(e) : Alive(p)}

\* The heap does not hand out a block something still points at.
FreeAddresses == Addresses \ (programs \cup {cache[e] : e \in EntryPoints})

\* User u drops what it held for p; the program it held may die of that,
\* ~ShaderProgram() then calls RTPipeline::forget().
Dying(u, p) ==
  {use[u]} \ ({None, p} \cup {use[v] : v \in Uses \ {u}})

\* u holds p from now on; made is {p} if p is new, made from entry point e.
Hold(u, e, p, made) ==
  /\ use' = [use EXCEPT ![u] = p]
  /\ programs' = (programs \cup made) \ Dying(u, p)
  /\ program' = [q \in Addresses |->
       IF q \in made THEN [entry |-> e, stage |-> StageOf(u), index |-> Unused]
       ELSE IF q \in Dying(u, p) THEN Free ELSE program[q]]

Ask(u, e) ==
  /\ Usable(e[1])
  /\ asked' = [asked EXCEPT ![u] = e]
  /\ current' = FALSE
  /\ UNCHANGED <<moduleVars, pipeline>>

\* Mutant: an entry that is there is kept, as std::map::insert() would.
RememberFirst(e, p) ==
  cache' = [cache EXCEPT ![e] = IF cache[e] = None THEN p ELSE cache[e]]

\* programs[entryPoint] = prog.
Remember(e, p) == cache' = [cache EXCEPT ![e] = p]

\* ShaderModule::get() and the assignment of what it returns.
Get(u, e) ==
  /\ Ask(u, e)
  /\ stageAsked' = [stageAsked EXCEPT ![e] =
       IF @ \in {NoStage, StageOf(u)} THEN StageOf(u) ELSE Several]
  /\ \/ \E p \in Locked(e) : Hold(u, e, p, {}) /\ UNCHANGED cache
     \/ /\ Locked(e) = {}
        /\ \E p \in FreeAddresses : Hold(u, e, p, {p}) /\ Remember(e, p)

\* A compute kernel is a program of its own that no map remembers.
MakeCompute(u, e) ==
  /\ Ask(u, e)
  /\ \E p \in FreeAddresses : Hold(u, e, p, {p})
  /\ UNCHANGED <<cache, stageAsked>>

---------------------------------------------------------------------------
(* Types and kernels.                                                      *)

\* createRayGen(), createMissProg().
CreateGeneral(u, e) ==
  /\ use[u] = None
  /\ Get(u, e)
  /\ UNCHANGED geomTypes

CreateCompute(c, e) ==
  /\ use[<<c, Compute>>] = None
  /\ MakeCompute(<<c, Compute>>, e)
  /\ UNCHANGED geomTypes

CreateGeomType(t) ==
  /\ t \notin geomTypes
  /\ geomTypes' = geomTypes \cup {t}
  /\ current' = FALSE
  /\ UNCHANGED <<moduleVars, programVars, pipeline, asked, stageAsked>>

\* setIS(), setAH(), setCH().
SetProgram(u, e) ==
  /\ u[1] \in geomTypes
  /\ Get(u, e)
  /\ UNCHANGED geomTypes

SetBoundsProg(t, e) ==
  /\ t \in geomTypes
  /\ MakeCompute(<<t, Compute>>, e)
  /\ UNCHANGED geomTypes

---------------------------------------------------------------------------
(* RTPipeline::build() and gatherPrograms().                               *)

Staged == {p \in programs : program[p].stage # Compute}

\* Mutant: skipped programs are counted.
StageIndexAmongAll(p) == Cardinality({q \in programs : q < p})

\* shaderStages.size() when p is pushed: the set is in address order.
StageIndex(p) == Cardinality({q \in Staged : q < p})

Number == program' = [p \in Addresses |->
  IF p \in Staged THEN [program[p] EXCEPT !.index = StageIndex(p)] ELSE program[p]]

\* getShaderStage() of each program, in the order they are pushed.
ShaderStages == [i \in 1 .. Cardinality(Staged) |->
  LET p == CHOOSE q \in Staged : Cardinality({r \in Staged : r < q}) = i - 1
  IN  [entry |-> program[p].entry, stage |-> program[p].stage]]

\* The intersection program of a triangles type is left out of its group.
Grouped == {u \in GeneralUses : use[u] # None}
             \cup ({u \in HitUses : u[1] \in geomTypes}
                     \ (TrianglesTypes \X {Intersection}))

\* What a group says of the program of a use.
IndexFor(u) == IF use[u] = None THEN Unused ELSE program'[use[u]].index

\* gatherPrograms() throws at a user type that has no intersection program.
Unfinished == {t \in geomTypes \cap UserTypes : use[<<t, Intersection>>] = None}

Build ==
  /\ Unfinished = {}
  /\ Number
  /\ pipeline' = [stages |-> ShaderStages, index |-> [u \in Grouped |-> IndexFor(u)]]
  /\ current' = TRUE
  /\ UNCHANGED <<moduleVars, cache, programs, use, geomTypes, asked, stageAsked>>

\* The old pipeline is gone by then and the programs have their numbers.
BuildThrows ==
  /\ Unfinished # {}
  /\ Number
  /\ pipeline' = NoPipeline
  /\ UNCHANGED <<moduleVars, cache, programs, use, geomTypes, ghosts>>

---------------------------------------------------------------------------
Init ==
  /\ code = [m \in Modules |-> <<>>]
  /\ handed = [m \in Modules |-> <<>>]
  /\ cache = [e \in EntryPoints |-> None]
  /\ programs = {}
  /\ program = [p \in Addresses |-> Free]
  /\ use = [u \in Uses |-> None]
  /\ geomTypes = {}
  /\ pipeline = NoPipeline
  /\ current = FALSE
  /\ asked = [u \in Uses |-> NoEntry]
  /\ stageAsked = [e \in EntryPoints |-> NoStage]

Next ==
  \/ \E m \in Modules, c \in Codes : CreateModule(m, c)
  \/ \E e \in EntryPoints :
       \/ \E u \in GeneralUses : CreateGeneral(u, e)
       \/ \E c \in Computes : CreateCompute(c, e)
       \/ \E u \in HitUses \cap Given : SetProgram(u, e)
       \/ \E t \in {t \in GeomTypes : <<t, Compute>> \in Given} : SetBoundsProg(t, e)
  \/ \E t \in GeomTypes : CreateGeomType(t)
  \/ Build
  \/ BuildThrows

Spec == Init /\ [][Next]_vars

---------------------------------------------------------------------------
(* Properties.                                                             *)

Indices == Unused .. Cardinality(Addresses) - 1

\* Every variable has its type, and no group names a stage the pipeline
\* was not created with.
TypeOK ==
  /\ DOMAIN code = Modules /\ DOMAIN handed = Modules
  /\ cache \in [EntryPoints -> Addresses \cup {None}]
  /\ programs \subseteq Addresses
  /\ \A p \in Addresses : program[p].index \in Indices
  /\ use \in [Uses -> Addresses \cup {None}]
  /\ geomTypes \subseteq GeomTypes
  /\ \A u \in DOMAIN pipeline.index :
       pipeline.index[u] \in Unused .. Len(pipeline.stages) - 1

\* What the pipeline runs where u stands.
Run(u) == pipeline.stages[pipeline.index[u] + 1]

\* As long as nothing was asked for since it was built, the pipeline has a
\* group for everything that asked, runs there the entry point that was last
\* asked for, of the right module, and nothing where nothing was; it runs it
\* as the stage it was asked for, unless that entry point was ever asked for
\* as another stage too (ShaderModule::get() does not look at the stage).
GroupsRunWhatWasAskedFor ==
  current =>
    /\ \A u \in Uses \ (ComputeUses \cup (TrianglesTypes \X {Intersection})) :
         asked[u] # NoEntry => u \in DOMAIN pipeline.index
    /\ \A u \in DOMAIN pipeline.index :
         IF pipeline.index[u] = Unused THEN asked[u] = NoEntry
         ELSE /\ Run(u).entry = asked[u]
              /\ stageAsked[asked[u]] = StageOf(u) => Run(u).stage = StageOf(u)
              /\ Run(u).stage # Compute

\* The pipeline tracks the programs somebody holds and no other, and never
\* two of the same entry point, kernels aside: however often programs are
\* replaced and made again, the maps of weak pointers find the one there is.
OneProgramPerEntryPoint ==
  /\ programs = {use[u] : u \in Uses} \ {None}
  /\ \A p, q \in programs :
       program[p].entry = program[q].entry /\ Compute \notin
         {program[p].stage, program[q].stage} => p = q

\* The driver is given the instructions the module came with in their order,
\* without those that declare the StoragePushConstant8 capability; a module
\* that does not fall into instructions is passed on as it is.
OnlyTheCapabilityIsStripped ==
  \A m \in Modules :
    IF WellFormed(code[m]) THEN WithoutCapability(handed[m], code[m])
    ELSE handed[m] = code[m]
===========================================================================
