------------------------- MODULE ShaderProgramsProofs -------------------------
(***************************************************************************)
(* Proofs about the programs of a pipeline, for any modules, names, types  *)
(* and addresses: the map of weak pointers finds the one program there is  *)
(* for an entry point, and the pipeline runs what was asked for; and about *)
(* what the driver is given of a module, for any code.                     *)
(***************************************************************************)
EXTENDS ShaderPrograms, SequenceTheorems, FiniteSetTheorems, WellFoundedInduction, TLAPS

HeldPrograms == {use[u] : u \in Uses} \ {None}

\* What the map of weak pointers knows: every program but the kernels is where
\* its entry point leads.
CacheKnows ==
  \A p \in programs :
    /\ program[p].entry \in EntryPoints
    /\ program[p].stage # Compute => cache[program[p].entry] = p

Inv ==
  /\ cache \in [EntryPoints -> Addresses \cup {None}]
  /\ use \in [Uses -> Addresses \cup {None}]
  /\ programs = HeldPrograms
  /\ CacheKnows

LEMMA AddressesAreNotNone == None \notin Addresses
  BY AddressesArePositive DEF None

LEMMA InitInv == Init => Inv
  BY DEF Init, Inv, HeldPrograms, CacheKnows

---------------------------------------------------------------------------
(* The assignment of a program to its user.                                *)

\* Whoever was the last to hold a program takes it along.
LEMMA HoldKeepsTrack ==
  ASSUME Inv, NEW u \in Uses, NEW e \in EntryPoints, NEW p \in Addresses, NEW made,
         made \subseteq {p}, p \in programs \cup made,
         Hold(u, e, p, made)
  PROVE  /\ use' \in [Uses -> Addresses \cup {None}]
         /\ programs' = HeldPrograms'
         /\ programs' \subseteq programs \cup {p}
         /\ p \in made => program'[p] = [entry |-> e, stage |-> StageOf(u), index |-> Unused]
<1>1. /\ use' = [use EXCEPT ![u] = p]
      /\ programs' = (programs \cup made) \ Dying(u, p)
      /\ program' = [q \in Addresses |->
           IF q \in made THEN [entry |-> e, stage |-> StageOf(u), index |-> Unused]
           ELSE IF q \in Dying(u, p) THEN Free ELSE program[q]]
  BY DEF Hold
<1>2. use \in [Uses -> Addresses \cup {None}] /\ programs = HeldPrograms BY DEF Inv
<1>3. use'[u] = p /\ \A v \in Uses \ {u} : use'[v] = use[v] BY <1>1, <1>2
<1>4. Dying(u, p) = {use[u]} \ ({None, p} \cup {use[v] : v \in Uses \ {u}}) BY DEF Dying
<1>5. p # None BY AddressesAreNotNone
<1>7. HeldPrograms' = {use'[v] : v \in Uses} \ {None} BY DEF HeldPrograms, Uses, GeneralUses,
        HitUses, ComputeUses, GeomTypes
<1>8. programs' = HeldPrograms'
  <2>1. ASSUME NEW q \in programs' PROVE q \in {use'[v] : v \in Uses} \ {None}
    <3>1. q \in programs \cup {p} /\ q \notin Dying(u, p) BY <1>1, <2>1
    <3>2. CASE q = p BY <1>3, <1>5, <3>2
    <3>3. CASE q # p
      <4>1. PICK v \in Uses : q = use[v] /\ q # None BY <1>2, <3>1, <3>3 DEF HeldPrograms
      <4>2. \E w \in Uses \ {u} : q = use[w] BY <1>4, <3>1, <3>3, <4>1
      <4> QED BY <1>3, <4>1, <4>2
    <3> QED BY <3>2, <3>3
  <2>2. ASSUME NEW v \in Uses, use'[v] # None PROVE use'[v] \in programs'
    <3>1. CASE v = u BY <1>1, <1>3, <1>4, <3>1
    <3>2. CASE v # u
      <4>1. use'[v] = use[v] BY <1>3, <3>2
      <4>2. use[v] \in programs BY <1>2, <2>2, <4>1 DEF HeldPrograms
      <4>3. use[v] \notin Dying(u, p) BY <1>4, <3>2
      <4> QED BY <1>1, <4>1, <4>2, <4>3
    <3> QED BY <3>1, <3>2
  <2> QED BY <1>7, <2>1, <2>2
<1>9. use' \in [Uses -> Addresses \cup {None}] BY <1>1, <1>2
<1>10. p \in made => program'[p] = [entry |-> e, stage |-> StageOf(u), index |-> Unused]
  BY <1>1
<1> QED BY <1>1, <1>8, <1>9, <1>10

\* The other programs that live on stay what they were.
LEMMA HoldKeepsOthers ==
  ASSUME Inv, NEW u, NEW e, NEW p, NEW made, made \subseteq Addresses, Hold(u, e, p, made)
  PROVE  \A q \in programs' : q \notin made => program'[q] = program[q]
<1>1. programs \subseteq Addresses BY DEF Inv, HeldPrograms
<1> QED BY <1>1 DEF Hold

\* The two cases: u shares a program, and u is given a new one.
LEMMA HoldOne ==
  ASSUME Inv, NEW u \in Uses, NEW e \in EntryPoints, NEW p \in programs, Hold(u, e, p, {})
  PROVE  /\ use' \in [Uses -> Addresses \cup {None}] /\ programs' = HeldPrograms'
         /\ programs' \subseteq programs
         /\ \A q \in programs' : program'[q] = program[q]
<1> DEFINE made == {}
<1>1. made \subseteq {p} /\ p \in programs \cup made /\ Hold(u, e, p, made) OBVIOUS
<1>2. p \in Addresses BY DEF Inv, HeldPrograms
<1> HIDE DEF made
<1>3. use' \in [Uses -> Addresses \cup {None}] BY <1>1, <1>2, HoldKeepsTrack
<1>4. programs' = HeldPrograms' BY <1>1, <1>2, HoldKeepsTrack
<1>5. programs' \subseteq programs \cup {p} BY <1>1, <1>2, HoldKeepsTrack
<1> USE DEF made
<1>6. \A q \in programs' : q \notin made => program'[q] = program[q]
  BY <1>1, HoldKeepsOthers
<1> QED BY <1>3, <1>4, <1>5, <1>6

LEMMA HoldNew ==
  ASSUME Inv, NEW u \in Uses, NEW e \in EntryPoints, NEW p \in Addresses, Hold(u, e, p, {p})
  PROVE  /\ use' \in [Uses -> Addresses \cup {None}] /\ programs' = HeldPrograms'
         /\ programs' \subseteq programs \cup {p}
         /\ \A q \in programs' \ {p} : program'[q] = program[q]
         /\ program'[p].entry = e /\ program'[p].stage = StageOf(u)
<1> DEFINE made == {p}
<1>1. made \subseteq {p} /\ p \in programs \cup made /\ Hold(u, e, p, made) OBVIOUS
<1> HIDE DEF made
<1>2. use' \in [Uses -> Addresses \cup {None}] BY <1>1, HoldKeepsTrack
<1>3. programs' = HeldPrograms' BY <1>1, HoldKeepsTrack
<1>4. programs' \subseteq programs \cup {p} BY <1>1, HoldKeepsTrack
<1>5. p \in made => program'[p] = [entry |-> e, stage |-> StageOf(u), index |-> Unused]
  BY <1>1, HoldKeepsTrack
<1> USE DEF made
<1>6. \A q \in programs' : q \notin made => program'[q] = program[q]
  BY <1>1, HoldKeepsOthers
<1> QED BY <1>2, <1>3, <1>4, <1>5, <1>6

\* ShaderModule::get(): a new program replaces what the map had only when that
\* is dead.
LEMMA GetKeepsInv ==
  ASSUME Inv, NEW u \in Uses, NEW e \in EntryPoints, Get(u, e)
  PROVE  Inv'
<1>1. \/ \E p \in Locked(e) : Hold(u, e, p, {}) /\ UNCHANGED cache
      \/ /\ Locked(e) = {}
         /\ \E p \in FreeAddresses : Hold(u, e, p, {p}) /\ Remember(e, p)
  BY DEF Get
<1>2. ASSUME NEW p \in Locked(e), Hold(u, e, p, {}), UNCHANGED cache
      PROVE  Inv'
  <2>1. p \in programs BY <1>2 DEF Locked, Cached, Alive, Inv, HeldPrograms
  <2>2. /\ use' \in [Uses -> Addresses \cup {None}] /\ programs' = HeldPrograms'
        /\ programs' \subseteq programs /\ \A q \in programs' : program'[q] = program[q]
    BY <1>2, <2>1, HoldOne
  <2>3. CacheKnows' BY <1>2, <2>2 DEF Inv, CacheKnows
  <2> QED BY <1>2, <2>2, <2>3 DEF Inv
<1>3. ASSUME Locked(e) = {}, NEW p \in FreeAddresses, Hold(u, e, p, {p}), Remember(e, p)
      PROVE  Inv'
  <2>1. p \in Addresses /\ p \notin programs BY <1>3 DEF FreeAddresses
  <2>2. /\ use' \in [Uses -> Addresses \cup {None}] /\ programs' = HeldPrograms'
        /\ programs' \subseteq programs \cup {p}
        /\ \A q \in programs' \ {p} : program'[q] = program[q]
        /\ program'[p].entry = e
    BY <1>3, <2>1, HoldNew
  <2>3. cache' = [cache EXCEPT ![e] = p] BY <1>3 DEF Remember
  <2>4. ASSUME NEW q \in programs, program[q].entry = e, program[q].stage # Compute
        PROVE  FALSE
    <3>1. cache[e] = q BY <2>4 DEF Inv, CacheKnows
    <3>2. q # None /\ Alive(q) BY DEF Inv, HeldPrograms, Alive
    <3> QED BY <1>3, <3>1, <3>2 DEF Locked, Cached
  <2>5. CacheKnows' BY <2>1, <2>2, <2>3, <2>4 DEF Inv, CacheKnows
  <2>6. cache' \in [EntryPoints -> Addresses \cup {None}] BY <2>1, <2>3 DEF Inv
  <2> QED BY <2>2, <2>5, <2>6 DEF Inv
<1> QED BY <1>1, <1>2, <1>3

\* A kernel enters no map and so does not disturb one.
LEMMA MakeComputeKeepsInv ==
  ASSUME Inv, NEW u \in Uses, StageOf(u) = Compute, NEW e \in EntryPoints, MakeCompute(u, e)
  PROVE  Inv'
<1>1. PICK p \in FreeAddresses : Hold(u, e, p, {p}) BY DEF MakeCompute
<1>2. cache' = cache BY DEF MakeCompute
<1>3. p \in Addresses /\ p \notin programs BY DEF FreeAddresses
<1>4. /\ use' \in [Uses -> Addresses \cup {None}] /\ programs' = HeldPrograms'
      /\ programs' \subseteq programs \cup {p}
      /\ \A q \in programs' \ {p} : program'[q] = program[q]
      /\ program'[p].entry = e /\ program'[p].stage = Compute
  BY <1>1, <1>3, HoldNew
<1>5. CacheKnows' BY <1>2, <1>3, <1>4 DEF Inv, CacheKnows
<1> QED BY <1>2, <1>4, <1>5 DEF Inv

\* Everything else leaves the programs and their users alone; a build changes
\* numbers only.
LEMMA OthersKeepInv ==
  ASSUME Inv, cache' = cache, use' = use, programs' = programs,
         \A p \in programs : program'[p].entry = program[p].entry
                             /\ program'[p].stage = program[p].stage
  PROVE  Inv'
<1>1. HeldPrograms' = HeldPrograms BY DEF HeldPrograms
<1>2. CacheKnows' BY DEF Inv, CacheKnows
<1> QED BY <1>1, <1>2 DEF Inv

LEMMA NumberKeepsPrograms ==
  ASSUME Inv, Number
  PROVE  \A p \in programs : program'[p].entry = program[p].entry
                             /\ program'[p].stage = program[p].stage
<1>1. programs \subseteq Addresses BY DEF Inv, HeldPrograms
<1> QED BY <1>1 DEF Number

---------------------------------------------------------------------------
LEMMA NextKeepsInv == Inv /\ [Next]_vars => Inv'
<1> SUFFICES ASSUME Inv, [Next]_vars PROVE Inv' OBVIOUS
<1>1. CASE \E m \in Modules, c \in Codes : CreateModule(m, c)
  BY <1>1, OthersKeepInv DEF CreateModule, programVars
<1>2. CASE \E e \in EntryPoints, u \in GeneralUses : CreateGeneral(u, e)
  BY <1>2, GetKeepsInv DEF CreateGeneral, Uses
<1>3. CASE \E e \in EntryPoints, c \in Computes : CreateCompute(c, e)
  <2>1. PICK e \in EntryPoints, c \in Computes : CreateCompute(c, e) BY <1>3
  <2>2. <<c, Compute>> \in Uses /\ StageOf(<<c, Compute>>) = Compute
    BY DEF Uses, ComputeUses, StageOf
  <2>3. MakeCompute(<<c, Compute>>, e) BY <2>1 DEF CreateCompute
  <2> QED BY <2>2, <2>3, MakeComputeKeepsInv
<1>4. CASE \E e \in EntryPoints, u \in HitUses : SetProgram(u, e)
  BY <1>4, GetKeepsInv DEF SetProgram, Uses
<1>5. CASE \E e \in EntryPoints, t \in GeomTypes : SetBoundsProg(t, e)
  <2>1. PICK e \in EntryPoints, t \in GeomTypes : SetBoundsProg(t, e) BY <1>5
  <2>2. <<t, Compute>> \in Uses /\ StageOf(<<t, Compute>>) = Compute
    BY DEF Uses, ComputeUses, StageOf
  <2>3. MakeCompute(<<t, Compute>>, e) BY <2>1 DEF SetBoundsProg
  <2> QED BY <2>2, <2>3, MakeComputeKeepsInv
<1>6. CASE \E t \in GeomTypes : CreateGeomType(t)
  BY <1>6, OthersKeepInv DEF CreateGeomType, programVars
<1>7. CASE Build BY <1>7, OthersKeepInv, NumberKeepsPrograms DEF Build
<1>8. CASE BuildThrows BY <1>8, OthersKeepInv, NumberKeepsPrograms DEF BuildThrows
<1>9. CASE UNCHANGED vars
  BY <1>9, OthersKeepInv DEF vars, programVars
<1> QED BY <1>1, <1>2, <1>3, <1>4, <1>5, <1>6, <1>7, <1>8, <1>9 DEF Next

LEMMA InvAlways == Spec => []Inv
  BY InitInv, NextKeepsInv, PTL DEF Spec

\* ShaderModule::get(), ~ShaderProgram() and RTPipeline's track() and forget():
\* the pipeline's programs are exactly those somebody holds, and an entry point
\* has at most one besides kernels, whatever is set, replaced and made again.
THEOREM AlwaysOneProgramPerEntryPoint == Spec => []OneProgramPerEntryPoint
<1>1. Inv => OneProgramPerEntryPoint
  <2> SUFFICES ASSUME Inv PROVE OneProgramPerEntryPoint OBVIOUS
  <2>1. ASSUME NEW p \in programs, NEW q \in programs, program[p].entry = program[q].entry,
               program[p].stage # Compute, program[q].stage # Compute
        PROVE  p = q
    BY <2>1 DEF Inv, CacheKnows
  <2> QED BY <2>1 DEF Inv, HeldPrograms, OneProgramPerEntryPoint
<1> QED BY <1>1, InvAlways, PTL

---------------------------------------------------------------------------
(* What the pipeline runs: an invariant on top of Inv.                     *)

\* A user holds a program made from what it asked for; kernels hold programs of
\* the compute stage and nobody else does.
HoldWhatTheyAskedFor ==
  /\ asked \in [Uses -> EntryPoints \cup {NoEntry}]
  /\ \A u \in Uses :
       /\ use[u] = None <=> asked[u] = NoEntry
       /\ use[u] # None =>
            /\ program[use[u]].entry = asked[u]
            /\ program[use[u]].stage = Compute <=> StageOf(u) = Compute

\* The maps do not lead to the program of another entry point, nor to a kernel.
CacheLeadsHome ==
  \A e \in EntryPoints : cache[e] \in programs =>
    program[cache[e]].entry = e /\ program[cache[e]].stage # Compute

\* A program has the stage its entry point was asked for, unless there were two.
StagesRemembered ==
  /\ DOMAIN stageAsked = EntryPoints
  /\ \A p \in programs : program[p].stage # Compute =>
       /\ stageAsked[program[p].entry] \in {program[p].stage, Several}
       /\ program[p].stage # NoStage

TypesTracked == \A u \in HitUses : use[u] # None => u[1] \in geomTypes

Faithful ==
  /\ IsFiniteSet(programs)
  /\ HoldWhatTheyAskedFor /\ CacheLeadsHome /\ StagesRemembered /\ TypesTracked
  /\ current => Unfinished = {}
  /\ GroupsRunWhatWasAskedFor

LEMMA EntriesAreEntries == \A e \in EntryPoints : e # NoEntry
  BY DEF EntryPoints, NoEntry

LEMMA StagesOfUses ==
  /\ \A u \in Uses : StageOf(u) # Several /\ StageOf(u) # NoStage
  /\ \A u \in GeneralUses \cup HitUses : u \in Uses /\ StageOf(u) # Compute
  /\ \A u \in ComputeUses : u \in Uses /\ StageOf(u) = Compute
  BY DEF Uses, GeneralUses, HitUses, ComputeUses, StageOf, Several, NoStage, Compute,
    RayGen, Miss, AnyHit, ClosestHit, Intersection

LEMMA InitFaithful == Init => Faithful
<1> SUFFICES ASSUME Init PROVE Faithful OBVIOUS
<1>1. IsFiniteSet(programs) BY FS_EmptySet DEF Init
<1>2. HoldWhatTheyAskedFor BY DEF Init, HoldWhatTheyAskedFor
<1>3. CacheLeadsHome /\ StagesRemembered /\ TypesTracked
  BY StagesOfUses DEF Init, CacheLeadsHome, StagesRemembered, TypesTracked
<1>4. GroupsRunWhatWasAskedFor BY DEF Init, GroupsRunWhatWasAskedFor
<1> QED BY <1>1, <1>2, <1>3, <1>4 DEF Init, Faithful

\* After every call that asks for a program the pipeline is not up to date.
LEMMA NotCurrent ==
  ASSUME current' = FALSE
  PROVE  (current => Unfinished = {})' /\ GroupsRunWhatWasAskedFor'
  BY DEF GroupsRunWhatWasAskedFor

\* u comes to hold p, made from e, and nobody else notices.
LEMMA HoldingAgrees ==
  ASSUME Inv, Faithful, NEW u \in Uses, NEW e \in EntryPoints, NEW p \in Addresses,
         use' = [use EXCEPT ![u] = p], asked' = [asked EXCEPT ![u] = e],
         programs' \subseteq programs \cup {p}, programs' = HeldPrograms',
         \A q \in programs' : q \in programs => program'[q] = program[q],
         program'[p].entry = e, program'[p].stage = Compute <=> StageOf(u) = Compute
  PROVE  HoldWhatTheyAskedFor' /\ IsFiniteSet(programs')
<1>1. IsFiniteSet(programs')
  <2>1. IsFiniteSet(programs \cup {p}) BY FS_AddElement DEF Faithful
  <2> QED BY <2>1, FS_Subset
<1>2. p # None /\ e # NoEntry BY AddressesAreNotNone, EntriesAreEntries
<1>3. asked' \in [Uses -> EntryPoints \cup {NoEntry}]
  BY DEF Faithful, HoldWhatTheyAskedFor
<1>4. use'[u] = p /\ asked'[u] = e BY DEF Inv, Faithful, HoldWhatTheyAskedFor
<1>5. ASSUME NEW v \in Uses, v # u, use'[v] # None
      PROVE  program'[use'[v]] = program[use[v]]
  <2>1. use'[v] = use[v] BY <1>5 DEF Inv
  <2>2. use[v] \in programs /\ use'[v] \in programs'
    BY <1>5, <2>1 DEF Inv, HeldPrograms
  <2> QED BY <2>1, <2>2
<1>6. ASSUME NEW v \in Uses
      PROVE  /\ use'[v] = None <=> asked'[v] = NoEntry
             /\ use'[v] # None =>
                  /\ program'[use'[v]].entry = asked'[v]
                  /\ program'[use'[v]].stage = Compute <=> StageOf(v) = Compute
  <2>1. CASE v = u BY <1>2, <1>4, <2>1
  <2>2. CASE v # u
    <3>1. use'[v] = use[v] /\ asked'[v] = asked[v]
      BY <2>2 DEF Inv, Faithful, HoldWhatTheyAskedFor
    <3> QED BY <1>5, <2>2, <3>1 DEF Faithful, HoldWhatTheyAskedFor
  <2> QED BY <2>1, <2>2
<1> QED BY <1>1, <1>3, <1>6 DEF HoldWhatTheyAskedFor

LEMMA GetKeepsFaithful ==
  ASSUME Inv, Faithful, NEW u \in GeneralUses \cup HitUses, NEW e \in EntryPoints, Get(u, e),
         geomTypes' = geomTypes, u \in HitUses => u[1] \in geomTypes
  PROVE  Faithful'
<1>1. u \in Uses /\ StageOf(u) # Compute /\ StageOf(u) # NoStage /\ StageOf(u) # Several
  BY StagesOfUses
<1>2. /\ asked' = [asked EXCEPT ![u] = e] /\ current' = FALSE
      /\ stageAsked' = [stageAsked EXCEPT ![e] =
           IF stageAsked[e] \in {NoStage, StageOf(u)} THEN StageOf(u) ELSE Several]
  BY DEF Get, Ask
<1>3. \/ \E p \in Locked(e) : Hold(u, e, p, {}) /\ UNCHANGED cache
      \/ /\ Locked(e) = {}
         /\ \E p \in FreeAddresses : Hold(u, e, p, {p}) /\ Remember(e, p)
  BY DEF Get
<1>4. programs' = HeldPrograms' BY <1>1, GetKeepsInv DEF Inv
<1>5. /\ DOMAIN stageAsked = EntryPoints
      /\ \A q \in programs : program[q].stage # Compute =>
           /\ stageAsked[program[q].entry] \in {program[q].stage, Several}
           /\ program[q].stage # NoStage
  BY DEF Faithful, StagesRemembered
<1>6. Several # NoStage BY DEF Several, NoStage
<1>7. ASSUME NEW p \in Addresses, use' = [use EXCEPT ![u] = p] PROVE TypesTracked'
  BY <1>7 DEF Faithful, TypesTracked, Inv, Uses
<1>8. ASSUME NEW p \in Locked(e), Hold(u, e, p, {}), UNCHANGED cache
      PROVE  Faithful'
  <2>1. p \in programs /\ p \in Addresses /\ p = cache[e]
    BY <1>8 DEF Locked, Cached, Alive, Inv, HeldPrograms
  <2>2. /\ programs' \subseteq programs /\ \A q \in programs' : program'[q] = program[q]
    BY <1>1, <1>8, <2>1, HoldOne
  <2>3. use' = [use EXCEPT ![u] = p] BY <1>8 DEF Hold
  <2>4. p \in programs'
    <3>1. use'[u] = p /\ p # None BY <1>1, <2>1, <2>3, AddressesAreNotNone DEF Inv
    <3> QED BY <1>1, <1>4, <3>1 DEF HeldPrograms, Uses, GeneralUses, HitUses, ComputeUses,
          GeomTypes
  <2>5. program'[p] = program[p] /\ program[p].entry = e /\ program[p].stage # Compute
    BY <2>1, <2>2, <2>4 DEF Faithful, CacheLeadsHome
  <2>6. HoldWhatTheyAskedFor' /\ IsFiniteSet(programs')
    <3>1. programs' \subseteq programs \cup {p} BY <2>2
    <3>2. program'[p].entry = e /\ (program'[p].stage = Compute <=> StageOf(u) = Compute)
      BY <1>1, <2>5
    <3> QED BY <1>1, <1>2, <1>4, <2>1, <2>2, <2>3, <3>1, <3>2, HoldingAgrees
  <2>7. CacheLeadsHome' BY <1>8, <2>2 DEF Faithful, CacheLeadsHome
  <2>8. StagesRemembered'
    <3>1. ASSUME NEW q \in programs', program'[q].stage # Compute
          PROVE  /\ stageAsked'[program'[q].entry] \in {program'[q].stage, Several}
                 /\ program'[q].stage # NoStage
      <4>1. q \in programs /\ program'[q] = program[q] BY <2>2
      <4>2. program[q].entry \in EntryPoints BY <4>1 DEF Inv, CacheKnows
      <4> QED BY <1>1, <1>2, <1>5, <1>6, <3>1, <4>1, <4>2
    <3> QED BY <1>2, <1>5, <3>1 DEF StagesRemembered
  <2> QED BY <1>2, <1>7, <2>1, <2>3, <2>6, <2>7, <2>8, NotCurrent DEF Faithful
<1>9. ASSUME Locked(e) = {}, NEW p \in FreeAddresses, Hold(u, e, p, {p}), Remember(e, p)
      PROVE  Faithful'
  <2>1. /\ p \in Addresses /\ p \notin programs /\ \A f \in EntryPoints : cache[f] # p
    BY <1>9 DEF FreeAddresses
  <2>2. /\ programs' \subseteq programs \cup {p}
        /\ \A q \in programs' \ {p} : program'[q] = program[q]
        /\ program'[p].entry = e /\ program'[p].stage = StageOf(u)
    BY <1>1, <1>9, <2>1, HoldNew
  <2>3. use' = [use EXCEPT ![u] = p] /\ cache' = [cache EXCEPT ![e] = p]
    BY <1>9 DEF Hold, Remember
  <2>4. HoldWhatTheyAskedFor' /\ IsFiniteSet(programs')
    <3>1. \A q \in programs' : q \in programs => program'[q] = program[q] BY <2>1, <2>2
    <3>2. program'[p].stage = Compute <=> StageOf(u) = Compute BY <2>2
    <3> QED BY <1>1, <1>2, <1>4, <2>1, <2>2, <2>3, <3>1, <3>2, HoldingAgrees
  <2>5. CacheLeadsHome'
    <3>1. cache \in [EntryPoints -> Addresses \cup {None}] BY DEF Inv
    <3> QED BY <1>1, <2>1, <2>2, <2>3, <3>1 DEF Faithful, CacheLeadsHome
  <2>6. StagesRemembered'
    <3>1. ASSUME NEW q \in programs', program'[q].stage # Compute
          PROVE  /\ stageAsked'[program'[q].entry] \in {program'[q].stage, Several}
                 /\ program'[q].stage # NoStage
      <4>1. CASE q = p
        <5>1. stageAsked'[e] \in {StageOf(u), Several} BY <1>2, <1>5
        <5> QED BY <1>1, <2>2, <4>1, <5>1
      <4>2. CASE q # p
        <5>1. q \in programs /\ program'[q] = program[q] BY <2>2, <4>2
        <5>2. program[q].entry \in EntryPoints /\ cache[program[q].entry] = q
          BY <3>1, <5>1 DEF Inv, CacheKnows
        <5>3. q # None /\ Alive(q) BY <5>1 DEF Inv, HeldPrograms, Alive
        <5>4. program[q].entry # e BY <1>9, <5>2, <5>3 DEF Locked, Cached
        <5>5. stageAsked'[program[q].entry] = stageAsked[program[q].entry]
          BY <1>2, <1>5, <5>2, <5>4
        <5> QED BY <1>5, <3>1, <5>1, <5>5
      <4> QED BY <4>1, <4>2
    <3> QED BY <1>2, <1>5, <3>1 DEF StagesRemembered
  <2> QED BY <1>2, <1>7, <2>1, <2>3, <2>4, <2>5, <2>6, NotCurrent DEF Faithful
<1> QED BY <1>3, <1>8, <1>9

LEMMA MakeComputeKeepsFaithful ==
  ASSUME Inv, Faithful, NEW u \in ComputeUses, NEW e \in EntryPoints, MakeCompute(u, e),
         geomTypes' = geomTypes
  PROVE  Faithful'
<1>1. u \in Uses /\ StageOf(u) = Compute BY StagesOfUses
<1>2. /\ asked' = [asked EXCEPT ![u] = e] /\ current' = FALSE
      /\ cache' = cache /\ stageAsked' = stageAsked
  BY DEF MakeCompute, Ask
<1>3. programs' = HeldPrograms' BY <1>1, MakeComputeKeepsInv DEF Inv
<1>4. ASSUME NEW p \in FreeAddresses, Hold(u, e, p, {p}) PROVE Faithful'
  <2>1. /\ p \in Addresses /\ p \notin programs /\ \A f \in EntryPoints : cache[f] # p
    BY <1>4 DEF FreeAddresses
  <2>2. /\ programs' \subseteq programs \cup {p}
        /\ \A q \in programs' \ {p} : program'[q] = program[q]
        /\ program'[p].entry = e /\ program'[p].stage = StageOf(u)
    BY <1>1, <1>4, <2>1, HoldNew
  <2>3. use' = [use EXCEPT ![u] = p] BY <1>4 DEF Hold
  <2>4. HoldWhatTheyAskedFor' /\ IsFiniteSet(programs')
    <3>1. \A q \in programs' : q \in programs => program'[q] = program[q] BY <2>1, <2>2
    <3>2. program'[p].stage = Compute <=> StageOf(u) = Compute BY <2>2
    <3> QED BY <1>1, <1>2, <1>3, <2>1, <2>2, <2>3, <3>1, <3>2, HoldingAgrees
  <2>5. CacheLeadsHome' BY <1>2, <2>1, <2>2 DEF Faithful, CacheLeadsHome
  <2>6. StagesRemembered' BY <1>1, <1>2, <2>1, <2>2 DEF Faithful, StagesRemembered
  <2>7. TypesTracked'
    <3>1. u \notin HitUses BY <1>1, StagesOfUses
    <3> QED BY <2>3, <3>1 DEF Faithful, TypesTracked, Inv, Uses
  <2> QED BY <1>2, <2>4, <2>5, <2>6, <2>7, NotCurrent DEF Faithful
<1> QED BY <1>4 DEF MakeCompute

\* Everything else leaves what was asked for and what is held alone.
LEMMA OthersKeepFaithful ==
  ASSUME Inv, Faithful, cache' = cache, use' = use, programs' = programs, asked' = asked,
         stageAsked' = stageAsked, geomTypes \subseteq geomTypes',
         \A p \in programs : program'[p].entry = program[p].entry
                             /\ program'[p].stage = program[p].stage
  PROVE  /\ IsFiniteSet(programs') /\ HoldWhatTheyAskedFor' /\ CacheLeadsHome'
         /\ StagesRemembered' /\ TypesTracked'
<1>1. \A u \in Uses : use[u] # None => use[u] \in programs BY DEF Inv, HeldPrograms
<1>2. HoldWhatTheyAskedFor' BY <1>1 DEF Faithful, HoldWhatTheyAskedFor
<1>3. CacheLeadsHome' BY DEF Faithful, CacheLeadsHome
<1>4. StagesRemembered' BY DEF Faithful, StagesRemembered
<1>5. TypesTracked' BY DEF Faithful, TypesTracked
<1> QED BY <1>2, <1>3, <1>4, <1>5 DEF Faithful

---------------------------------------------------------------------------
(* A build.                                                                *)

\* Where a program stands among the staged ones, in address order.
LEMMA PlaceAmongStaged ==
  ASSUME NEW S \in SUBSET Nat, IsFiniteSet(S), NEW p \in S
  PROVE  /\ Cardinality(S) \in Nat
         /\ Cardinality({q \in S : q < p}) \in Nat
         /\ Cardinality({q \in S : q < p}) < Cardinality(S)
         /\ \A r \in S : Cardinality({q \in S : q < r}) = Cardinality({q \in S : q < p}) => r = p
<1> DEFINE under(r) == {q \in S : q < r}
<1>1. ASSUME NEW r \in S
      PROVE  /\ under(r) \in SUBSET S /\ r \notin under(r) /\ IsFiniteSet(under(r))
             /\ Cardinality(under(r)) \in Nat
  <2>1. under(r) \in SUBSET S /\ r \notin under(r) OBVIOUS
  <2>2. IsFiniteSet(under(r)) BY <2>1, FS_Subset
  <2> QED BY <2>1, <2>2, FS_CardinalityType
<1>2. ASSUME NEW r \in S, NEW s \in S, r < s
      PROVE  Cardinality(under(r)) # Cardinality(under(s))
  <2>1. under(r) \in SUBSET under(s) /\ r \in under(s)
    <3>1. ASSUME NEW q \in S, q < r PROVE q < s BY <1>2, <3>1
    <3> QED BY <1>2, <3>1
  <2>2. IsFiniteSet(under(s)) /\ r \notin under(r) BY <1>1
  <2>3. under(r) # under(s) BY <2>1, <2>2
  <2> HIDE DEF under
  <2> QED BY <2>1, <2>2, <2>3, FS_Subset
<1>3. \A r \in S : Cardinality(under(r)) = Cardinality(under(p)) => r = p
  <2> SUFFICES ASSUME NEW r \in S, r # p
               PROVE  Cardinality(under(r)) # Cardinality(under(p))
    OBVIOUS
  <2>1. r < p \/ p < r OBVIOUS
  <2> QED BY <1>2, <2>1
<1>4. Cardinality(S) \in Nat BY FS_CardinalityType
<1>5. Cardinality(under(p)) < Cardinality(S)
  <2>1. under(p) \in SUBSET S /\ under(p) # S BY <1>1
  <2>2. Cardinality(under(p)) \in Nat BY <1>1
  <2> HIDE DEF under
  <2>3. Cardinality(under(p)) <= Cardinality(S) /\ Cardinality(S) # Cardinality(under(p))
    BY <2>1, FS_Subset
  <2> QED BY <1>4, <2>2, <2>3
<1> QED BY <1>1, <1>3, <1>4, <1>5

\* The stage found under the number of a program is that program's.
LEMMA StageUnderNumber ==
  ASSUME Inv, IsFiniteSet(programs), NEW p \in Staged
  PROVE  /\ StageIndex(p) \in Nat
         /\ ShaderStages[StageIndex(p) + 1] =
              [entry |-> program[p].entry, stage |-> program[p].stage]
<1>1. Staged \in SUBSET Nat /\ Staged \in SUBSET programs
  BY AddressesArePositive DEF Staged, Inv, HeldPrograms
<1>2. IsFiniteSet(Staged) BY <1>1, FS_Subset
<1> DEFINE place(q) == Cardinality({r \in Staged : r < q})
           i == StageIndex(p) + 1
<1>3. StageIndex(p) = place(p) BY DEF StageIndex
<1>4. /\ Cardinality(Staged) \in Nat /\ place(p) \in Nat /\ place(p) < Cardinality(Staged)
      /\ \A r \in Staged : place(r) = place(p) => r = p
  BY <1>1, <1>2, PlaceAmongStaged
<1> HIDE DEF place
<1>5. StageIndex(p) \in Nat /\ i \in 1 .. Cardinality(Staged) /\ i - 1 = place(p)
  BY <1>3, <1>4
<1>6. \A q \in Staged : place(q) = i - 1 <=> q = p BY <1>4, <1>5
<1> DEFINE found == CHOOSE q \in Staged : place(q) = i - 1
<1> HIDE DEF i
<1>7. found = p BY <1>6
<1>8. ShaderStages[i] = [entry |-> program[found].entry, stage |-> program[found].stage]
  BY <1>5 DEF ShaderStages, place
<1> QED BY <1>5, <1>7, <1>8 DEF i

LEMMA BuildKeepsFaithful ==
  ASSUME Inv, Faithful, Build
  PROVE  Faithful'
<1>1. /\ Unfinished = {} /\ Number /\ current' = TRUE
      /\ pipeline' = [stages |-> ShaderStages, index |-> [u \in Grouped |-> IndexFor(u)]]
      /\ cache' = cache /\ programs' = programs /\ use' = use /\ geomTypes' = geomTypes
      /\ asked' = asked /\ stageAsked' = stageAsked
  BY DEF Build
<1>2. /\ IsFiniteSet(programs') /\ HoldWhatTheyAskedFor' /\ CacheLeadsHome'
      /\ StagesRemembered' /\ TypesTracked'
  BY <1>1, NumberKeepsPrograms, OthersKeepFaithful
<1>3. Unfinished' = {} BY <1>1 DEF Unfinished
<1>4. Grouped \subseteq GeneralUses \cup HitUses BY DEF Grouped
<1>5. /\ DOMAIN pipeline'.index = Grouped
      /\ \A u \in Grouped : pipeline'.index[u] = IndexFor(u)
      /\ pipeline'.stages = ShaderStages
  BY <1>1
<1>6. ASSUME NEW u \in Uses \ (ComputeUses \cup (TrianglesTypes \X {Intersection})),
             asked'[u] # NoEntry
      PROVE  u \in DOMAIN pipeline'.index
  <2>1. use[u] # None BY <1>1, <1>6 DEF Faithful, HoldWhatTheyAskedFor
  <2>2. CASE u \in GeneralUses BY <1>5, <2>1, <2>2 DEF Grouped
  <2>3. CASE u \in HitUses
    <3>1. u[1] \in geomTypes BY <2>1, <2>3 DEF Faithful, TypesTracked
    <3> QED BY <1>5, <1>6, <2>3, <3>1 DEF Grouped
  <2> QED BY <1>6, <2>2, <2>3 DEF Uses
<1>7. ASSUME NEW u \in Grouped
      PROVE  IF pipeline'.index[u] = Unused THEN asked'[u] = NoEntry
             ELSE /\ Run(u)'.entry = asked'[u]
                  /\ stageAsked'[asked'[u]] = StageOf(u) => Run(u)'.stage = StageOf(u)
                  /\ Run(u)'.stage # Compute
  <2>1. u \in Uses /\ StageOf(u) # Compute /\ StageOf(u) # Several
    BY <1>4, StagesOfUses
  <2>2. pipeline'.index[u] = IndexFor(u) BY <1>5
  <2>3. CASE use[u] = None
    BY <1>1, <2>1, <2>2, <2>3 DEF IndexFor, Faithful, HoldWhatTheyAskedFor
  <2>4. CASE use[u] # None
    <3> DEFINE p == use[u]
    <3>1. p \in programs /\ p \in Addresses BY <2>1, <2>4 DEF Inv, HeldPrograms
    <3>2. program[p].entry = asked[u] /\ program[p].stage # Compute
      BY <2>1, <2>4 DEF Faithful, HoldWhatTheyAskedFor
    <3>3. p \in Staged BY <3>1, <3>2 DEF Staged
    <3>4. /\ StageIndex(p) \in Nat
          /\ ShaderStages[StageIndex(p) + 1] =
               [entry |-> program[p].entry, stage |-> program[p].stage]
      BY <3>3, StageUnderNumber DEF Faithful
    <3>5. pipeline'.index[u] = StageIndex(p)
      <4>1. program'[p] = [program[p] EXCEPT !.index = StageIndex(p)]
        BY <1>1, <3>1, <3>3 DEF Number
      <4>2. program'[p].index = StageIndex(p)
        BY <4>1
      <4> QED BY <2>2, <2>4, <4>2 DEF IndexFor
    <3>6. pipeline'.index[u] # Unused BY <3>4, <3>5 DEF Unused
    <3>7. Run(u)' = [entry |-> program[p].entry, stage |-> program[p].stage]
      BY <1>5, <3>4, <3>5 DEF Run
    <3>8. stageAsked[asked[u]] \in {program[p].stage, Several}
      BY <3>1, <3>2 DEF Faithful, StagesRemembered
    <3> QED BY <1>1, <2>1, <3>2, <3>6, <3>7, <3>8
  <2> QED BY <2>3, <2>4
<1>8. GroupsRunWhatWasAskedFor' BY <1>5, <1>6, <1>7 DEF GroupsRunWhatWasAskedFor
<1> QED BY <1>2, <1>3, <1>8 DEF Faithful

LEMMA NextKeepsFaithful == Inv /\ Faithful /\ [Next]_vars => Faithful'
<1> SUFFICES ASSUME Inv, Faithful, [Next]_vars PROVE Faithful' OBVIOUS
<1> DEFINE Asking == /\ IsFiniteSet(programs) /\ HoldWhatTheyAskedFor /\ CacheLeadsHome
                     /\ StagesRemembered /\ TypesTracked
<1>1. ASSUME cache' = cache, use' = use, programs' = programs, program' = program,
             geomTypes' = geomTypes, pipeline' = pipeline, UNCHANGED ghosts
      PROVE  Faithful'
  <2>1. Asking' BY <1>1, OthersKeepFaithful DEF ghosts
  <2>2. (current => Unfinished = {})' BY <1>1 DEF Faithful, Unfinished, ghosts
  <2>3. GroupsRunWhatWasAskedFor'
    BY <1>1 DEF Faithful, GroupsRunWhatWasAskedFor, Run, ghosts
  <2> QED BY <2>1, <2>2, <2>3 DEF Faithful
<1>2. CASE \E m \in Modules, c \in Codes : CreateModule(m, c)
  BY <1>1, <1>2 DEF CreateModule, programVars
<1>3. CASE \E e \in EntryPoints, u \in GeneralUses : CreateGeneral(u, e)
  <2>1. PICK e \in EntryPoints, u \in GeneralUses : CreateGeneral(u, e) BY <1>3
  <2>2. u \notin HitUses
    BY DEF GeneralUses, HitUses, RayGen, Miss, AnyHit, ClosestHit, Intersection
  <2> QED BY <2>1, <2>2, GetKeepsFaithful DEF CreateGeneral
<1>4. CASE \E e \in EntryPoints, c \in Computes : CreateCompute(c, e)
  <2>1. PICK e \in EntryPoints, c \in Computes : CreateCompute(c, e) BY <1>4
  <2>2. <<c, Compute>> \in ComputeUses BY DEF ComputeUses
  <2>3. MakeCompute(<<c, Compute>>, e) /\ geomTypes' = geomTypes
    BY <2>1 DEF CreateCompute
  <2> QED BY <2>2, <2>3, MakeComputeKeepsFaithful
<1>5. CASE \E e \in EntryPoints, u \in HitUses : SetProgram(u, e)
  BY <1>5, GetKeepsFaithful DEF SetProgram
<1>6. CASE \E e \in EntryPoints, t \in GeomTypes : SetBoundsProg(t, e)
  <2>1. PICK e \in EntryPoints, t \in GeomTypes : SetBoundsProg(t, e) BY <1>6
  <2>2. <<t, Compute>> \in ComputeUses BY DEF ComputeUses
  <2>3. MakeCompute(<<t, Compute>>, e) /\ geomTypes' = geomTypes
    BY <2>1 DEF SetBoundsProg
  <2> QED BY <2>2, <2>3, MakeComputeKeepsFaithful
<1>7. CASE \E t \in GeomTypes : CreateGeomType(t)
  <2>1. /\ UNCHANGED programVars /\ asked' = asked /\ stageAsked' = stageAsked
        /\ current' = FALSE /\ geomTypes \subseteq geomTypes'
    BY <1>7 DEF CreateGeomType
  <2>2. Asking' BY <2>1, OthersKeepFaithful DEF programVars
  <2> QED BY <2>1, <2>2, NotCurrent DEF Faithful
<1>8. CASE Build BY <1>8, BuildKeepsFaithful
<1>9. CASE BuildThrows
  <2>1. current' = FALSE BY <1>9 DEF BuildThrows, Faithful, GroupsRunWhatWasAskedFor, ghosts
  <2>2. Asking'
    <3>1. /\ cache' = cache /\ use' = use /\ programs' = programs /\ asked' = asked
          /\ stageAsked' = stageAsked /\ geomTypes' = geomTypes /\ Number
      BY <1>9 DEF BuildThrows, ghosts
    <3> QED BY <3>1, NumberKeepsPrograms, OthersKeepFaithful
  <2> QED BY <2>1, <2>2, NotCurrent DEF Faithful
<1>10. CASE UNCHANGED vars BY <1>1, <1>10 DEF vars, programVars
<1> QED BY <1>2, <1>3, <1>4, <1>5, <1>6, <1>7, <1>8, <1>9, <1>10 DEF Next

\* RTPipeline::build(), gatherPrograms() and the groups' create functions: until
\* something else is asked for, each group of the pipeline runs the entry point
\* its user asked for last, in its stage, and nothing where nothing was asked.
THEOREM PipelineRunsWhatWasAskedFor == Spec => []GroupsRunWhatWasAskedFor
<1>1. Faithful => GroupsRunWhatWasAskedFor BY DEF Faithful
<1> QED BY <1>1, InvAlways, InitFaithful, NextKeepsFaithful, PTL DEF Spec

---------------------------------------------------------------------------
(* Types, and the numbers of the programs: with as many addresses as a     *)
(* machine has, that is finitely many.                                     *)

\* The numbers of the staged programs are those of the stages.
LEMMA StageIndicesFit ==
  ASSUME Inv, IsFiniteSet(Addresses)
  PROVE  /\ Cardinality(Staged) \in Nat /\ Cardinality(Addresses) \in Nat
         /\ Cardinality(Staged) <= Cardinality(Addresses)
         /\ \A p \in Staged : StageIndex(p) \in 0 .. Cardinality(Staged) - 1
<1>1. Staged \in SUBSET Addresses /\ Staged \in SUBSET Nat
  BY AddressesArePositive DEF Staged, Inv, HeldPrograms
<1>2. IsFiniteSet(Staged) BY <1>1, FS_Subset
<1>3. /\ Cardinality(Staged) \in Nat /\ Cardinality(Addresses) \in Nat
      /\ Cardinality(Staged) <= Cardinality(Addresses)
  BY <1>1, <1>2, FS_Subset, FS_CardinalityType
<1>4. ASSUME NEW p \in Staged PROVE StageIndex(p) \in 0 .. Cardinality(Staged) - 1
  <2>1. /\ Cardinality({q \in Staged : q < p}) \in Nat
        /\ Cardinality({q \in Staged : q < p}) < Cardinality(Staged)
    BY <1>1, <1>2, PlaceAmongStaged
  <2> QED BY <1>3, <2>1 DEF StageIndex
<1> QED BY <1>3, <1>4

IndicesFit == \A p \in Addresses : program[p].index \in Indices

LEMMA NumberKeepsIndices ==
  ASSUME Inv, IsFiniteSet(Addresses), IndicesFit, Number
  PROVE  IndicesFit'
<1> SUFFICES ASSUME NEW p \in Addresses PROVE program'[p].index \in Indices
  BY DEF IndicesFit, Indices
<1>1. CASE p \in Staged
  <2>1. program'[p].index = StageIndex(p)
    <3>1. program'[p] = [program[p] EXCEPT !.index = StageIndex(p)] BY <1>1 DEF Number
    <3> QED BY <3>1
  <2> QED BY <1>1, <2>1, StageIndicesFit DEF Indices, Unused
<1>2. CASE p \notin Staged
  <2>1. program'[p] = program[p] BY <1>2 DEF Number
  <2> QED BY <2>1 DEF IndicesFit
<1> QED BY <1>1, <1>2

LEMMA HoldKeepsIndices ==
  ASSUME IsFiniteSet(Addresses), IndicesFit, NEW u, NEW e, NEW p, NEW made, Hold(u, e, p, made)
  PROVE  IndicesFit'
<1>1. Unused \in Indices BY FS_CardinalityType DEF Unused, Indices
<1>2. program' = [q \in Addresses |->
           IF q \in made THEN [entry |-> e, stage |-> StageOf(u), index |-> Unused]
           ELSE IF q \in Dying(u, p) THEN Free ELSE program[q]]
  BY DEF Hold
<1> SUFFICES ASSUME NEW q \in Addresses PROVE program'[q].index \in Indices
  BY DEF IndicesFit, Indices
<1>3. \/ program'[q] = [entry |-> e, stage |-> StageOf(u), index |-> Unused]
      \/ program'[q] = Free
      \/ program'[q] = program[q]
  BY <1>2
<1> QED BY <1>1, <1>3 DEF IndicesFit, Free

\* Groups name stages that are there.
PipelineFits ==
  \A u \in DOMAIN pipeline.index :
    pipeline.index[u] \in Unused .. Len(pipeline.stages) - 1

LEMMA BuildFits ==
  ASSUME Inv, Faithful, IsFiniteSet(Addresses), Build
  PROVE  PipelineFits'
<1>1. /\ Number /\ programs' = programs /\ use' = use /\ geomTypes' = geomTypes
      /\ pipeline' = [stages |-> ShaderStages, index |-> [u \in Grouped |-> IndexFor(u)]]
  BY DEF Build
<1> DEFINE n == Cardinality(Staged)
<1>2. n \in Nat /\ \A p \in Staged : StageIndex(p) \in 0 .. n - 1 BY StageIndicesFit
<1>3. Len(ShaderStages) = n
  <2> DEFINE V == {ShaderStages[i] : i \in 1 .. n}
  <2>1. ShaderStages = [i \in 1 .. n |-> ShaderStages[i]] BY DEF ShaderStages
  <2>2. ShaderStages \in [1 .. n -> V] BY <2>1
  <2> HIDE DEF n, V
  <2>3. ShaderStages \in Seq(V) BY <1>2, <2>2, SeqDef
  <2>4. DOMAIN ShaderStages = 1 .. n BY <2>2
  <2> QED BY <1>2, <2>3, <2>4, LenProperties
<1>4. /\ pipeline'.stages = ShaderStages /\ DOMAIN pipeline'.index = Grouped
      /\ \A u \in Grouped : pipeline'.index[u] = IndexFor(u)
  BY <1>1
<1> HIDE DEF n
<1>5. ASSUME NEW u \in Grouped PROVE IndexFor(u) \in Unused .. n - 1
  <2>1. CASE use[u] = None BY <1>2, <2>1 DEF IndexFor, Unused
  <2>2. CASE use[u] # None
    <3> DEFINE p == use[u]
    <3>1. u \in Uses /\ StageOf(u) # Compute BY StagesOfUses DEF Grouped
    <3>2. p \in programs /\ p \in Addresses BY <2>2, <3>1 DEF Inv, HeldPrograms
    <3>3. program[p].stage # Compute
      BY <2>2, <3>1 DEF Faithful, HoldWhatTheyAskedFor
    <3>4. p \in Staged BY <3>2, <3>3 DEF Staged
    <3>5. program'[p].index = StageIndex(p)
      <4>1. program'[p] = [program[p] EXCEPT !.index = StageIndex(p)]
        BY <1>1, <3>2, <3>4 DEF Number
      <4> QED BY <4>1
    <3>6. IndexFor(u) = StageIndex(p) BY <2>2, <3>5 DEF IndexFor
    <3> QED BY <1>2, <3>4, <3>6 DEF Unused
  <2> QED BY <2>1, <2>2
<1> QED BY <1>3, <1>4, <1>5 DEF PipelineFits

TypesInv ==
  /\ DOMAIN code = Modules /\ DOMAIN handed = Modules
  /\ geomTypes \subseteq GeomTypes
  /\ IndicesFit /\ PipelineFits

LEMMA InitTypesInv ==
  ASSUME IsFiniteSet(Addresses)
  PROVE  Init => TypesInv
<1>1. Unused \in Indices BY FS_CardinalityType DEF Unused, Indices
<1>2. Init => IndicesFit BY <1>1 DEF Init, IndicesFit, Free
<1>3. Init => PipelineFits BY EmptySeq DEF Init, PipelineFits, NoPipeline
<1> QED BY <1>2, <1>3 DEF Init, TypesInv

LEMMA NextKeepsTypesInv ==
  ASSUME IsFiniteSet(Addresses)
  PROVE  Inv /\ Faithful /\ TypesInv /\ [Next]_vars => TypesInv'
<1> SUFFICES ASSUME Inv, Faithful, TypesInv, [Next]_vars PROVE TypesInv' OBVIOUS
<1> DEFINE Frame == /\ UNCHANGED <<code, handed, pipeline>>
                    /\ geomTypes' = geomTypes
<1>1. ASSUME Frame, IndicesFit' PROVE TypesInv'
  BY <1>1 DEF TypesInv, PipelineFits
<1>2. ASSUME NEW u, NEW e, Get(u, e), geomTypes' = geomTypes PROVE TypesInv'
  <2>1. Frame BY <1>2 DEF Get, Ask, moduleVars
  <2>2. \E p, made : Hold(u, e, p, made) BY <1>2 DEF Get
  <2>3. IndicesFit' BY <2>2, HoldKeepsIndices DEF TypesInv
  <2> QED BY <1>1, <2>1, <2>3
<1>3. ASSUME NEW u, NEW e, MakeCompute(u, e), geomTypes' = geomTypes PROVE TypesInv'
  <2>1. Frame BY <1>3 DEF MakeCompute, Ask, moduleVars
  <2>2. \E p, made : Hold(u, e, p, made) BY <1>3 DEF MakeCompute
  <2>3. IndicesFit' BY <2>2, HoldKeepsIndices DEF TypesInv
  <2> QED BY <1>1, <2>1, <2>3
<1>4. CASE \E m \in Modules, c \in Codes : CreateModule(m, c)
  <2>1. DOMAIN code' = Modules /\ DOMAIN handed' = Modules BY <1>4 DEF CreateModule, TypesInv
  <2>2. program' = program /\ geomTypes' = geomTypes /\ pipeline' = pipeline
    BY <1>4 DEF CreateModule, programVars
  <2> QED BY <2>1, <2>2 DEF TypesInv, IndicesFit, Indices, PipelineFits
<1>5. CASE \E e \in EntryPoints, u \in GeneralUses : CreateGeneral(u, e)
  BY <1>2, <1>5 DEF CreateGeneral
<1>6. CASE \E e \in EntryPoints, c \in Computes : CreateCompute(c, e)
  BY <1>3, <1>6 DEF CreateCompute
<1>7. CASE \E e \in EntryPoints, u \in HitUses : SetProgram(u, e)
  BY <1>2, <1>7 DEF SetProgram
<1>8. CASE \E e \in EntryPoints, t \in GeomTypes : SetBoundsProg(t, e)
  BY <1>3, <1>8 DEF SetBoundsProg
<1>9. CASE \E t \in GeomTypes : CreateGeomType(t)
  <2>1. geomTypes' \subseteq GeomTypes BY <1>9 DEF CreateGeomType, TypesInv
  <2>2. UNCHANGED <<code, handed, program, pipeline>>
    BY <1>9 DEF CreateGeomType, moduleVars, programVars
  <2> QED BY <2>1, <2>2 DEF TypesInv, IndicesFit, Indices, PipelineFits
<1>10. CASE Build
  <2>1. IndicesFit' BY <1>10, NumberKeepsIndices DEF Build, TypesInv
  <2>2. PipelineFits' BY <1>10, BuildFits
  <2>3. UNCHANGED <<code, handed>> /\ geomTypes' = geomTypes BY <1>10 DEF Build, moduleVars
  <2> QED BY <2>1, <2>2, <2>3 DEF TypesInv
<1>11. CASE BuildThrows
  <2>1. IndicesFit' BY <1>11, NumberKeepsIndices DEF BuildThrows, TypesInv
  <2>2. PipelineFits' BY <1>11 DEF BuildThrows, PipelineFits, NoPipeline
  <2>3. UNCHANGED <<code, handed>> /\ geomTypes' = geomTypes BY <1>11 DEF BuildThrows, moduleVars
  <2> QED BY <2>1, <2>2, <2>3 DEF TypesInv
<1>12. CASE UNCHANGED vars
  BY <1>12 DEF vars, moduleVars, programVars, TypesInv, IndicesFit, Indices, PipelineFits
<1> QED BY <1>4, <1>5, <1>6, <1>7, <1>8, <1>9, <1>10, <1>11, <1>12 DEF Next

\* gatherPrograms() and getShaderStage(): every variable has its type, and no
\* group of the pipeline names a stage it was not created with, though programs
\* die and are numbered anew at every build.
THEOREM TypesAlwaysOK ==
  ASSUME IsFiniteSet(Addresses)
  PROVE  Spec => []TypeOK
<1>1. Inv /\ TypesInv => TypeOK
  BY DEF Inv, HeldPrograms, TypesInv, IndicesFit, PipelineFits, TypeOK
<1> QED
  BY <1>1, InitInv, InitFaithful, InitTypesInv, NextKeepsInv, NextKeepsFaithful,
    NextKeepsTypesInv, PTL DEF Spec

---------------------------------------------------------------------------
(* stripStoragePushConstant8(): what the loop makes of any code.  The loop *)
(* is a recursive function of the place it has reached; facts about it are *)
(* proved from the end of the code to its start, by induction over the set *)
(* of places where they hold.                                              *)

\* Induction over the natural numbers, of a set.
LEMMA SetInduction ==
  ASSUME NEW S, 0 \in S, \A n \in Nat : n \in S => n + 1 \in S
  PROVE  Nat \subseteq S
<1> DEFINE T == Nat \ S
<1>1. SUFFICES ASSUME T # {} PROVE FALSE OBVIOUS
<1>2. PICK x \in T : \A y \in T : ~(<<y, x>> \in OpToRel(<, Nat))
  BY <1>1, NatLessThanWellFounded, WFMin
<1>3. x # 0 /\ x - 1 \in Nat /\ x \in Nat OBVIOUS
<1>4. <<x - 1, x>> \in OpToRel(<, Nat) BY <1>3 DEF OpToRel
<1>5. x - 1 \in S BY <1>2, <1>3, <1>4
<1>6. x - 1 + 1 = x BY <1>3
<1> QED BY <1>3, <1>5, <1>6

\* From the end of a sequence to its start: S holds the place behind it, and a
\* place if it holds all that come after.
LEMMA DownwardInduction ==
  ASSUME NEW L \in Nat, NEW S,
         L + 1 \in S,
         \A i \in 1 .. L : (\A j \in i + 1 .. L + 1 : j \in S) => i \in S
  PROVE  1 .. L + 1 \subseteq S
<1> DEFINE U == {n \in Nat : \A j \in 1 .. L + 1 : j >= L + 1 - n => j \in S}
<1>1. 0 \in U OBVIOUS
<1>2. ASSUME NEW n \in Nat, n \in U PROVE n + 1 \in U
  <2>1. ASSUME NEW j \in 1 .. L + 1, j >= L + 1 - (n + 1) PROVE j \in S
    <3>1. CASE j >= L + 1 - n BY <1>2, <3>1
    <3>2. CASE j = L + 1 - (n + 1)
      <4>1. j \in 1 .. L BY <2>1, <3>2
      <4>2. \A k \in j + 1 .. L + 1 : k \in S BY <1>2, <3>2
      <4> QED BY <4>1, <4>2
    <3> QED BY <2>1, <3>1, <3>2
  <2> QED BY <2>1
<1> HIDE DEF U
<1>3. Nat \subseteq U BY <1>1, <1>2, SetInduction
<1>4. L \in U BY <1>3
<1> QED BY <1>4 DEF U

\* The loop, an iteration at a time: what one makes of what the later ones say.
Prepend(c, i, rest) ==
  IF Strips(c, i) THEN [rest EXCEPT !.removed = TRUE]
  ELSE [rest EXCEPT !.words = SubSeq(c, i, i + WordCount(c[i]) - 1) \o @]

Body(c, f, i) ==
  IF i > Len(c) THEN [failed |-> FALSE, removed |-> FALSE, words |-> <<>>]
  ELSE IF Malformed(c, i) THEN [failed |-> TRUE, removed |-> FALSE, words |-> <<>>]
  ELSE Prepend(c, i, f[i + WordCount(c[i])])

\* An iteration goes on behind its instruction, at the end at most.
LEMMA GoesOn ==
  ASSUME NEW c \in Seq(Nat), NEW i \in 1 .. Len(c), ~ Malformed(c, i)
  PROVE  /\ WordCount(c[i]) \in Nat \ {0}
         /\ i + WordCount(c[i]) \in i + 1 .. Len(c) + 1
<1>1. Len(c) \in Nat /\ c[i] \in Nat BY LenProperties, ElementOfSeq
<1>2. WordCount(c[i]) \in Nat BY <1>1 DEF WordCount
<1> QED BY <1>1, <1>2 DEF Malformed

LEMMA LoopIsDefined ==
  ASSUME NEW c \in Seq(Nat)
  PROVE  \E f : f = [i \in 1 .. Len(c) + 1 |-> Body(c, f, i)]
<1> DEFINE L == Len(c)
           Defined(k, f) == f = [i \in k .. L + 1 |-> Body(c, f, i)]
           S == {k \in 1 .. L + 1 : \E f : Defined(k, f)}
<1>1. L \in Nat BY LenProperties
<1> HIDE DEF L
<1>2. L + 1 \in S
  <2> DEFINE g == [i \in L + 1 .. L + 1 |-> Body(c, <<>>, i)]
  <2>1. ASSUME NEW i \in L + 1 .. L + 1 PROVE Body(c, <<>>, i) = Body(c, g, i)
    <3>1. i > Len(c) BY <1>1 DEF L
    <3> QED BY <3>1 DEF Body
  <2>2. g = [i \in L + 1 .. L + 1 |-> Body(c, g, i)] BY <2>1
  <2> HIDE DEF g
  <2>3. Defined(L + 1, g) BY <2>2
  <2>4. L + 1 \in 1 .. L + 1 BY <1>1
  <2> QED BY <2>3, <2>4
<1>3. ASSUME NEW k \in 1 .. L, \A j \in k + 1 .. L + 1 : j \in S PROVE k \in S
  <2>1. k + 1 \in S BY <1>1, <1>3
  <2>2. PICK f : Defined(k + 1, f) BY <2>1
  <2> DEFINE g == [i \in k .. L + 1 |-> IF i = k THEN Body(c, f, k) ELSE f[i]]
  <2>3. ASSUME NEW i \in k .. L + 1 PROVE Body(c, g, i) = Body(c, f, i)
    <3>1. CASE i > L BY <1>1, <3>1 DEF Body, L
    <3>2. CASE i <= L /\ Malformed(c, i) BY <1>1, <3>2 DEF Body, L
    <3>3. CASE i <= L /\ ~ Malformed(c, i)
      <4>1. i \in 1 .. Len(c) BY <1>1, <3>3 DEF L
      <4>2. i + WordCount(c[i]) \in k + 1 .. L + 1 BY <1>1, <3>3, <4>1, GoesOn DEF L
      <4>3. g[i + WordCount(c[i])] = f[i + WordCount(c[i])] BY <1>1, <4>2
      <4> HIDE DEF g
      <4> QED BY <4>3 DEF Body
    <3> QED BY <1>1, <3>1, <3>2, <3>3
  <2>4. ASSUME NEW i \in k .. L + 1 PROVE g[i] = Body(c, g, i)
    <3>1. CASE i = k BY <2>3, <3>1
    <3>2. CASE i # k
      <4>1. i \in k + 1 .. L + 1 BY <1>1, <3>2
      <4>2. f[i] = Body(c, f, i) BY <2>2, <4>1
      <4> QED BY <2>3, <3>2, <4>2
    <3> QED BY <3>1, <3>2
  <2>5. g = [i \in k .. L + 1 |-> Body(c, g, i)]
    <3>1. \A i \in k .. L + 1 : g[i] = Body(c, g, i) BY <2>4
    <3>2. g = [i \in k .. L + 1 |-> g[i]] OBVIOUS
    <3> HIDE DEF g
    <3> QED BY <3>1, <3>2
  <2> HIDE DEF g
  <2>6. Defined(k, g) BY <2>5
  <2> QED BY <1>1, <2>6
<1> HIDE DEF S
<1>4. 1 .. L + 1 \subseteq S BY <1>1, <1>2, <1>3, DownwardInduction
<1>5. 1 \in S BY <1>1, <1>4
<1> QED BY <1>5 DEF S, L

From(c) == CHOOSE f : f = [i \in 1 .. Len(c) + 1 |-> Body(c, f, i)]

LEMMA LoopUnfolds ==
  ASSUME NEW c \in Seq(Nat)
  PROVE  /\ Loop(c) = From(c)[HeaderSize + 1]
         /\ \A i \in 1 .. Len(c) + 1 : From(c)[i] = Body(c, From(c), i)
<1>1. From(c) = [i \in 1 .. Len(c) + 1 |-> Body(c, From(c), i)]
  BY LoopIsDefined DEF From
<1>2. Loop(c) = From(c)[HeaderSize + 1] BY DEF Loop, From, Body, Prepend
<1> HIDE DEF From
<1> QED BY <1>1, <1>2

\* The size of an interval.
LEMMA IntervalSize ==
  ASSUME NEW a \in Int, NEW b \in Int, a <= b + 1
  PROVE  IsFiniteSet(a .. b) /\ Cardinality(a .. b) = b + 1 - a
<1>1. /\ IsFiniteSet(a .. b)
      /\ Cardinality(a .. b) = IF a > b THEN 0 ELSE b - a + 1
  BY FS_Interval
<1> QED BY <1>1

\* Below a place, the places of words of the code.
LEMMA PlacesAreFinite ==
  ASSUME NEW a \in Nat, NEW b \in Nat, NEW K \in SUBSET (a .. b)
  PROVE  IsFiniteSet(K) /\ Cardinality(K) \in Nat
<1>1. IsFiniteSet(a .. b) BY FS_Interval
<1> QED BY <1>1, FS_Subset, FS_CardinalityType

\* Words in front of others, all of them kept.
LEMMA KeepsInFront ==
  ASSUME NEW c \in Seq(Nat), NEW i \in 1 .. Len(c), NEW n \in i + 1 .. Len(c) + 1,
         NEW K \in SUBSET (n .. Len(c)), NEW s \in Seq(Nat), Keeps(s, c, K)
  PROVE  Keeps(SubSeq(c, i, n - 1) \o s, c, (i .. n - 1) \cup K)
<1> DEFINE L == Len(c)
           front == SubSeq(c, i, n - 1)
           J == (i .. n - 1) \cup K
           t == front \o s
<1>1. L \in Nat /\ i \in Nat /\ n \in Nat BY LenProperties
<1>2. /\ front \in Seq(Nat) /\ Len(front) = n - i
      /\ \A k \in 1 .. n - i : front[k] = c[i + k - 1]
  BY <1>1, SubSeqProperties
<1>3. IsFiniteSet(K) /\ Cardinality(K) \in Nat BY <1>1, PlacesAreFinite
<1>4. ASSUME NEW M \in SUBSET K
      PROVE  /\ IsFiniteSet((i .. n - 1) \cup M)
             /\ Cardinality((i .. n - 1) \cup M) = n - i + Cardinality(M)
  <2>1. IsFiniteSet(i .. n - 1) /\ Cardinality(i .. n - 1) = n - i
    <3>1. i \in Int /\ n - 1 \in Int /\ i <= (n - 1) + 1 /\ (n - 1) + 1 - i = n - i BY <1>1
    <3>2. /\ IsFiniteSet(i .. n - 1)
          /\ Cardinality(i .. n - 1) = (n - 1) + 1 - i
      BY <3>1, IntervalSize
    <3> QED BY <3>1, <3>2
  <2>2. IsFiniteSet(M) BY <1>3, FS_Subset
  <2>3. (i .. n - 1) \cap M = {} BY <1>1
  <2>4. Cardinality((i .. n - 1) \cap M) = 0 BY <2>3, FS_EmptySet
  <2>5. Cardinality(M) \in Nat BY <2>2, FS_CardinalityType
  <2>6. /\ IsFiniteSet((i .. n - 1) \cup M)
        /\ Cardinality((i .. n - 1) \cup M)
             = Cardinality(i .. n - 1) + Cardinality(M) - Cardinality((i .. n - 1) \cap M)
    BY <2>1, <2>2, FS_Union
  <2> QED BY <1>1, <2>1, <2>4, <2>5, <2>6
<1> HIDE DEF front
<1>5. /\ Len(t) = n - i + Len(s)
      /\ \A k \in 1 .. n - i : t[k] = c[i + k - 1]
      /\ \A k \in 1 .. Len(s) : t[n - i + k] = s[k]
  <2>1. Len(s) \in Nat BY LenProperties
  <2>2. /\ Len(t) = Len(front) + Len(s)
        /\ \A k \in 1 .. Len(front) + Len(s) :
             t[k] = IF k <= Len(front) THEN front[k] ELSE s[k - Len(front)]
    BY <1>2, ConcatProperties
  <2> HIDE DEF t
  <2>3. ASSUME NEW k \in 1 .. n - i PROVE t[k] = c[i + k - 1]
    <3>1. k \in 1 .. Len(front) + Len(s) /\ k <= Len(front) BY <1>1, <1>2, <2>1
    <3>2. t[k] = IF k <= Len(front) THEN front[k] ELSE s[k - Len(front)] BY <2>2, <3>1
    <3> QED BY <1>2, <3>1, <3>2
  <2>4. ASSUME NEW k \in 1 .. Len(s) PROVE t[n - i + k] = s[k]
    <3> DEFINE m == n - i + k
    <3>1. m \in 1 .. Len(front) + Len(s) /\ ~(m <= Len(front)) /\ m - Len(front) = k
      BY <1>1, <1>2, <2>1
    <3> HIDE DEF m
    <3>2. t[m] = s[k] BY <2>2, <3>1
    <3> QED BY <3>2 DEF m
  <2> QED BY <1>2, <2>2, <2>3, <2>4
<1> HIDE DEF t
<1>6. Len(t) = Cardinality(J) BY <1>4, <1>5 DEF Keeps
<1>7. ASSUME NEW j \in J PROVE t[Cardinality({k \in J : k <= j})] = c[j]
  <2>1. CASE j \in i .. n - 1
    <3>1. {k \in J : k <= j} = i .. j
      <4>1. ASSUME NEW k \in K PROVE ~(k <= j) BY <1>1, <2>1, <4>1
      <4>2. ASSUME NEW k \in i .. n - 1, k <= j PROVE k \in i .. j BY <1>1, <2>1, <4>2
      <4>3. ASSUME NEW k \in i .. j PROVE k \in i .. n - 1 /\ k <= j BY <1>1, <2>1, <4>3
      <4> QED BY <4>1, <4>2, <4>3
    <3>2. Cardinality(i .. j) = j - i + 1 BY <1>1, <2>1, IntervalSize
    <3>3. j - i + 1 \in 1 .. n - i /\ i + (j - i + 1) - 1 = j BY <1>1, <2>1
    <3> HIDE DEF J
    <3> QED BY <1>5, <3>1, <3>2, <3>3
  <2>2. CASE j \in K
    <3> DEFINE M == {k \in K : k <= j}
    <3>1. {k \in J : k <= j} = (i .. n - 1) \cup M BY <1>1, <2>2
    <3>2. Cardinality((i .. n - 1) \cup M) = n - i + Cardinality(M) BY <1>4
    <3>3. s[Cardinality(M)] = c[j] BY <2>2 DEF Keeps
    <3>4. Cardinality(M) \in 1 .. Len(s)
      <4>1. IsFiniteSet(M) /\ Cardinality(M) <= Cardinality(K) BY <1>3, FS_Subset
      <4>2. Cardinality(M) \in Nat BY <4>1, FS_CardinalityType
      <4>3. j \in M BY <1>1, <2>2
      <4>4. Cardinality(M) # 0 BY <4>1, <4>3, FS_EmptySet
      <4> QED BY <1>3, <4>1, <4>2, <4>4 DEF Keeps
    <3> HIDE DEF M, J
    <3> QED BY <1>5, <3>1, <3>2, <3>3, <3>4
  <2> QED BY <2>1, <2>2
<1> QED BY <1>6, <1>7 DEF Keeps, t, front

\* The loop where nothing is left.
LEMMA KeepsNothing == \A c : Keeps(<<>>, c, {})
  BY FS_EmptySet DEF Keeps

\* All words.
LEMMA KeepsAll ==
  ASSUME NEW c \in Seq(Nat)
  PROVE  Keeps(c, c, 1 .. Len(c))
<1>1. Len(c) \in Nat BY LenProperties
<1>2. Cardinality(1 .. Len(c)) = Len(c) BY <1>1, IntervalSize
<1>3. ASSUME NEW i \in 1 .. Len(c)
      PROVE  c[Cardinality({j \in 1 .. Len(c) : j <= i})] = c[i]
  <2>1. {j \in 1 .. Len(c) : j <= i} = 1 .. i BY <1>1
  <2>2. Cardinality(1 .. i) = i BY IntervalSize
  <2> QED BY <2>1, <2>2
<1> QED BY <1>2, <1>3 DEF Keeps

---------------------------------------------------------------------------
(* What the loop makes of the code from a place on.                        *)

\* With an instruction, the place behind it.
Closed(c, T) ==
  \A i \in T \ {Len(c) + 1} : WordCount(c[i]) # 0 /\ i + WordCount(c[i]) \in T

\* The places of instructions from i on: they are in every set that has i and
\* with an instruction the place behind it.
Reaches(c, i, V) ==
  /\ V \subseteq i .. Len(c) + 1
  /\ i \in V /\ Closed(c, V)
  /\ \A T \in SUBSET Places(c) : i \in T /\ Closed(c, T) => V \subseteq T

Gone(c, V) ==
  {i \in V \ {Len(c) + 1, Len(c)} :
     c[i] = OpCapability + 65536 * 2 /\ c[i + 1] = StoragePushConstant8}

GoneWords(c, V) == Gone(c, V) \cup {i + 1 : i \in Gone(c, V)}

Right(c, i, r) ==
  /\ r \in [failed : BOOLEAN, removed : BOOLEAN, words : Seq(Nat)]
  /\ r.failed => ~ \E T \in SUBSET Places(c) : i \in T /\ Closed(c, T)
  /\ ~ r.failed => \E V :
       /\ Reaches(c, i, V)
       /\ r.removed <=> Gone(c, V) # {}
       /\ Keeps(r.words, c, (i .. Len(c)) \ GoneWords(c, V))

\* The word of a declaration.
LEMMA StripsWhatIsGone ==
  ASSUME NEW c \in Seq(Nat), NEW i \in 1 .. Len(c), ~ Malformed(c, i)
  PROVE  Strips(c, i) <=>
           i # Len(c) /\ c[i] = OpCapability + 65536 * 2 /\ c[i + 1] = StoragePushConstant8
<1>1. Len(c) \in Nat /\ c[i] \in Nat BY LenProperties, ElementOfSeq
<1>2. c[i] % 65536 = OpCapability /\ c[i] \div 65536 = 2 <=> c[i] = OpCapability + 65536 * 2
  BY <1>1 DEF OpCapability
<1>3. WordCount(c[i]) = 2 => i # Len(c) BY <1>1 DEF Malformed
<1> QED BY <1>2, <1>3 DEF Strips, Op, WordCount

\* What is gone is an instruction, not the end of the code.
LEMMA GoneInside ==
  ASSUME NEW c \in Seq(Nat), NEW a \in Nat, NEW V \in SUBSET (a .. Len(c) + 1)
  PROVE  GoneWords(c, V) \subseteq a .. Len(c)
<1>1. Len(c) \in Nat BY LenProperties
<1>2. ASSUME NEW i \in Gone(c, V) PROVE i \in a .. Len(c) /\ i + 1 \in a .. Len(c)
  <2>1. i \in a .. Len(c) + 1 /\ i # Len(c) /\ i # Len(c) + 1 BY DEF Gone
  <2> QED BY <1>1, <2>1
<1> QED BY <1>2 DEF GoneWords

LEMMA IterationIsRight ==
  ASSUME NEW c \in Seq(Nat), NEW i \in HeaderSize + 1 .. Len(c), NEW f,
         \A n \in i + 1 .. Len(c) + 1 : Right(c, n, f[n])
  PROVE  Right(c, i, Body(c, f, i))
<1> DEFINE L == Len(c)
<1>1. L \in Nat /\ i \in 1 .. L /\ i # L + 1 /\ ~(i > L)
  BY LenProperties DEF HeaderSize
<1>2. i \in Places(c) BY <1>1 DEF Places
<1>3. CASE Malformed(c, i)
  <2> DEFINE r == [failed |-> TRUE, removed |-> FALSE, words |-> <<>>]
  <2>1. Body(c, f, i) = r BY <1>1, <1>3 DEF Body
  <2>2. r \in [failed : BOOLEAN, removed : BOOLEAN, words : Seq(Nat)] BY EmptySeq
  <2>3. ASSUME NEW T \in SUBSET Places(c), i \in T, Closed(c, T) PROVE FALSE
    <3>1. WordCount(c[i]) # 0 /\ i + WordCount(c[i]) \in Places(c)
      BY <1>1, <2>3 DEF Closed
    <3> QED BY <1>1, <1>3, <3>1 DEF Malformed, Places
  <2> QED BY <2>1, <2>2, <2>3 DEF Right
<1>4. CASE ~ Malformed(c, i)
  <2> DEFINE n == i + WordCount(c[i])
             rest == f[n]
             r == Prepend(c, i, rest)
  <2>1. Body(c, f, i) = r BY <1>1, <1>4 DEF Body
  <2>2. WordCount(c[i]) \in Nat \ {0} /\ n \in i + 1 .. L + 1 BY <1>1, <1>4, GoesOn
  <2>3. n - 1 = i + WordCount(c[i]) - 1 BY <1>1, <2>2
  <2>4. Right(c, n, rest) BY <2>2
  <2> HIDE DEF n, rest
  <2>5. rest \in [failed : BOOLEAN, removed : BOOLEAN, words : Seq(Nat)] BY <2>4 DEF Right
  <2>6. SubSeq(c, i, n - 1) \o rest.words \in Seq(Nat)
    <3>1. n - 1 <= Len(c) /\ n - 1 \in Int /\ i \in 1 .. Len(c) + 1 BY <1>1, <2>2
    <3>2. SubSeq(c, i, n - 1) \in Seq(Nat) BY <1>1, <2>2, <3>1, SubSeqProperties
    <3>3. rest.words \in Seq(Nat) BY <2>5
    <3> QED BY <3>2, <3>3, ConcatProperties
  <2>7. /\ r \in [failed : BOOLEAN, removed : BOOLEAN, words : Seq(Nat)]
        /\ r.failed = rest.failed
        /\ r.removed = (Strips(c, i) \/ rest.removed)
        /\ r.words = IF Strips(c, i) THEN rest.words ELSE SubSeq(c, i, n - 1) \o rest.words
    <3> DEFINE words == SubSeq(c, i, i + WordCount(c[i]) - 1) \o rest.words
    <3>1. Strips(c, i) \in BOOLEAN BY DEF Strips
    <3>2. CASE Strips(c, i)
      <4>1. r = [rest EXCEPT !.removed = TRUE] BY <3>2 DEF Prepend
      <4> HIDE DEF r
      <4> QED BY <2>5, <3>2, <4>1
    <3>3. CASE ~ Strips(c, i)
      <4>1. r = [rest EXCEPT !.words = words] BY <3>3 DEF Prepend
      <4>2. words = SubSeq(c, i, n - 1) \o rest.words /\ words \in Seq(Nat) BY <2>6, <2>3
      <4> HIDE DEF r, words
      <4>3. /\ r \in [failed : BOOLEAN, removed : BOOLEAN, words : Seq(Nat)]
            /\ r.failed = rest.failed /\ r.removed = rest.removed /\ r.words = words
        BY <2>5, <4>1, <4>2
      <4>4. rest.removed \in BOOLEAN BY <2>5
      <4> QED BY <3>3, <4>2, <4>3, <4>4
    <3> QED BY <3>1, <3>2, <3>3
  <2> HIDE DEF r
  <2>8. ASSUME NEW T \in SUBSET Places(c), i \in T, Closed(c, T) PROVE n \in T
    BY <1>1, <2>8 DEF Closed, n
  <2>9. CASE rest.failed
    BY <2>1, <2>4, <2>7, <2>8, <2>9 DEF Right
  <2>10. CASE ~ rest.failed
    <3>1. PICK V : /\ Reaches(c, n, V)
                   /\ rest.removed <=> Gone(c, V) # {}
                   /\ Keeps(rest.words, c, (n .. L) \ GoneWords(c, V))
      BY <2>4, <2>10 DEF Right
    <3> DEFINE W == {i} \cup V
    <3>2. V \subseteq n .. L + 1 /\ n \in V /\ i \notin V
      BY <1>1, <2>2, <3>1 DEF Reaches
    <3>3. Reaches(c, i, W)
      <4>1. W \subseteq i .. L + 1 BY <1>1, <2>2, <3>2
      <4>2. Closed(c, W) BY <1>1, <2>2, <3>1, <3>2 DEF Closed, Reaches, n
      <4>3. ASSUME NEW T \in SUBSET Places(c), i \in T, Closed(c, T) PROVE W \subseteq T
        BY <2>8, <3>1, <4>3 DEF Reaches
      <4> HIDE DEF W
      <4>4. i \in W BY DEF W
      <4> QED BY <4>1, <4>2, <4>3, <4>4 DEF Reaches
    <3>4. Gone(c, W) = Gone(c, V) \cup {j \in {i} : Strips(c, i)}
      BY <1>1, <1>4, StripsWhatIsGone DEF Gone
    <3>5. r.removed <=> Gone(c, W) # {} BY <2>5, <2>7, <3>1, <3>4
    <3> DEFINE K == (n .. L) \ GoneWords(c, V)
    <3>6. GoneWords(c, V) \subseteq n .. L
      <4>1. n \in Nat /\ V \in SUBSET (n .. Len(c) + 1) BY <1>1, <2>2, <3>2
      <4> QED BY <4>1, GoneInside
    <3>7. Keeps(r.words, c, (i .. L) \ GoneWords(c, W))
      <4>1. CASE Strips(c, i)
        <5>1. n = i + 2 BY <4>1 DEF n, Strips
        <5>2. GoneWords(c, W) = {i, i + 1} \cup GoneWords(c, V)
          BY <3>4, <4>1 DEF GoneWords
        <5>3. (i .. L) \ {i, i + 1} = n .. L
          <6> HIDE DEF L
          <6> QED BY <1>1, <5>1
        <5>4. (i .. L) \ GoneWords(c, W) = K BY <5>2, <5>3
        <5> QED BY <2>7, <3>1, <4>1, <5>4
      <4>2. CASE ~ Strips(c, i)
        <5>1. GoneWords(c, W) = GoneWords(c, V) BY <3>4, <4>2 DEF GoneWords
        <5>2. (i .. L) \ GoneWords(c, W) = (i .. n - 1) \cup K BY <1>1, <2>2, <3>6, <5>1
        <5>3. rest.words \in Seq(Nat) /\ K \in SUBSET (n .. L) BY <2>5
        <5>4. Keeps(rest.words, c, K) BY <3>1
        <5> HIDE DEF K
        <5>5. Keeps(SubSeq(c, i, n - 1) \o rest.words, c, (i .. n - 1) \cup K)
          BY <1>1, <2>2, <5>3, <5>4, KeepsInFront
        <5> QED BY <2>7, <4>2, <5>2, <5>5
      <4> QED BY <4>1, <4>2
    <3> HIDE DEF W
    <3> QED BY <2>1, <2>7, <2>10, <3>3, <3>5, <3>7 DEF Right
  <2> QED BY <2>5, <2>9, <2>10
<1> QED BY <1>3, <1>4

LEMMA LoopIsRight ==
  ASSUME NEW c \in Seq(Nat), Len(c) >= HeaderSize
  PROVE  Right(c, HeaderSize + 1, Loop(c))
<1> DEFINE L == Len(c)
           f == From(c)
           S == {i \in 1 .. L + 1 : i >= HeaderSize + 1 => Right(c, i, f[i])}
<1>1. L \in Nat /\ HeaderSize + 1 \in 1 .. L + 1 BY LenProperties DEF HeaderSize
<1>2. \A i \in 1 .. L + 1 : f[i] = Body(c, f, i) BY LoopUnfolds
<1> HIDE DEF f
<1>3. L + 1 \in S
  <2> DEFINE r == [failed |-> FALSE, removed |-> FALSE, words |-> <<>>]
  <2>1. f[L + 1] = r
    <3>1. f[L + 1] = Body(c, f, L + 1) BY <1>1, <1>2
    <3> QED BY <1>1, <3>1 DEF Body
  <2>2. r \in [failed : BOOLEAN, removed : BOOLEAN, words : Seq(Nat)] BY EmptySeq
  <2>3. Reaches(c, L + 1, {L + 1}) BY <1>1 DEF Reaches, Closed
  <2>4. Gone(c, {L + 1}) = {} BY DEF Gone
  <2>5. (L + 1 .. L) \ GoneWords(c, {L + 1}) = {} BY <1>1
  <2>6. Keeps(r.words, c, (L + 1 .. L) \ GoneWords(c, {L + 1})) BY <2>5, KeepsNothing
  <2>7. Right(c, L + 1, r)
    <3> QED BY <2>2, <2>3, <2>4, <2>6 DEF Right
  <2> QED BY <1>1, <2>1, <2>7
<1>4. ASSUME NEW i \in 1 .. L, \A j \in i + 1 .. L + 1 : j \in S PROVE i \in S
  <2>1. ASSUME i >= HeaderSize + 1 PROVE Right(c, i, f[i])
    <3>1. i \in HeaderSize + 1 .. L BY <1>1, <2>1
    <3>2. \A n \in i + 1 .. L + 1 : Right(c, n, f[n]) BY <1>1, <1>4, <2>1 DEF HeaderSize
    <3>3. Right(c, i, Body(c, f, i)) BY <3>1, <3>2, IterationIsRight
    <3>4. f[i] = Body(c, f, i) BY <1>1, <1>2
    <3> QED BY <3>3, <3>4
  <2> QED BY <1>1, <2>1
<1> HIDE DEF S
<1>5. 1 .. L + 1 \subseteq S BY <1>1, <1>3, <1>4, DownwardInduction
<1>6. HeaderSize + 1 \in S BY <1>1, <1>5
<1>7. Right(c, HeaderSize + 1, f[HeaderSize + 1]) BY <1>1, <1>6 DEF S, HeaderSize
<1> QED BY <1>7, LoopUnfolds DEF f

LEMMA StrippedKeeps ==
  ASSUME NEW c \in Seq(Nat)
  PROVE  IF WellFormed(c) THEN WithoutCapability(Stripped(c), c) ELSE Stripped(c) = c
<1> DEFINE L == Len(c)
<1>1. CASE Len(c) < HeaderSize
  <2>1. ~ (Len(c) >= HeaderSize) BY <1>1, LenProperties DEF HeaderSize
  <2> QED BY <1>1, <2>1 DEF WellFormed, Stripped
<1>2. CASE Len(c) >= HeaderSize
  <2>1. Right(c, HeaderSize + 1, Loop(c)) BY <1>2, LoopIsRight
  <2>2. \A T : Starts(c, T) <=> HeaderSize + 1 \in T /\ Closed(c, T) BY DEF Starts, Closed
  <2>3. L \in Nat /\ ~(L < HeaderSize) /\ Places(c) = HeaderSize + 1 .. L + 1
    BY <1>2, LenProperties DEF HeaderSize, Places
  <2>4. CASE Loop(c).failed
    <3>1. ~ WellFormed(c) BY <2>1, <2>2, <2>4 DEF Right, WellFormed
    <3> QED BY <2>4, <3>1 DEF Stripped
  <2>5. CASE ~ Loop(c).failed
    <3>1. PICK V : /\ Reaches(c, HeaderSize + 1, V)
                   /\ Loop(c).removed <=> Gone(c, V) # {}
                   /\ Keeps(Loop(c).words, c, (HeaderSize + 1 .. L) \ GoneWords(c, V))
      BY <2>1, <2>5 DEF Right
    <3>2. V \in SUBSET Places(c) /\ Starts(c, V) BY <2>2, <2>3, <3>1 DEF Reaches
    <3>3. \A T \in SUBSET Places(c) : Starts(c, T) => V \subseteq T
      BY <2>2, <3>1 DEF Reaches
    <3>4. WellFormed(c) BY <1>2, <3>2 DEF WellFormed
    <3>5. Unwanted(c) = GoneWords(c, V)
      <4> DEFINE Least(S) == Starts(c, S) /\ \A T \in SUBSET Places(c) : Starts(c, T) => S \subseteq T
                 S == CHOOSE S \in SUBSET Places(c) : Least(S)
      <4>1. S \in SUBSET Places(c) /\ Least(S) BY <3>2, <3>3
      <4> HIDE DEF S
      <4>2. S = V BY <3>2, <3>3, <4>1
      <4>3. Unwanted(c) = GoneWords(c, S) BY DEF Unwanted, GoneWords, Gone, S
      <4> QED BY <4>2, <4>3
    <3>6. V \subseteq HeaderSize + 1 .. L + 1 BY <3>1 DEF Reaches
    <3>7. GoneWords(c, V) \subseteq HeaderSize + 1 .. L
      <4>1. HeaderSize + 1 \in Nat BY DEF HeaderSize
      <4> QED BY <3>6, <4>1, GoneInside
    <3>8. CASE Loop(c).removed
      <4> DEFINE K == (HeaderSize + 1 .. L) \ GoneWords(c, V)
      <4>1. Stripped(c) = SubSeq(c, 1, HeaderSize) \o Loop(c).words
        BY <2>3, <2>5, <3>8 DEF Stripped
      <4>2. 1 .. L \ GoneWords(c, V) = (1 .. HeaderSize) \cup K
        BY <2>3, <3>7 DEF HeaderSize
      <4>3. Keeps(Loop(c).words, c, K) BY <3>1
      <4>4. GoneWords(c, V) # {} BY <3>1, <3>8 DEF GoneWords
      <4>5. L > HeaderSize BY <2>3, <3>7, <4>4 DEF HeaderSize
      <4>6. 1 \in 1 .. L /\ HeaderSize + 1 \in 1 + 1 .. L + 1 /\ (HeaderSize + 1) - 1 = HeaderSize
        BY <2>3, <4>5 DEF HeaderSize
      <4>7. K \in SUBSET (HeaderSize + 1 .. L) /\ Loop(c).words \in Seq(Nat)
        BY <2>1 DEF Right
      <4> HIDE DEF K
      <4>8. Keeps(SubSeq(c, 1, (HeaderSize + 1) - 1) \o Loop(c).words, c,
                  (1 .. (HeaderSize + 1) - 1) \cup K)
        BY <4>3, <4>6, <4>7, KeepsInFront
      <4> QED BY <3>4, <3>5, <4>1, <4>2, <4>6, <4>8 DEF WithoutCapability
    <3>9. CASE ~ Loop(c).removed
      <4>1. Stripped(c) = c BY <3>9 DEF Stripped
      <4>2. GoneWords(c, V) = {} BY <3>1, <3>9 DEF GoneWords
      <4>3. 1 .. L \ Unwanted(c) = 1 .. L BY <3>5, <4>2
      <4> QED BY <3>4, <4>1, <4>3, KeepsAll DEF WithoutCapability
    <3> QED BY <3>8, <3>9
  <2> QED BY <2>4, <2>5
<1>3. Len(c) \in Nat BY LenProperties
<1> QED BY <1>1, <1>2, <1>3 DEF HeaderSize

---------------------------------------------------------------------------
(* The modules.                                                            *)

ModulesInv ==
  /\ DOMAIN code = Modules /\ DOMAIN handed = Modules
  /\ OnlyTheCapabilityIsStripped

LEMMA InitModulesInv == Init => ModulesInv
<1> SUFFICES ASSUME Init PROVE ModulesInv OBVIOUS
<1>1. ~ WellFormed(<<>>) BY DEF WellFormed, HeaderSize
<1> QED BY <1>1 DEF Init, ModulesInv, OnlyTheCapabilityIsStripped

LEMMA CreateModuleKeepsModulesInv ==
  ASSUME ModulesInv, NEW m \in Modules, NEW c \in Codes, CreateModule(m, c)
  PROVE  ModulesInv'
<1>1. c \in Seq(Nat) BY CodesAreWords
<1>2. /\ code' = [code EXCEPT ![m] = c] /\ handed' = [handed EXCEPT ![m] = Stripped(c)]
      /\ DOMAIN code = Modules /\ DOMAIN handed = Modules
  BY DEF CreateModule, ModulesInv
<1>3. ASSUME NEW n \in Modules
      PROVE  IF WellFormed(code'[n]) THEN WithoutCapability(handed'[n], code'[n])
             ELSE handed'[n] = code'[n]
  <2>1. CASE n = m BY <1>1, <1>2, <2>1, StrippedKeeps
  <2>2. CASE n # m
    <3>1. code'[n] = code[n] /\ handed'[n] = handed[n] BY <1>2, <2>2
    <3> QED BY <3>1 DEF ModulesInv, OnlyTheCapabilityIsStripped
  <2> QED BY <2>1, <2>2
<1>4. DOMAIN code' = Modules /\ DOMAIN handed' = Modules BY <1>2
<1> QED BY <1>3, <1>4 DEF ModulesInv, OnlyTheCapabilityIsStripped

LEMMA OthersKeepModulesInv ==
  ASSUME ModulesInv, UNCHANGED moduleVars
  PROVE  ModulesInv'
  BY DEF moduleVars, ModulesInv, OnlyTheCapabilityIsStripped

LEMMA NextKeepsModulesInv == ModulesInv /\ [Next]_vars => ModulesInv'
<1> SUFFICES ASSUME ModulesInv, [Next]_vars PROVE ModulesInv' OBVIOUS
<1>1. CASE \E m \in Modules, c \in Codes : CreateModule(m, c)
  BY <1>1, CreateModuleKeepsModulesInv
<1>2. CASE \E e \in EntryPoints :
              \/ \E u \in GeneralUses : CreateGeneral(u, e)
              \/ \E c \in Computes : CreateCompute(c, e)
              \/ \E u \in HitUses \cap Given : SetProgram(u, e)
              \/ \E t \in {t \in GeomTypes : <<t, Compute>> \in Given} : SetBoundsProg(t, e)
  <2>1. UNCHANGED moduleVars
    BY <1>2 DEF CreateGeneral, CreateCompute, SetProgram, SetBoundsProg, Get, MakeCompute, Ask
  <2> QED BY <2>1, OthersKeepModulesInv
<1>3. CASE \E t \in GeomTypes : CreateGeomType(t)
  BY <1>3, OthersKeepModulesInv DEF CreateGeomType
<1>4. CASE Build \/ BuildThrows
  BY <1>4, OthersKeepModulesInv DEF Build, BuildThrows
<1>5. CASE UNCHANGED vars
  BY <1>5, OthersKeepModulesInv DEF vars
<1> QED BY <1>1, <1>2, <1>3, <1>4, <1>5 DEF Next

\* stripStoragePushConstant8() and the constructor of ShaderModule: whatever the
\* code, the driver is given its words in order without the declarations of the
\* capability, or the code as it is if it does not fall into instructions.
THEOREM OnlyTheCapabilityIsEverStripped == Spec => []OnlyTheCapabilityIsStripped
<1>1. ModulesInv => OnlyTheCapabilityIsStripped BY DEF ModulesInv
<1> QED BY <1>1, InitModulesInv, NextKeepsModulesInv, PTL DEF Spec
=============================================================================
