-------------------------- MODULE DescriptorTables --------------------------
(***************************************************************************)
(* Images, samplers and the descriptor sets through which shaders see      *)
(* them.  An object's slot in its IndexedListOf is its index in the        *)
(* texture2Ds[] or samplers[] array of the device code; RTPipeline::build  *)
(* writes both lists into descriptor sets, a launch binds these, and a     *)
(* texture object packs the two indices of a sampler and its image into a  *)
(* word that tex2D() takes apart again.                                    *)
(***************************************************************************)
EXTENDS Integers, SequencesExt, FiniteSetsExt, DescriptorSets

CONSTANTS
  Images, Samplers,              \* what the application may create
  DefaultImage, DefaultSampler,  \* what the context creates for itself
  Null,                          \* the null pointer, and the empty descriptor
  Garbage,                       \* a descriptor read from freed memory
  Formats,                       \* VKNTexelFormat
  Handled,                       \* the formats toVulkan() has a case for
  HalfWord,                      \* 2^32, the weight of the image in a texture object
  MaxBuilds                      \* bound on the pipeline builds

AllImages == Images \cup {DefaultImage}
AllSamplers == Samplers \cup {DefaultSampler}

ASSUME FormatsAreKnown == Handled \subseteq Formats
ASSUME ObjectsDiffer ==
  /\ DefaultImage \notin Images /\ DefaultSampler \notin Samplers
  /\ AllImages \cap AllSamplers = {} /\ Null \notin AllImages \cup AllSamplers
ASSUME HalvesDoNotOverlap == HalfWord \in Nat \ {0}
ASSUME BuildsAreBounded == MaxBuilds \in Nat

VARIABLES
  imageData, imageFreeIDs, imageID,        \* rtPipeline.image2Ds.objects
  samplerData, samplerFreeIDs, samplerID,  \* rtPipeline.samplers.objects
  imageDS, samplerDS,  \* the trio of each DSHelper
  live,                \* the images and samplers that are constructed
  image,               \* Sampler::image, Null while not constructed
  appUseCount,         \* the objects the context holds for the application
  asked,               \* the format vknImage2DCreate() was called with
  builds,              \* pipeline builds so far
  phase                \* "new", "running", "terminating", "ended"

imageVars == <<imageData, imageFreeIDs, imageID>>
samplerVars == <<samplerData, samplerFreeIDs, samplerID>>
vars == <<imageVars, samplerVars, imageDS, samplerDS, live, image, appUseCount, asked,
          builds, phase>>

ImageList == INSTANCE IndexedList WITH
  Objects <- AllImages, data <- imageData, freeIDs <- imageFreeIDs, ID <- imageID
SamplerList == INSTANCE IndexedList WITH
  Objects <- AllSamplers, data <- samplerData, freeIDs <- samplerFreeIDs, ID <- samplerID

---------------------------------------------------------------------------
Init ==
  /\ ImageList!Init /\ SamplerList!Init
  /\ imageDS = NewTrio /\ samplerDS = NewTrio
  /\ live = {}
  /\ image = [s \in AllSamplers |-> Null]
  /\ appUseCount = {}
  /\ asked = [i \in Images |-> Null]
  /\ builds = 0
  /\ phase = "new"

\* Mutant: the default objects are left for the first use.
ConstructWithoutDefaults ==
  /\ phase = "new"
  /\ phase' = "running"
  /\ UNCHANGED <<imageVars, samplerVars, imageDS, samplerDS, live, image, appUseCount, asked,
                 builds>>

\* Context::Context(): the default objects come first, so that they get the
\* IDs 0 and neither list is empty when a set is built from it.
Construct ==
  /\ phase = "new"
  /\ ImageList!Track(DefaultImage)
  /\ SamplerList!Track(DefaultSampler)
  /\ live' = {DefaultImage, DefaultSampler}
  /\ image' = [image EXCEPT ![DefaultSampler] = DefaultImage]
  /\ phase' = "running"
  /\ UNCHANGED <<imageDS, samplerDS, appUseCount, asked, builds>>

---------------------------------------------------------------------------
(* The calls of the application.                                           *)

\* Mutant: the application is given the image although it failed.
CreateImageAnyhow(i, format) ==
  /\ phase = "running" /\ asked[i] = Null
  /\ asked' = [asked EXCEPT ![i] = format]
  /\ ImageList!Track(i)
  /\ appUseCount' = appUseCount \cup {i}
  /\ live' = IF format \in Handled THEN live \cup {i} ELSE live
  /\ UNCHANGED <<samplerVars, imageDS, samplerDS, image, builds, phase>>

\* vknImage2DCreate().  The ID is taken before the format is looked at.  When
\* toVulkan() throws, the memory of the image is freed but ~Image does not run:
\* the slot keeps its pointer, and the call returns null.
CreateImage(i, format) ==
  /\ phase = "running" /\ asked[i] = Null
  /\ asked' = [asked EXCEPT ![i] = format]
  /\ ImageList!Track(i)
  /\ IF format \in Handled
     THEN live' = live \cup {i} /\ appUseCount' = appUseCount \cup {i}
     ELSE UNCHANGED <<live, appUseCount>>
  /\ UNCHANGED <<samplerVars, imageDS, samplerDS, image, builds, phase>>

\* vknSampler2DCreate(): the sampler shares its image.
CreateSampler(s, i) ==
  /\ phase = "running" /\ s \notin live /\ i \in live
  /\ SamplerList!Track(s)
  /\ live' = live \cup {s}
  /\ image' = [image EXCEPT ![s] = i]
  /\ appUseCount' = appUseCount \cup {s}
  /\ UNCHANGED <<imageVars, imageDS, samplerDS, asked, builds, phase>>

\* The slots whose pointer leads to memory that was freed.
Strays(data) == {n \in DOMAIN data : data[n] \notin live \cup {Null}}

\* What createDS() reads through a stray pointer: garbage, or the descriptor of
\* an image that was created in the freed memory since.
Readings(data) == [Strays(data) -> {Garbage} \cup (Images \cap live)]

Descriptors(data, reading) ==
  [n \in DOMAIN data |-> IF n \in Strays(data) THEN reading[n] ELSE data[n]]

\* Mutant: the layout keeps its size.
CreateLayoutOnce(d, data) ==
  IF d.layout = 0 THEN LayoutCreate(d, Max({1, Len(data)})) ELSE d

CreateLayout(d, data) == LayoutCreate(d, Max({1, Len(data)}))

\* Mutant: the pool goes before the set.
CreateDSPoolFirst(d, data, reading) ==
  SetCreate(PoolCreate(PoolDestroy(d), builds + 1, Len(data)), Descriptors(data, reading))

\* DSHelper::createDS().  dsSize stays 0, so that it always starts over.
CreateDS(d, data, reading) ==
  SetCreate(PoolCreate(PoolDestroy(SetFree(d)), builds + 1, Len(data)),
            Descriptors(data, reading))

\* Mutant: only the first build writes the images.
BuildPipelineImagesOnce ==
  /\ phase = "running" /\ builds < MaxBuilds
  /\ builds' = builds + 1
  /\ \E reading \in Readings(samplerData) :
       samplerDS' = CreateDS(CreateLayout(samplerDS, samplerData), samplerData, reading)
  /\ IF imageDS.allocated
     THEN UNCHANGED imageDS
     ELSE \E reading \in Readings(imageData) :
            imageDS' = CreateDS(CreateLayout(imageDS, imageData), imageData, reading)
  /\ UNCHANGED <<imageVars, samplerVars, live, image, appUseCount, asked, phase>>

\* vknBuildPipeline(), the descriptor half of RTPipeline::build(); the pools of
\* the k-th build have the handle k.
BuildPipeline ==
  /\ phase = "running" /\ builds < MaxBuilds
  /\ builds' = builds + 1
  /\ \E reading \in Readings(samplerData) :
       samplerDS' = CreateDS(CreateLayout(samplerDS, samplerData), samplerData, reading)
  /\ \E reading \in Readings(imageData) :
       imageDS' = CreateDS(CreateLayout(imageDS, imageData), imageData, reading)
  /\ UNCHANGED <<imageVars, samplerVars, live, image, appUseCount, asked, phase>>

---------------------------------------------------------------------------
(* vknTerminate().                                                         *)

Terminate ==
  /\ phase = "running"
  /\ phase' = "terminating"
  /\ UNCHANGED <<imageVars, samplerVars, imageDS, samplerDS, live, image, appUseCount, asked,
                 builds>>

\* The images some sampler still holds once the samplers in gone are dead.
Held(gone) == {image[s] : s \in (AllSamplers \cap live) \ gone}

\* Context::terminate() drops the references in the order of a map of
\* pointers, that is in any order.
DropImage(i) ==
  /\ phase = "terminating" /\ i \in appUseCount
  /\ appUseCount' = appUseCount \ {i}
  /\ IF i \in Held({})
     THEN UNCHANGED <<live, imageVars>>
     ELSE live' = live \ {i} /\ ImageList!Forget(i)
  /\ UNCHANGED <<samplerVars, imageDS, samplerDS, image, asked, builds, phase>>

\* Mutant: the sampler takes its image along whoever else holds it.
DropSamplerAndImage(s) ==
  /\ phase = "terminating" /\ s \in appUseCount
  /\ appUseCount' = appUseCount \ {s}
  /\ image' = [image EXCEPT ![s] = Null]
  /\ SamplerList!Forget(s)
  /\ live' = live \ {s, image[s]}
  /\ ImageList!Forget(image[s])
  /\ UNCHANGED <<imageDS, samplerDS, asked, builds, phase>>

\* Mutant: the sampler's reference does not keep count.
DropSamplerOnly(s) ==
  /\ phase = "terminating" /\ s \in appUseCount
  /\ appUseCount' = appUseCount \ {s}
  /\ image' = [image EXCEPT ![s] = Null]
  /\ SamplerList!Forget(s)
  /\ live' = live \ {s}
  /\ UNCHANGED <<imageVars, imageDS, samplerDS, asked, builds, phase>>

\* ~Sampler, and ~Image after it when nothing else holds the image.
DropSampler(s) ==
  /\ phase = "terminating" /\ s \in appUseCount
  /\ appUseCount' = appUseCount \ {s}
  /\ image' = [image EXCEPT ![s] = Null]
  /\ SamplerList!Forget(s)
  /\ IF image[s] \in appUseCount \cup Held({s})
     THEN live' = live \ {s} /\ UNCHANGED imageVars
     ELSE live' = live \ {s, image[s]} /\ ImageList!Forget(image[s])
  /\ UNCHANGED <<imageDS, samplerDS, asked, builds, phase>>

\* ~DSHelper: destroy(), then the destructors of its members.
DestroyHelper(d) == LayoutDestroy(PoolDestroy(SetFree(d)))

\* ~Context, when the self reference goes: the default sampler, the default
\* image, and ~RTPipeline with its two DSHelpers.
EndContext ==
  /\ phase = "terminating" /\ appUseCount = {}
  /\ phase' = "ended"
  /\ SamplerList!Forget(DefaultSampler)
  /\ ImageList!Forget(DefaultImage)
  /\ image' = [image EXCEPT ![DefaultSampler] = Null]
  /\ live' = live \ {DefaultSampler, DefaultImage}
  /\ imageDS' = DestroyHelper(imageDS)
  /\ samplerDS' = DestroyHelper(samplerDS)
  /\ UNCHANGED <<appUseCount, asked, builds>>

Next ==
  \/ Construct
  \/ \E i \in Images, format \in Formats : CreateImage(i, format)
  \/ \E s \in Samplers, i \in Images : CreateSampler(s, i)
  \/ BuildPipeline
  \/ Terminate
  \/ \E i \in Images : DropImage(i)
  \/ \E s \in Samplers : DropSampler(s)
  \/ EndContext

Spec == Init /\ [][Next]_vars
---------------------------------------------------------------------------
(* Texture objects.                                                        *)

\* Mutant: the image in the low half.
PackedBackwards(s) == imageID[image[s]] + HalfWord * samplerID[s]

\* vknSamplerGetObject()
TextureObject(s) == samplerID[s] + HalfWord * imageID[image[s]]

\* What tex2D() samples: the entries of the bound sets at the two halves of the
\* texture object.
Sampled(object) ==
  <<samplerDS.written[(object % HalfWord) + 1], imageDS.written[(object \div HalfWord) + 1]>>

---------------------------------------------------------------------------
(* Properties.                                                             *)

TypeOK ==
  /\ ImageList!TypeOK /\ SamplerList!TypeOK
  /\ imageDS \in TypeOfTrio(1 .. MaxBuilds, AllImages \cup {Null, Garbage})
  /\ samplerDS \in TypeOfTrio(1 .. MaxBuilds, AllSamplers \cup {Null, Garbage})
  /\ live \subseteq AllImages \cup AllSamplers
  /\ image \in [AllSamplers -> AllImages \cup {Null}]
  /\ appUseCount \subseteq live
  /\ asked \in [Images -> Formats \cup {Null}]
  /\ builds \in 0 .. MaxBuilds
  /\ phase \in {"new", "running", "terminating", "ended"}

\* IndexedListOf: an object's ID leads back to it and no slot is on the stack of
\* free IDs twice, though images leave their slots to strays when they fail to
\* construct and come and go between the samplers.
ListsAreIndexed == ImageList!Indexed /\ SamplerList!Indexed

\* "we can use the value '0' to indicate 'invalid image/sampler'": no object of
\* the application ever has the ID 0, so that no texture object is null.
ZeroIsInvalid ==
  /\ \A i \in Images : imageID[i] # 0
  /\ \A s \in Samplers : samplerID[s] # 0
  /\ \A s \in Samplers \cap live : TextureObject(s) # 0

\* What a texture object names is what the shader samples: a sampler that is in
\* the bound set comes with its image in the images set, and the texture object
\* leads to the very sampler and image the application made it from, although
\* images and samplers were created, failed to be created and were built into
\* sets in any order.
TextureObjectsSample ==
  phase = "running" =>
    \A s \in Samplers \cap live :
      samplerID[s] < Len(samplerDS.written) =>
        /\ imageID[image[s]] < Len(imageDS.written)
        /\ Sampled(TextureObject(s)) = <<s, image[s]>>

\* A set is as long as its layout says and its pool can hold it; in particular
\* neither is empty, which Vulkan would refuse.  And no set is ever freed from a
\* pool that was destroyed before it.
SetsAgreeWithTheirPools ==
  /\ SetFitsPool(imageDS) /\ SetFitsPool(samplerDS)
  /\ ~ imageDS.strayFree /\ ~ samplerDS.strayFree

\* A sampler's image lives as long as the sampler, in whatever order terminate()
\* drops the references.
SamplersKeepTheirImage == \A s \in AllSamplers \cap live : image[s] \in live

\* When the context is gone nothing is left of what it and the application
\* created in it.
NothingLeft ==
  phase = "ended" =>
    live = {} /\ NothingAllocated(imageDS) /\ NothingAllocated(samplerDS)
=============================================================================
