---------------------------- MODULE DeviceQueue ----------------------------
(***************************************************************************)
(* One logical device as two processes: the host, a single thread that     *)
(* works through one call of the API after another, and the GPU, which     *)
(* executes what was submitted to the queue whenever it likes.  All calls  *)
(* of all contexts record into the one command buffer the device has, and  *)
(* share memory with the GPU without any other synchronisation than        *)
(* vkQueueWaitIdle().                                                      *)
(*                                                                         *)
(* A call is the sequence of its steps: buffers created, written by the    *)
(* host and destroyed, commands recorded, submitted and waited for.  The   *)
(* scene is one user geometry accel over all geometries, one triangles     *)
(* accel over an application's buffer, and an instance accel over both.    *)
(***************************************************************************)
EXTENDS Integers, SequencesExt

CONSTANTS
  NumGeoms,  \* the geometries of the user geometry accel
  Values,    \* what the application writes into geometries, vertices and texels
  Garbage    \* the content of memory nobody wrote yet, or that was given back

ASSUME NumGeomsAssumption == NumGeoms \in Nat \ {0}

Geoms == 1 .. NumGeoms

ASSUME GarbageIsNoValue ==
  Garbage \notin Values \cup [Geoms -> Values \cup {Garbage}]

AppBuffers == {"vertices", "frame"}
Buffers == AppBuffers \cup {"geomData", "bounds", "scratch", "instances", "userAccel",
  "trianglesAccel", "instanceAccel", "hitGroupRecords", "image"}
Kernels == {"barrier", "bounds", "userAccel", "trianglesAccel", "instanceAccel", "image", "trace"}

VARIABLES
  data,           \* Geom::data of each geometry
  todo,           \* the steps left of the call in progress
  commandBuffer,  \* LogicalDevice::commandBuffer: its state, and its command
  pending,        \* commands submitted and not yet executed
  alive,          \* the buffers that exist
  contents,       \* the device memory of each buffer
  wanted,         \* ghost: what the calls made so far should have left in each buffer
  linked          \* ghost: the instance accel was built after the accels below it

vars == <<data, todo, commandBuffer, pending, alive, contents, wanted, linked>>

Command(kernel, geom) == [kernel |-> kernel, geom |-> geom]
NoCommand == Command("barrier", 0)

\* What is read and what is written by a command while it executes.
Touched(command) ==
  CASE command.kernel = "barrier" -> {}
    [] command.kernel = "bounds" -> {"geomData", "bounds"}
    [] command.kernel = "userAccel" -> {"bounds", "scratch", "userAccel"}
    [] command.kernel = "trianglesAccel" -> {"vertices", "scratch", "trianglesAccel"}
    [] command.kernel = "instanceAccel" ->
         {"instances", "scratch", "instanceAccel", "userAccel", "trianglesAccel"}
    [] command.kernel = "image" -> {"image"}
    [] command.kernel = "trace" ->
         {"instanceAccel", "userAccel", "trianglesAccel", "hitGroupRecords", "frame"}

---------------------------------------------------------------------------
(* The steps of the host.                                                  *)

Step(do, buffer, value, command) ==
  [do |-> do, buffer |-> buffer, value |-> value, command |-> command]

Create(b) == <<Step("create", b, Garbage, NoCommand)>>
Destroy(b) == <<Step("destroy", b, Garbage, NoCommand)>>
Upload(b, v) == <<Step("upload", b, v, NoCommand)>>
Record(command) ==
  <<Step("begin", "", Garbage, NoCommand), Step("record", "", Garbage, command),
    Step("end", "", Garbage, NoCommand)>>
Submit == <<Step("submit", "", Garbage, NoCommand)>>
Wait == <<Step("wait", "", Garbage, NoCommand)>>

\* How every command gets to the GPU.
Submission(command) == Record(command) \o Submit \o Wait

\* Mutant: the barrier is taken to be enough, nothing is waited for.
ComputeLaunchWithoutWait(command) ==
  Record(command) \o Submit \o Record(Command("barrier", 0)) \o Submit

\* Compute::launch(), and Context::launch() alike.
ComputeLaunch(command) == Submission(command) \o Submission(Command("barrier", 0))

\* Accel::destroyAccel().  A buffer replaced through its shared pointer is made
\* before the old one goes: from then on the name means the new one.
DestroyIfAlive(b) == IF b \in alive THEN Destroy(b) ELSE <<>>

\* Mutant: scratch goes while the build may still run.
BuildAccelScratchFirst(b) ==
  Create("scratch") \o Create(b) \o Record(Command(b, 0)) \o Submit \o Destroy("scratch") \o Wait

\* The second half of every build().
BuildAccel(b) ==
  Create("scratch") \o Create(b) \o Submission(Command(b, 0)) \o Destroy("scratch")

\* The loop over the bounds kernels of the geometries, from geometry g on.
BoundsFrom(g) ==
  IF g \in Geoms THEN <<Step("loop", "geomData", Garbage, Command("bounds", g))>> ELSE <<>>

---------------------------------------------------------------------------
(* The calls of the application.                                           *)

Call(steps, b, value) ==
  /\ todo = <<>>
  /\ todo' = steps
  /\ wanted' = [wanted EXCEPT ![b] = value]
  /\ UNCHANGED <<data, commandBuffer, pending, alive, contents>>

\* vknGeomSetData()
SetData(g, v) ==
  /\ todo = <<>>
  /\ data' = [data EXCEPT ![g] = v]
  /\ UNCHANGED <<todo, commandBuffer, pending, alive, contents, wanted, linked>>

\* vknBufferCreate() is followed by a first upload.
CreateBuffer(b, v) ==
  /\ b \notin alive
  /\ Call(Create(b) \o Upload(b, <<v>>), b, <<v>>)
  /\ UNCHANGED linked

\* vknBufferMap(), a store, vknBufferUnmap().
WriteBuffer(b, v) ==
  /\ b \in alive
  /\ Call(Upload(b, <<v>>), b, <<v>>)
  /\ UNCHANGED linked

\* vknBufferDestroy()
DestroyBuffer(b) ==
  /\ b \in alive
  /\ Call(Destroy(b), b, Garbage)
  /\ UNCHANGED linked

\* UserGeomAccel::build()
BuildUserGeomAccel ==
  /\ Call(DestroyIfAlive("userAccel") \o Create("geomData") \o Create("bounds") \o BoundsFrom(1)
            \o BuildAccel("userAccel") \o Destroy("bounds") \o Destroy("geomData"),
          "userAccel", data)
  /\ linked' = FALSE

\* TrianglesGeomAccel::build()
BuildTrianglesAccel ==
  /\ "vertices" \in alive
  /\ Call(DestroyIfAlive("trianglesAccel") \o BuildAccel("trianglesAccel"),
          "trianglesAccel", contents["vertices"])
  /\ linked' = FALSE

\* InstanceAccel::build(); the instances stay when it is done.
BuildInstanceAccel ==
  /\ {"userAccel", "trianglesAccel"} \subseteq alive
  /\ Call(DestroyIfAlive("instanceAccel") \o Create("instances")
            \o Upload("instances", "addresses") \o BuildAccel("instanceAccel"),
          "instanceAccel", "addresses")
  /\ linked' = TRUE

\* Context::buildSBT(), as far as the buffer of the hit group records goes; what
\* is in a record is the subject of ShaderTables.
BuildSBT ==
  /\ Call(Create("hitGroupRecords") \o Upload("hitGroupRecords", "records"),
          "hitGroupRecords", "records")
  /\ UNCHANGED linked

\* Image::Image(): texels are written by the host, the GPU changes the layout.
CreateImage ==
  /\ "image" \notin alive
  /\ Call(Create("image") \o Upload("image", "texels") \o Submission(Command("image", 0)),
          "image", "texels")
  /\ UNCHANGED linked

\* What a frame is computed from.
Traced ==
  <<contents["userAccel"], contents["trianglesAccel"], contents["instanceAccel"],
    contents["hitGroupRecords"]>>

\* Context::launch(), by an application that keeps to the order of the builds.
Launch ==
  /\ linked /\ {"hitGroupRecords", "frame"} \subseteq alive
  /\ Call(ComputeLaunch(Command("trace", 0)), "frame", Traced)
  /\ UNCHANGED linked

---------------------------------------------------------------------------
(* The host.                                                               *)

Do(what) == todo # <<>> /\ Head(todo).do = what /\ todo' = Tail(todo)

HostCreates ==
  /\ Do("create")
  /\ alive' = alive \cup {Head(todo).buffer}
  /\ contents' = [contents EXCEPT ![Head(todo).buffer] = Garbage]
  /\ UNCHANGED <<data, commandBuffer, pending, wanted, linked>>

\* Mutant: the handle goes, the memory does not.
HostDestroysHandle ==
  /\ Do("destroy")
  /\ alive' = alive \ {Head(todo).buffer}
  /\ UNCHANGED <<data, commandBuffer, pending, contents, wanted, linked>>

HostDestroys ==
  /\ Do("destroy")
  /\ alive' = alive \ {Head(todo).buffer}
  /\ contents' = [contents EXCEPT ![Head(todo).buffer] = Garbage]
  /\ UNCHANGED <<data, commandBuffer, pending, wanted, linked>>

HostWrites ==
  /\ Do("upload")
  /\ contents' = [contents EXCEPT ![Head(todo).buffer] = Head(todo).value]
  /\ UNCHANGED <<data, commandBuffer, pending, alive, wanted, linked>>

HostBegins ==
  /\ Do("begin")
  /\ commandBuffer' = [state |-> "recording", command |-> NoCommand]
  /\ UNCHANGED <<data, pending, alive, contents, wanted, linked>>

HostRecords ==
  /\ Do("record")
  /\ commandBuffer' = [commandBuffer EXCEPT !.command = Head(todo).command]
  /\ UNCHANGED <<data, pending, alive, contents, wanted, linked>>

HostEnds ==
  /\ Do("end")
  /\ commandBuffer' = [commandBuffer EXCEPT !.state = "executable"]
  /\ UNCHANGED <<data, pending, alive, contents, wanted, linked>>

HostSubmits ==
  /\ Do("submit")
  /\ pending' = Append(pending, commandBuffer.command)
  /\ UNCHANGED <<data, commandBuffer, alive, contents, wanted, linked>>

\* Mutant: the host waits for a signal that work done in time gives too early.
HostWaitsForWork ==
  /\ Do("wait") /\ pending # <<>>
  /\ UNCHANGED <<data, commandBuffer, pending, alive, contents, wanted, linked>>

\* vkQueueWaitIdle()
HostWaits ==
  /\ Do("wait") /\ pending = <<>>
  /\ UNCHANGED <<data, commandBuffer, pending, alive, contents, wanted, linked>>

\* One turn of the loop: all kernels are fed from one buffer.
HostLoops ==
  /\ todo # <<>> /\ Head(todo).do = "loop"
  /\ LET command == Head(todo).command
     IN  todo' = Upload("geomData", data[command.geom]) \o ComputeLaunch(command)
                   \o BoundsFrom(command.geom + 1) \o Tail(todo)
  /\ UNCHANGED <<data, commandBuffer, pending, alive, contents, wanted, linked>>

Host ==
  \/ HostCreates \/ HostDestroys \/ HostWrites
  \/ HostBegins \/ HostRecords \/ HostEnds \/ HostSubmits \/ HostWaits
  \/ HostLoops

---------------------------------------------------------------------------
(* The GPU.  Nothing orders two submissions, so that it may take any.      *)

Result(command) ==
  CASE command.kernel = "bounds" ->
         [contents EXCEPT !["bounds"] =
            [g \in Geoms |-> IF g = command.geom THEN contents["geomData"]
                             ELSE IF @ = Garbage THEN Garbage ELSE @[g]]]
    [] command.kernel = "userAccel" -> [contents EXCEPT !["userAccel"] = contents["bounds"]]
    [] command.kernel = "trianglesAccel" ->
         [contents EXCEPT !["trianglesAccel"] = contents["vertices"]]
    [] command.kernel = "instanceAccel" ->
         [contents EXCEPT !["instanceAccel"] = contents["instances"]]
    [] command.kernel = "trace" -> [contents EXCEPT !["frame"] = Traced]
    [] OTHER -> contents

Execute ==
  \E n \in DOMAIN pending :
    /\ contents' = Result(pending[n])
    /\ pending' = RemoveAt(pending, n)
    /\ UNCHANGED <<data, todo, commandBuffer, alive, wanted, linked>>

---------------------------------------------------------------------------
Init ==
  /\ data \in [Geoms -> Values]
  /\ todo = <<>>
  /\ commandBuffer = [state |-> "initial", command |-> NoCommand]
  /\ pending = <<>>
  /\ alive = {}
  /\ contents = [b \in Buffers |-> Garbage]
  /\ wanted = [b \in Buffers |-> Garbage]
  /\ linked = FALSE

Application ==
  \/ \E g \in Geoms, v \in Values : SetData(g, v)
  \/ \E b \in AppBuffers, v \in Values : CreateBuffer(b, v) \/ WriteBuffer(b, v)
  \/ \E b \in AppBuffers : DestroyBuffer(b)
  \/ BuildUserGeomAccel \/ BuildTrianglesAccel \/ BuildInstanceAccel
  \/ CreateImage
  \/ BuildSBT \/ Launch

Next == Application \/ Host \/ Execute

\* A call of the API does not stop halfway, and the GPU gets to the end of what
\* it was given; nothing makes the application call again.
Spec == Init /\ [][Next]_vars /\ WF_vars(Host) /\ WF_vars(Execute)
---------------------------------------------------------------------------
(* Properties.                                                             *)

TypeOK ==
  /\ data \in [Geoms -> Values]
  /\ commandBuffer.state \in {"initial", "recording", "executable"}
  /\ \A n \in DOMAIN pending : pending[n].kernel \in Kernels /\ pending[n].geom \in 0 .. NumGeoms
  /\ alive \subseteq Buffers
  /\ \A b \in Buffers \ alive : contents[b] = Garbage
  /\ DOMAIN contents = Buffers /\ DOMAIN wanted = Buffers
  /\ linked \in BOOLEAN

\* When a call returns, every buffer that is left holds what the calls made so
\* far ask for.  In particular the boxes of each geometry were computed from its
\* own data, although all of them went through one buffer (UserGeom.cpp:75).
ResultsAreThoseAskedFor ==
  todo = <<>> => \A b \in alive \ {"instances"} : contents[b] = wanted[b]

\* While anything is submitted and not done, the command buffer is not being
\* recorded and all that a submitted command uses exists; and until the GPU has
\* executed it the host neither records, nor creates, writes, replaces or
\* destroys a buffer.
WorkIsUndisturbed ==
  /\ [](pending # <<>> =>
          /\ commandBuffer.state # "recording"
          /\ \A n \in DOMAIN pending : Touched(pending[n]) \subseteq alive)
  /\ [][pending # <<>> /\ ~ Execute => UNCHANGED <<commandBuffer, alive, contents>>]_vars

\* Every call returns.
CallsReturn == todo # <<>> ~> todo = <<>>
=============================================================================
