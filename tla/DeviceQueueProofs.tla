------------------------- MODULE DeviceQueueProofs -------------------------
(***************************************************************************)
(* Proofs about the queue of a logical device, for any number of           *)
(* geometries and any data in them: the host never touches what the GPU is *)
(* working on, and when a call returns every buffer holds what was asked   *)
(* for, whatever the GPU did when.                                         *)
(*                                                                         *)
(* The argument is a prediction.  Whatever is left of a call leads, with   *)
(* the GPU at work only while the host waits, to a machine that rests with *)
(* the wanted contents; every step of the host is the first step of that   *)
(* prediction, and a step of the GPU anticipates a part of it.             *)
(***************************************************************************)
EXTENDS DeviceQueue, SequenceTheorems, TLAPS

---------------------------------------------------------------------------
(* The machine a call runs on.                                             *)

Machine(a, c, b, p) == [alive |-> a, contents |-> c, commandBuffer |-> b, pending |-> p]
Idle(a, c, b) == Machine(a, c, b, <<>>)
Now == Machine(alive, contents, commandBuffer, pending)

Buffering(state, command) == [state |-> state, command |-> command]

Commands == [kernel : Kernels, geom : 0 .. NumGeoms]
CommandBuffers == [state : {"initial", "recording", "executable"}, command : Commands]

StepValues ==
  {Garbage, "addresses", "records", "texels"} \cup Values \cup {<<v>> : v \in Values}

Steps == [do : {"create", "destroy", "upload", "begin", "record", "end", "submit", "wait", "loop"},
          buffer : Buffers \cup {""}, value : StepValues, command : Commands]

\* Result(), of any contents.
ResultOn(c, command) ==
  CASE command.kernel = "bounds" ->
         [c EXCEPT !["bounds"] =
            [g \in Geoms |-> IF g = command.geom THEN c["geomData"]
                             ELSE IF @ = Garbage THEN Garbage ELSE @[g]]]
    [] command.kernel = "userAccel" -> [c EXCEPT !["userAccel"] = c["bounds"]]
    [] command.kernel = "trianglesAccel" -> [c EXCEPT !["trianglesAccel"] = c["vertices"]]
    [] command.kernel = "instanceAccel" -> [c EXCEPT !["instanceAccel"] = c["instances"]]
    [] command.kernel = "trace" ->
         [c EXCEPT !["frame"] = <<c["userAccel"], c["trianglesAccel"], c["instanceAccel"],
                                  c["hitGroupRecords"]>>]
    [] OTHER -> c

\* The bounds buffer once the kernels of the geometries from g on are through.
BoundsDone(d, g, old) ==
  [h \in Geoms |-> IF h >= g THEN d[h] ELSE IF old = Garbage THEN Garbage ELSE old[h]]

LoopDone(d, g, c) ==
  [[c EXCEPT !["geomData"] = d[NumGeoms]] EXCEPT !["bounds"] = BoundsDone(d, g, c["bounds"])]

BoundsContents == {Garbage} \cup [Geoms -> Values \cup {Garbage}]

\* What a step needs of machine m, and what it makes of it.  The GPU works only
\* while the host waits, and then all it uses is there.
Allowed(x, m) ==
  /\ x.do # "wait" => m.pending = <<>>
  /\ x.do \in {"create", "destroy"} => x.buffer \in Buffers
  /\ x.do = "upload" => x.buffer \in m.alive
  /\ x.do \in {"record", "end"} => m.commandBuffer.state = "recording"
  /\ x.do \in {"submit", "wait"} =>
       /\ m.commandBuffer.state = "executable"
       /\ m.commandBuffer.command \in Commands
       /\ Touched(m.commandBuffer.command) \subseteq m.alive
  /\ x.do = "wait" => m.pending \in {<<>>, <<m.commandBuffer.command>>}
  /\ x.do = "loop" =>
       /\ x.command.kernel = "bounds" /\ x.command.geom \in Geoms
       /\ {"geomData", "bounds"} \subseteq m.alive
       /\ DOMAIN m.contents = Buffers
       /\ m.contents["bounds"] \in BoundsContents

After(d, x, m) ==
  CASE x.do = "create" ->
         Machine(m.alive \cup {x.buffer}, [m.contents EXCEPT ![x.buffer] = Garbage],
                 m.commandBuffer, m.pending)
    [] x.do = "destroy" ->
         Machine(m.alive \ {x.buffer}, [m.contents EXCEPT ![x.buffer] = Garbage],
                 m.commandBuffer, m.pending)
    [] x.do = "upload" ->
         Machine(m.alive, [m.contents EXCEPT ![x.buffer] = x.value], m.commandBuffer, m.pending)
    [] x.do = "begin" ->
         Machine(m.alive, m.contents, Buffering("recording", NoCommand), m.pending)
    [] x.do = "record" ->
         Machine(m.alive, m.contents, Buffering(m.commandBuffer.state, x.command), m.pending)
    [] x.do = "end" ->
         Machine(m.alive, m.contents, Buffering("executable", m.commandBuffer.command), m.pending)
    [] x.do = "submit" ->
         Machine(m.alive, m.contents, m.commandBuffer, <<m.commandBuffer.command>>)
    [] x.do = "wait" ->
         Machine(m.alive,
                 IF m.pending = <<>> THEN m.contents
                 ELSE ResultOn(m.contents, m.commandBuffer.command),
                 m.commandBuffer, <<>>)
    [] x.do = "loop" ->
         Machine(m.alive, LoopDone(d, x.command.geom, m.contents),
                 Buffering("executable", NoCommand), m.pending)

\* The steps q lead from machine s to machine t, through the machines of r.
Leads(d, q, s, t) ==
  \E r : /\ r[0] = s /\ r[Len(q)] = t
         /\ \A k \in 1 .. Len(q) : Allowed(q[k], r[k - 1]) /\ r[k] = After(d, q[k], r[k - 1])

---------------------------------------------------------------------------
(* Predictions.                                                            *)

LEMMA NothingLeadsNowhere ==
  ASSUME NEW d, NEW s, NEW t
  PROVE  Leads(d, <<>>, s, t) <=> s = t
<1>1. Len(<<>>) = 0 OBVIOUS
<1>2. ASSUME Leads(d, <<>>, s, t) PROVE s = t
  BY <1>1, <1>2 DEF Leads
<1>3. ASSUME s = t PROVE Leads(d, <<>>, s, t)
  <2> DEFINE r == [k \in {0} |-> s]
  <2>1. r[0] = s /\ 1 .. 0 = {} OBVIOUS
  <2> HIDE DEF r
  <2> QED BY <1>1, <1>3, <2>1 DEF Leads
<1> QED BY <1>2, <1>3

LEMMA AStepLeadsOn ==
  ASSUME NEW d, NEW x \in Steps, NEW s, Allowed(x, s)
  PROVE  Leads(d, <<x>>, s, After(d, x, s))
<1> DEFINE r == [k \in 0 .. 1 |-> IF k = 0 THEN s ELSE After(d, x, s)]
<1>1. Len(<<x>>) = 1 /\ <<x>>[1] = x OBVIOUS
<1>2. r[0] = s /\ r[1] = After(d, x, s) OBVIOUS
<1>3. \A k \in 1 .. 1 : k = 1 /\ k - 1 = 0 OBVIOUS
<1> HIDE DEF r
<1>4. \A k \in 1 .. 1 : Allowed(<<x>>[k], r[k - 1]) /\ r[k] = After(d, <<x>>[k], r[k - 1])
  BY <1>1, <1>2, <1>3
<1> QED BY <1>1, <1>2, <1>4 DEF Leads

\* One after the other.
LEMMA LeadsThrough ==
  ASSUME NEW d, NEW p \in Seq(Steps), NEW q \in Seq(Steps), NEW s, NEW t, NEW u,
         Leads(d, p, s, t), Leads(d, q, t, u)
  PROVE  p \o q \in Seq(Steps) /\ Leads(d, p \o q, s, u)
<1> DEFINE m == Len(p)
           n == Len(q)
<1>1. /\ m \in Nat /\ n \in Nat
      /\ p \o q \in Seq(Steps) /\ Len(p \o q) = m + n
      /\ \A k \in 1 .. m + n : (p \o q)[k] = IF k <= m THEN p[k] ELSE q[k - m]
  BY LenProperties, ConcatProperties
<1>2. PICK f : /\ f[0] = s /\ f[m] = t
               /\ \A k \in 1 .. m : Allowed(p[k], f[k - 1]) /\ f[k] = After(d, p[k], f[k - 1])
  BY DEF Leads
<1>3. PICK h : /\ h[0] = t /\ h[n] = u
               /\ \A k \in 1 .. n : Allowed(q[k], h[k - 1]) /\ h[k] = After(d, q[k], h[k - 1])
  BY DEF Leads
<1> DEFINE r == [k \in 0 .. m + n |-> IF k <= m THEN f[k] ELSE h[k - m]]
<1> HIDE DEF m, n
<1>4. \A k \in 0 .. m : r[k] = f[k]
  BY <1>1
<1>5. \A k \in 0 .. n : r[m + k] = h[k]
  <2> TAKE k \in 0 .. n
  <2>1. m + k \in 0 .. m + n /\ (m + k) - m = k BY <1>1
  <2>2. CASE k = 0
    <3>1. m + k = m /\ m <= m BY <1>1, <2>2
    <3> QED BY <1>2, <1>3, <2>1, <2>2, <3>1
  <2>3. CASE k # 0
    <3>1. ~ (m + k <= m) BY <1>1, <2>3
    <3> QED BY <2>1, <3>1
  <2> QED BY <2>2, <2>3
<1>6. r[0] = s /\ r[m + n] = u
  BY <1>1, <1>2, <1>3, <1>4, <1>5
<1> HIDE DEF r
<1>7. ASSUME NEW k \in 1 .. m + n
      PROVE  Allowed((p \o q)[k], r[k - 1]) /\ r[k] = After(d, (p \o q)[k], r[k - 1])
  <2>1. CASE k <= m
    <3>1. k \in 1 .. m /\ k \in 0 .. m /\ k - 1 \in 0 .. m BY <1>1, <2>1
    <3>2. (p \o q)[k] = p[k] BY <1>1, <2>1
    <3> QED BY <1>2, <1>4, <3>1, <3>2
  <2>2. CASE ~ (k <= m)
    <3>1. /\ k - m \in 1 .. n /\ k - m \in 0 .. n /\ (k - m) - 1 \in 0 .. n
          /\ m + (k - m) = k /\ m + ((k - m) - 1) = k - 1
      BY <1>1, <2>2
    <3>2. (p \o q)[k] = q[k - m] BY <1>1, <2>2
    <3>3. r[k] = h[k - m] /\ r[k - 1] = h[(k - m) - 1] BY <1>5, <3>1
    <3> QED BY <1>3, <3>1, <3>2, <3>3
  <2> QED BY <2>1, <2>2
<1>8. Leads(d, p \o q, s, u) BY <1>1, <1>6, <1>7 DEF Leads
<1> QED BY <1>1, <1>8

\* The first step of a prediction, and what is left of it.
LEMMA FirstStep ==
  ASSUME NEW d, NEW q \in Seq(Steps), q # <<>>, NEW s, NEW t, Leads(d, q, s, t)
  PROVE  /\ Head(q) \in Steps /\ Tail(q) \in Seq(Steps) /\ q = <<Head(q)>> \o Tail(q)
         /\ Allowed(Head(q), s)
         /\ Leads(d, Tail(q), After(d, Head(q), s), t)
<1> DEFINE n == Len(q)
<1>1. /\ n \in Nat /\ n > 0 /\ Head(q) = q[1] /\ Head(q) \in Steps
      /\ Tail(q) \in Seq(Steps) /\ Len(Tail(q)) = n - 1
      /\ \A k \in 1 .. n - 1 : Tail(q)[k] = q[k + 1]
  BY LenProperties, EmptySeq, HeadTailProperties
<1>2. PICK f : /\ f[0] = s /\ f[n] = t
               /\ \A k \in 1 .. n : Allowed(q[k], f[k - 1]) /\ f[k] = After(d, q[k], f[k - 1])
  BY DEF Leads
<1> HIDE DEF n
<1> DEFINE r == [k \in 0 .. n - 1 |-> f[k + 1]]
<1>3. \A k \in 0 .. n - 1 : r[k] = f[k + 1]
  OBVIOUS
<1> HIDE DEF r
<1>4. Allowed(Head(q), s) /\ f[1] = After(d, Head(q), s)
  <2>1. 1 \in 1 .. n /\ 1 - 1 = 0 BY <1>1
  <2> QED BY <1>1, <1>2, <2>1
<1>5. r[0] = After(d, Head(q), s) /\ r[n - 1] = t
  <2>1. 0 \in 0 .. n - 1 /\ n - 1 \in 0 .. n - 1 /\ (n - 1) + 1 = n /\ 0 + 1 = 1 BY <1>1
  <2> QED BY <1>2, <1>3, <1>4, <2>1
<1>6. ASSUME NEW k \in 1 .. n - 1
      PROVE  Allowed(Tail(q)[k], r[k - 1]) /\ r[k] = After(d, Tail(q)[k], r[k - 1])
  <2>1. /\ k + 1 \in 1 .. n /\ (k + 1) - 1 = k /\ k \in 0 .. n - 1
        /\ k - 1 \in 0 .. n - 1 /\ (k - 1) + 1 = k
    BY <1>1
  <2>2. r[k - 1] = f[k] /\ r[k] = f[k + 1] BY <1>3, <2>1
  <2> QED BY <1>1, <1>2, <2>1, <2>2
<1>7. Leads(d, Tail(q), After(d, Head(q), s), t) BY <1>1, <1>5, <1>6 DEF Leads
<1>8. q = <<Head(q)>> \o Tail(q)
  BY HeadTailProperties, EmptySeq, <1>1
<1> QED BY <1>1, <1>4, <1>7, <1>8

\* Another start with the same outcome of the first step will do.
LEMMA AnotherStart ==
  ASSUME NEW d, NEW q \in Seq(Steps), q # <<>>, NEW s, NEW t, Leads(d, q, s, t),
         NEW s2, Allowed(Head(q), s2), After(d, Head(q), s2) = After(d, Head(q), s)
  PROVE  Leads(d, q, s2, t)
<1>1. /\ Head(q) \in Steps /\ Tail(q) \in Seq(Steps) /\ q = <<Head(q)>> \o Tail(q)
      /\ Leads(d, Tail(q), After(d, Head(q), s2), t)
  BY FirstStep
<1>2. <<Head(q)>> \in Seq(Steps) BY <1>1
<1>3. Leads(d, <<Head(q)>>, s2, After(d, Head(q), s2)) BY <1>1, AStepLeadsOn
<1> HIDE DEF Leads
<1>4. Leads(d, <<Head(q)>> \o Tail(q), s2, t) BY <1>1, <1>2, <1>3, LeadsThrough
<1> QED BY <1>1, <1>4

---------------------------------------------------------------------------
(* What the parts of a call lead to.                                       *)

LEMMA StepsTyped ==
  /\ NoCommand \in Commands
  /\ \A do \in {"create", "destroy", "upload", "begin", "record", "end", "submit", "wait", "loop"},
        x \in Buffers \cup {""}, v \in StepValues, command \in Commands :
       Step(do, x, v, command) \in Steps
  /\ Garbage \in StepValues
<1>1. NoCommand \in Commands
  BY NumGeomsAssumption DEF NoCommand, Command, Commands, Kernels
<1>2. Garbage \in StepValues BY DEF StepValues
<1>3. ASSUME NEW do \in {"create", "destroy", "upload", "begin", "record", "end", "submit", "wait", "loop"},
             NEW x \in Buffers \cup {""}, NEW v \in StepValues, NEW command \in Commands
      PROVE  Step(do, x, v, command) \in Steps
  BY DEF Steps, Step
<1> QED BY <1>1, <1>2, <1>3

LEMMA Triple ==
  ASSUME NEW S, NEW x \in S, NEW y \in S, NEW z \in S
  PROVE  <<x, y, z>> = (<<x>> \o <<y>>) \o <<z>>
<1> DEFINE p == <<x>> \o <<y>>
           q == p \o <<z>>
           r == <<x, y, z>>
<1>1. /\ p \in Seq(S) /\ Len(p) = 2 /\ p[1] = x /\ p[2] = y
  <2>1. <<x>> \in Seq(S) /\ <<y>> \in Seq(S) /\ Len(<<x>>) = 1 /\ Len(<<y>>) = 1 OBVIOUS
  <2>2. /\ p \in Seq(S) /\ Len(p) = 1 + 1
        /\ \A i \in 1 .. 1 + 1 : p[i] = IF i <= 1 THEN <<x>>[i] ELSE <<y>>[i - 1]
    BY <2>1, ConcatProperties
  <2> HIDE DEF p
  <2> QED BY <2>2
<1> HIDE DEF p
<1>2. /\ q \in Seq(S) /\ Len(q) = 3 /\ q[1] = x /\ q[2] = y /\ q[3] = z
  <2> DEFINE e == <<z>>
  <2>1. e \in Seq(S) /\ Len(e) = 1 /\ e[1] = z OBVIOUS
  <2> HIDE DEF e
  <2>2. /\ p \o e \in Seq(S) /\ Len(p \o e) = 2 + 1
        /\ \A i \in 1 .. 2 + 1 : (p \o e)[i] = IF i <= 2 THEN p[i] ELSE e[i - 2]
    <3>1. p \in Seq(S) /\ e \in Seq(S) /\ Len(p) = 2 /\ Len(e) = 1 BY <1>1, <2>1
    <3>2. /\ p \o e \in Seq(S)
          /\ Len(p \o e) = Len(p) + Len(e)
          /\ \A i \in 1 .. Len(p) + Len(e) :
               (p \o e)[i] = IF i <= Len(p) THEN p[i] ELSE e[i - Len(p)]
      BY <3>1, ConcatProperties
    <3> QED BY <3>1, <3>2
  <2>3. q = p \o e BY DEF e
  <2> HIDE DEF q
  <2> QED BY <1>1, <2>1, <2>2, <2>3
<1>3. r \in Seq(S) /\ Len(r) = 3 /\ r[1] = x /\ r[2] = y /\ r[3] = z
  OBVIOUS
<1> HIDE DEF q, r
<1>4. \A i \in 1 .. Len(r) : r[i] = q[i]
  <2>1. \A i \in 1 .. 3 : i = 1 \/ i = 2 \/ i = 3 OBVIOUS
  <2> QED BY <2>1, <1>2, <1>3
<1>5. r = q BY <1>2, <1>3, <1>4, SeqEqual
<1> QED BY <1>5 DEF p, q, r

LEMMA Creates ==
  ASSUME NEW d, NEW a, NEW c, NEW b, NEW x \in Buffers
  PROVE  /\ Create(x) \in Seq(Steps)
         /\ Leads(d, Create(x), Idle(a, c, b), Idle(a \cup {x}, [c EXCEPT ![x] = Garbage], b))
<1> DEFINE y == Step("create", x, Garbage, NoCommand)
<1>1. y \in Steps BY StepsTyped
<1>2. Allowed(y, Idle(a, c, b)) BY DEF Allowed, Step, Idle, Machine
<1>3. After(d, y, Idle(a, c, b)) = Idle(a \cup {x}, [c EXCEPT ![x] = Garbage], b)
  BY DEF After, Step, Idle, Machine
<1>4. Leads(d, <<y>>, Idle(a, c, b), After(d, y, Idle(a, c, b)))
  BY <1>1, <1>2, AStepLeadsOn
<1> QED BY <1>1, <1>3, <1>4 DEF Create

LEMMA Destroys ==
  ASSUME NEW d, NEW a, NEW c, NEW b, NEW x \in Buffers
  PROVE  /\ Destroy(x) \in Seq(Steps)
         /\ Leads(d, Destroy(x), Idle(a, c, b), Idle(a \ {x}, [c EXCEPT ![x] = Garbage], b))
<1> DEFINE y == Step("destroy", x, Garbage, NoCommand)
<1>1. y \in Steps BY StepsTyped
<1>2. Allowed(y, Idle(a, c, b)) BY DEF Allowed, Step, Idle, Machine
<1>3. After(d, y, Idle(a, c, b)) = Idle(a \ {x}, [c EXCEPT ![x] = Garbage], b)
  BY DEF After, Step, Idle, Machine
<1>4. Leads(d, <<y>>, Idle(a, c, b), After(d, y, Idle(a, c, b)))
  BY <1>1, <1>2, AStepLeadsOn
<1> QED BY <1>1, <1>3, <1>4 DEF Destroy

LEMMA Uploads ==
  ASSUME NEW d, NEW a, NEW c, NEW b, NEW x \in Buffers, x \in a, NEW v \in StepValues
  PROVE  /\ Upload(x, v) \in Seq(Steps)
         /\ Leads(d, Upload(x, v), Idle(a, c, b), Idle(a, [c EXCEPT ![x] = v], b))
<1> DEFINE y == Step("upload", x, v, NoCommand)
<1>1. y \in Steps BY StepsTyped
<1>2. Allowed(y, Idle(a, c, b)) BY DEF Allowed, Step, Idle, Machine
<1>3. After(d, y, Idle(a, c, b)) = Idle(a, [c EXCEPT ![x] = v], b)
  BY DEF After, Step, Idle, Machine
<1>4. Leads(d, <<y>>, Idle(a, c, b), After(d, y, Idle(a, c, b)))
  BY <1>1, <1>2, AStepLeadsOn
<1> QED BY <1>1, <1>3, <1>4 DEF Upload

LEMMA Records ==
  ASSUME NEW d, NEW a, NEW c, NEW b, NEW command \in Commands
  PROVE  /\ Record(command) \in Seq(Steps)
         /\ Leads(d, Record(command), Idle(a, c, b), Idle(a, c, Buffering("executable", command)))
<1> DEFINE x == Step("begin", "", Garbage, NoCommand)
           y == Step("record", "", Garbage, command)
           z == Step("end", "", Garbage, NoCommand)
           t == Idle(a, c, Buffering("recording", NoCommand))
           u == Idle(a, c, Buffering("recording", command))
           v == Idle(a, c, Buffering("executable", command))
<1>1. x \in Steps /\ y \in Steps /\ z \in Steps BY StepsTyped
<1>2. Allowed(x, Idle(a, c, b)) /\ After(d, x, Idle(a, c, b)) = t
  BY DEF Allowed, After, Step, Idle, Machine
<1>3. Allowed(y, t) /\ After(d, y, t) = u
  BY DEF Allowed, After, Step, Idle, Machine, Buffering
<1>4. Allowed(z, u) /\ After(d, z, u) = v
  BY DEF Allowed, After, Step, Idle, Machine, Buffering
<1>5. Record(command) = <<x, y, z>> BY DEF Record
<1> HIDE DEF x, y, z, t, u, v
<1>6. /\ Leads(d, <<x>>, Idle(a, c, b), t) /\ Leads(d, <<y>>, t, u) /\ Leads(d, <<z>>, u, v)
      /\ <<x>> \in Seq(Steps) /\ <<y>> \in Seq(Steps) /\ <<z>> \in Seq(Steps)
  BY <1>1, <1>2, <1>3, <1>4, AStepLeadsOn
<1>7. <<x>> \o <<y>> \in Seq(Steps) /\ Leads(d, <<x>> \o <<y>>, Idle(a, c, b), u)
  BY <1>6, LeadsThrough
<1>8. /\ (<<x>> \o <<y>>) \o <<z>> \in Seq(Steps)
      /\ Leads(d, (<<x>> \o <<y>>) \o <<z>>, Idle(a, c, b), v)
  BY <1>6, <1>7, LeadsThrough
<1>9. Record(command) = (<<x>> \o <<y>>) \o <<z>> BY <1>1, <1>5, Triple
<1> QED BY <1>8, <1>9 DEF v

LEMMA Submits ==
  ASSUME NEW d, NEW a, NEW c, NEW b, NEW command \in Commands, Touched(command) \subseteq a
  PROVE  /\ Submission(command) \in Seq(Steps)
         /\ Leads(d, Submission(command), Idle(a, c, b),
                  Idle(a, ResultOn(c, command), Buffering("executable", command)))
<1> DEFINE x == Step("submit", "", Garbage, NoCommand)
           y == Step("wait", "", Garbage, NoCommand)
           B == Buffering("executable", command)
           t == Idle(a, c, B)
           u == Machine(a, c, B, <<command>>)
           v == Idle(a, ResultOn(c, command), B)
<1>1. x \in Steps /\ y \in Steps BY StepsTyped
<1>2. Allowed(x, t) /\ After(d, x, t) = u
  BY DEF Allowed, After, Step, Idle, Machine, Buffering
<1>3. Allowed(y, u) BY DEF Allowed, Step, Machine, Buffering
<1>4. After(d, y, u) = v
  <2>1. <<command>> # <<>> OBVIOUS
  <2>2. After(d, y, u) = Machine(a, IF <<command>> = <<>> THEN c ELSE ResultOn(c, command), B, <<>>)
    BY DEF After, Step, Machine, Buffering
  <2> QED BY <2>1, <2>2 DEF Idle
<1>5. Submission(command) = (Record(command) \o <<x>>) \o <<y>>
  BY DEF Submission, Submit, Wait
<1>6. Record(command) \in Seq(Steps) /\ Leads(d, Record(command), Idle(a, c, b), t)
  BY Records
<1> HIDE DEF x, y, t, u, v
<1>7. /\ Leads(d, <<x>>, t, u) /\ Leads(d, <<y>>, u, v)
      /\ <<x>> \in Seq(Steps) /\ <<y>> \in Seq(Steps)
  BY <1>1, <1>2, <1>3, <1>4, AStepLeadsOn
<1>8. Record(command) \o <<x>> \in Seq(Steps) /\ Leads(d, Record(command) \o <<x>>, Idle(a, c, b), u)
  BY <1>6, <1>7, LeadsThrough
<1>9. /\ (Record(command) \o <<x>>) \o <<y>> \in Seq(Steps)
      /\ Leads(d, (Record(command) \o <<x>>) \o <<y>>, Idle(a, c, b), v)
  BY <1>7, <1>8, LeadsThrough
<1> QED BY <1>5, <1>9 DEF v

LEMMA Launches ==
  ASSUME NEW d, NEW a, NEW c, NEW b, NEW command \in Commands, Touched(command) \subseteq a
  PROVE  /\ ComputeLaunch(command) \in Seq(Steps)
         /\ Leads(d, ComputeLaunch(command), Idle(a, c, b),
                  Idle(a, ResultOn(c, command), Buffering("executable", NoCommand)))
<1> DEFINE t == Idle(a, ResultOn(c, command), Buffering("executable", command))
           u == Idle(a, ResultOn(c, command), Buffering("executable", NoCommand))
<1>1. Submission(command) \in Seq(Steps) /\ Leads(d, Submission(command), Idle(a, c, b), t)
  BY Submits
<1>2. NoCommand \in Commands /\ Touched(NoCommand) \subseteq a
  BY StepsTyped DEF NoCommand, Command, Touched
<1>3. ResultOn(ResultOn(c, command), NoCommand) = ResultOn(c, command)
  <2>1. NoCommand.kernel = "barrier" BY DEF NoCommand, Command
  <2> DEFINE e == ResultOn(c, command)
  <2> HIDE DEF e
  <2>2. ResultOn(e, NoCommand) = e BY <2>1 DEF ResultOn
  <2> QED BY <2>2 DEF e
<1>4. Submission(NoCommand) \in Seq(Steps) /\ Leads(d, Submission(NoCommand), t, u)
  <2>1. /\ Submission(NoCommand) \in Seq(Steps)
        /\ Leads(d, Submission(NoCommand), t,
                 Idle(a, ResultOn(ResultOn(c, command), NoCommand), Buffering("executable", NoCommand)))
    BY <1>2, Submits
  <2> QED BY <2>1, <1>3
<1>5. ComputeLaunch(command) = Submission(command) \o Submission(NoCommand)
  BY DEF ComputeLaunch, NoCommand
<1> HIDE DEF t, u
<1>6. /\ Submission(command) \o Submission(NoCommand) \in Seq(Steps)
      /\ Leads(d, Submission(command) \o Submission(NoCommand), Idle(a, c, b), u)
  BY <1>1, <1>4, LeadsThrough
<1> QED BY <1>5, <1>6 DEF u

\* What an acceleration structure is made from.
Source == [b \in {"userAccel", "trianglesAccel", "instanceAccel"} |->
             CASE b = "userAccel" -> "bounds"
               [] b = "trianglesAccel" -> "vertices"
               [] b = "instanceAccel" -> "instances"]

Built(b, c) ==
  [ResultOn([[c EXCEPT !["scratch"] = Garbage] EXCEPT ![b] = Garbage], Command(b, 0))
     EXCEPT !["scratch"] = Garbage]

LEMMA WhatIsBuilt ==
  ASSUME NEW b \in {"userAccel", "trianglesAccel", "instanceAccel"}, NEW c, DOMAIN c = Buffers
  PROVE  /\ DOMAIN Built(b, c) = Buffers
         /\ Built(b, c)[b] = c[Source[b]]
         /\ \A x \in Buffers \ {b, "scratch"} : Built(b, c)[x] = c[x]
<1> DEFINE e == [[c EXCEPT !["scratch"] = Garbage] EXCEPT ![b] = Garbage]
           f == ResultOn(e, Command(b, 0))
<1>1. /\ DOMAIN e = Buffers
      /\ \A x \in Buffers \ {b, "scratch"} : e[x] = c[x]
  OBVIOUS
<1>2. Source[b] \in Buffers \ {b, "scratch"} /\ b \in Buffers \ {"scratch"}
  BY DEF Source, Buffers, AppBuffers
<1> HIDE DEF e
<1>3. f = [e EXCEPT ![b] = e[Source[b]]]
  BY DEF ResultOn, Source, Command
<1> HIDE DEF f
<1>4. DOMAIN f = Buffers /\ f[b] = c[Source[b]] /\ \A x \in Buffers \ {b, "scratch"} : f[x] = c[x]
  BY <1>1, <1>2, <1>3
<1>5. Built(b, c) = [f EXCEPT !["scratch"] = Garbage] BY DEF Built, e, f
<1> QED BY <1>2, <1>4, <1>5

LEMMA Builds ==
  ASSUME NEW d, NEW a, NEW c, NEW B, NEW b \in {"userAccel", "trianglesAccel", "instanceAccel"},
         Touched(Command(b, 0)) \subseteq a \cup {"scratch", b}
  PROVE  /\ BuildAccel(b) \in Seq(Steps)
         /\ Leads(d, BuildAccel(b), Idle(a, c, B),
                  Idle((a \cup {b}) \ {"scratch"}, Built(b, c),
                       Buffering("executable", Command(b, 0))))
<1> DEFINE a1 == a \cup {"scratch"}
           c1 == [c EXCEPT !["scratch"] = Garbage]
           a2 == a1 \cup {b}
           c2 == [c1 EXCEPT ![b] = Garbage]
           c3 == ResultOn(c2, Command(b, 0))
           B3 == Buffering("executable", Command(b, 0))
<1>1. b \in Buffers /\ "scratch" \in Buffers /\ Command(b, 0) \in Commands
  BY NumGeomsAssumption DEF Buffers, AppBuffers, Commands, Command, Kernels
<1>2. /\ Create("scratch") \in Seq(Steps)
      /\ Leads(d, Create("scratch"), Idle(a, c, B), Idle(a1, c1, B))
  BY <1>1, Creates
<1>3. Create(b) \in Seq(Steps) /\ Leads(d, Create(b), Idle(a1, c1, B), Idle(a2, c2, B))
  BY <1>1, Creates
<1>4. /\ Submission(Command(b, 0)) \in Seq(Steps)
      /\ Leads(d, Submission(Command(b, 0)), Idle(a2, c2, B), Idle(a2, c3, B3))
  <2>1. Touched(Command(b, 0)) \subseteq a2 OBVIOUS
  <2> HIDE DEF a2, c2
  <2> QED BY <1>1, <2>1, Submits
<1>5. /\ Destroy("scratch") \in Seq(Steps)
      /\ Leads(d, Destroy("scratch"), Idle(a2, c3, B3),
               Idle(a2 \ {"scratch"}, [c3 EXCEPT !["scratch"] = Garbage], B3))
  BY <1>1, Destroys
<1>6. a2 \ {"scratch"} = (a \cup {b}) \ {"scratch"} OBVIOUS
<1>7. [c3 EXCEPT !["scratch"] = Garbage] = Built(b, c) BY DEF Built
<1>8. /\ Destroy("scratch") \in Seq(Steps)
      /\ Leads(d, Destroy("scratch"), Idle(a2, c3, B3),
               Idle((a \cup {b}) \ {"scratch"}, Built(b, c), B3))
  BY <1>5, <1>6, <1>7
<1> HIDE DEF a1, a2, c1, c2, c3, B3
<1>9. /\ Create("scratch") \o Create(b) \in Seq(Steps)
      /\ Leads(d, Create("scratch") \o Create(b), Idle(a, c, B), Idle(a2, c2, B))
  BY <1>2, <1>3, LeadsThrough
<1>10. /\ Create("scratch") \o Create(b) \o Submission(Command(b, 0)) \in Seq(Steps)
       /\ Leads(d, Create("scratch") \o Create(b) \o Submission(Command(b, 0)),
                Idle(a, c, B), Idle(a2, c3, B3))
  BY <1>4, <1>9, LeadsThrough
<1>11. /\ Create("scratch") \o Create(b) \o Submission(Command(b, 0)) \o Destroy("scratch")
            \in Seq(Steps)
       /\ Leads(d, Create("scratch") \o Create(b) \o Submission(Command(b, 0)) \o Destroy("scratch"),
                Idle(a, c, B), Idle((a \cup {b}) \ {"scratch"}, Built(b, c), B3))
  BY <1>8, <1>10, LeadsThrough
<1> QED BY <1>11 DEF BuildAccel, B3

\* The boxes of the geometries, computed one at a time through one buffer: the
\* turns of the loop before this one are in old.
LEMMA OneTurnDone ==
  ASSUME NEW d \in [Geoms -> Values], NEW g \in Geoms, NEW old \in BoundsContents,
         NEW new, new = [h \in Geoms |-> IF h = g THEN d[g]
                                         ELSE IF old = Garbage THEN Garbage ELSE old[h]]
  PROVE  /\ new \in BoundsContents
         /\ g = NumGeoms => BoundsDone(d, g, old) = new
         /\ BoundsDone(d, g, old) = BoundsDone(d, g + 1, new)
<1>1. g \in 1 .. NumGeoms /\ NumGeoms \in Nat BY NumGeomsAssumption DEF Geoms
<1>2. new \in [Geoms -> Values \cup {Garbage}]
  BY DEF BoundsContents
<1>3. new # Garbage BY <1>2, GarbageIsNoValue
<1>4. ASSUME g = NumGeoms PROVE BoundsDone(d, g, old) = new
  <2>1. \A h \in Geoms : h >= g <=> h = g BY <1>1, <1>4 DEF Geoms
  <2> QED BY <2>1 DEF BoundsDone
<1>5. BoundsDone(d, g, old) = BoundsDone(d, g + 1, new)
  <2>1. \A h \in Geoms : h >= g <=> h = g \/ h >= g + 1 BY <1>1 DEF Geoms
  <2> QED BY <2>1, <1>3 DEF BoundsDone
<1> QED BY <1>2, <1>4, <1>5 DEF BoundsContents

LEMMA LoopIsFollowed ==
  ASSUME NEW d, NEW a, NEW c, NEW b, NEW g \in Geoms, {"geomData", "bounds"} \subseteq a,
         DOMAIN c = Buffers, c["bounds"] \in BoundsContents
  PROVE  /\ BoundsFrom(g) \in Seq(Steps)
         /\ Leads(d, BoundsFrom(g), Idle(a, c, b),
                  Idle(a, LoopDone(d, g, c), Buffering("executable", NoCommand)))
<1> DEFINE y == Step("loop", "geomData", Garbage, Command("bounds", g))
<1>1. y \in Steps
  <2>1. Command("bounds", g) \in Commands
    BY NumGeomsAssumption DEF Commands, Command, Kernels, Geoms
  <2>2. "geomData" \in Buffers BY DEF Buffers
  <2> QED BY <2>1, <2>2, StepsTyped
<1>2. Allowed(y, Idle(a, c, b)) BY DEF Allowed, Step, Idle, Machine, Command
<1>3. After(d, y, Idle(a, c, b)) = Idle(a, LoopDone(d, g, c), Buffering("executable", NoCommand))
  BY DEF After, Step, Idle, Machine, Command
<1>4. Leads(d, <<y>>, Idle(a, c, b), After(d, y, Idle(a, c, b)))
  BY <1>1, <1>2, AStepLeadsOn
<1> QED BY <1>1, <1>3, <1>4 DEF BoundsFrom

\* One turn of the loop, and the turns after it, do what the loop does.
LEMMA LoopUnrolls ==
  ASSUME NEW d \in [Geoms -> Values], NEW a, NEW c, NEW b, NEW g \in Geoms,
         {"geomData", "bounds"} \subseteq a, DOMAIN c = Buffers, c["bounds"] \in BoundsContents
  PROVE  LET q == Upload("geomData", d[g]) \o ComputeLaunch(Command("bounds", g)) \o BoundsFrom(g + 1)
         IN  /\ q \in Seq(Steps)
             /\ Leads(d, q, Idle(a, c, b),
                      Idle(a, LoopDone(d, g, c), Buffering("executable", NoCommand)))
<1> DEFINE command == Command("bounds", g)
           c1 == [c EXCEPT !["geomData"] = d[g]]
           c2 == ResultOn(c1, command)
           B == Buffering("executable", NoCommand)
           c3 == LoopDone(d, g, c)
           old == c["bounds"]
           new == [h \in Geoms |-> IF h = g THEN d[g]
                                   ELSE IF old = Garbage THEN Garbage ELSE old[h]]
<1>1. g \in 1 .. NumGeoms /\ NumGeoms \in Nat /\ NumGeoms \in Geoms
  BY NumGeomsAssumption DEF Geoms
<1>2. "geomData" \in Buffers /\ "bounds" \in Buffers /\ d[g] \in StepValues /\ command \in Commands
  BY <1>1 DEF Buffers, StepValues, Commands, Command, Kernels
<1>3. /\ Upload("geomData", d[g]) \in Seq(Steps)
      /\ Leads(d, Upload("geomData", d[g]), Idle(a, c, b), Idle(a, c1, b))
  BY <1>2, Uploads
<1>4. /\ ComputeLaunch(command) \in Seq(Steps)
      /\ Leads(d, ComputeLaunch(command), Idle(a, c1, b), Idle(a, c2, B))
  <2>1. Touched(command) \subseteq a BY DEF Touched, Command
  <2> HIDE DEF c1, command
  <2> QED BY <1>2, <2>1, Launches
<1>5. c2 = [c1 EXCEPT !["bounds"] = new]
  <2>1. c1["geomData"] = d[g] /\ c1["bounds"] = old BY <1>2
  <2>2. command.kernel = "bounds" /\ command.geom = g BY DEF Command
  <2> HIDE DEF c1, old, command
  <2> QED BY <2>1, <2>2 DEF ResultOn
<1>6. /\ new \in BoundsContents
      /\ g = NumGeoms => BoundsDone(d, g, old) = new
      /\ BoundsDone(d, g, old) = BoundsDone(d, g + 1, new)
  <2> HIDE DEF new, old
  <2>1. old \in BoundsContents BY DEF old
  <2> QED BY <2>1, OneTurnDone DEF new
<1>7. DOMAIN c2 = Buffers /\ c2["bounds"] = new
  BY <1>2, <1>5
<1>8. BoundsFrom(g + 1) \in Seq(Steps) /\ Leads(d, BoundsFrom(g + 1), Idle(a, c2, B), Idle(a, c3, B))
  <2>1. CASE g = NumGeoms
    <3>1. BoundsFrom(g + 1) = <<>> BY <1>1, <2>1 DEF BoundsFrom, Geoms
    <3>2. c2 = c3 BY <1>5, <1>6, <2>1 DEF LoopDone
    <3> HIDE DEF c2, c3, B
    <3>3. Leads(d, <<>>, Idle(a, c2, B), Idle(a, c3, B)) BY <3>2, NothingLeadsNowhere
    <3> QED BY <3>1, <3>3, EmptySeq
  <2>2. CASE g # NumGeoms
    <3>1. g + 1 \in Geoms BY <1>1, <2>2 DEF Geoms
    <3>2. LoopDone(d, g + 1, c2) = c3
      <4>1. LoopDone(d, g + 1, c2)
              = [[c2 EXCEPT !["geomData"] = d[NumGeoms]] EXCEPT !["bounds"] = BoundsDone(d, g, old)]
        BY <1>6, <1>7 DEF LoopDone
      <4>2. c3 = [[c EXCEPT !["geomData"] = d[NumGeoms]] EXCEPT !["bounds"] = BoundsDone(d, g, old)]
        BY DEF LoopDone
      <4>3. \A x \in Buffers \ {"geomData", "bounds"} : c2[x] = c[x] BY <1>5
      <4> DEFINE v == BoundsDone(d, g, old)
                 w == d[NumGeoms]
      <4> HIDE DEF c2, c3, v, w
      <4>4. [[c2 EXCEPT !["geomData"] = w] EXCEPT !["bounds"] = v]
              = [[c EXCEPT !["geomData"] = w] EXCEPT !["bounds"] = v]
        BY <1>7, <4>3
      <4> QED BY <4>1, <4>2, <4>4 DEF v, w
    <3> HIDE DEF c2, c3, new
    <3>3. /\ BoundsFrom(g + 1) \in Seq(Steps)
          /\ Leads(d, BoundsFrom(g + 1), Idle(a, c2, B), Idle(a, LoopDone(d, g + 1, c2), B))
      BY <1>6, <1>7, <3>1, LoopIsFollowed
    <3> QED BY <3>2, <3>3
  <2> QED BY <2>1, <2>2
<1> HIDE DEF c1, c2, c3, B, command
<1>9. /\ Upload("geomData", d[g]) \o ComputeLaunch(command) \in Seq(Steps)
      /\ Leads(d, Upload("geomData", d[g]) \o ComputeLaunch(command), Idle(a, c, b), Idle(a, c2, B))
  BY <1>3, <1>4, LeadsThrough
<1>10. /\ Upload("geomData", d[g]) \o ComputeLaunch(command) \o BoundsFrom(g + 1) \in Seq(Steps)
       /\ Leads(d, Upload("geomData", d[g]) \o ComputeLaunch(command) \o BoundsFrom(g + 1),
                Idle(a, c, b), Idle(a, c3, B))
  BY <1>8, <1>9, LeadsThrough
<1> QED BY <1>10 DEF command, c3, B

---------------------------------------------------------------------------
(* The inductive invariant.                                                *)

Typed ==
  /\ data \in [Geoms -> Values]
  /\ todo \in Seq(Steps)
  /\ commandBuffer \in CommandBuffers
  /\ alive \subseteq Buffers
  /\ DOMAIN contents = Buffers /\ DOMAIN wanted = Buffers
  /\ \A b \in Buffers \ alive : contents[b] = Garbage
  /\ linked \in BOOLEAN

AsWanted(a, c, w, l) ==
  /\ \A b \in a \ {"instances"} : c[b] = w[b]
  /\ l => {"userAccel", "trianglesAccel", "instanceAccel"} \subseteq a

Inv ==
  /\ Typed
  /\ \E a, c, b : Leads(data, todo, Now, Idle(a, c, b)) /\ AsWanted(a, c, wanted, linked)

LEMMA InitInv == Init => Inv
<1> SUFFICES ASSUME Init PROVE Inv OBVIOUS
<1>1. Typed
  BY StepsTyped, EmptySeq DEF Init, Typed, CommandBuffers
<1>2. Leads(data, todo, Now, Idle(alive, contents, commandBuffer))
  BY NothingLeadsNowhere DEF Init, Now, Idle
<1>3. AsWanted(alive, contents, wanted, linked) BY DEF Init, AsWanted
<1> QED BY <1>1, <1>2, <1>3 DEF Inv

\* Between two calls the machine rests, with the wanted contents.
LEMMA AtRest ==
  ASSUME Inv, todo = <<>>
  PROVE  pending = <<>> /\ AsWanted(alive, contents, wanted, linked)
<1>1. PICK a, c, b : Leads(data, todo, Now, Idle(a, c, b)) /\ AsWanted(a, c, wanted, linked)
  BY DEF Inv
<1>2. Now = Idle(a, c, b) BY <1>1, NothingLeadsNowhere
<1>3. alive = a /\ contents = c /\ pending = <<>> BY <1>2 DEF Now, Idle, Machine
<1> QED BY <1>1, <1>3

\* What may be done next, while a call is in progress.
LEMMA InProgress ==
  ASSUME Inv, todo # <<>>
  PROVE  /\ Head(todo) \in Steps /\ Tail(todo) \in Seq(Steps)
         /\ Allowed(Head(todo), Now)
         /\ \E a, c, b : /\ Leads(data, Tail(todo), After(data, Head(todo), Now), Idle(a, c, b))
                         /\ AsWanted(a, c, wanted, linked)
<1>1. PICK a, c, b : Leads(data, todo, Now, Idle(a, c, b)) /\ AsWanted(a, c, wanted, linked)
  BY DEF Inv
<1>2. todo \in Seq(Steps) BY DEF Inv, Typed
<1>3. /\ Head(todo) \in Steps /\ Tail(todo) \in Seq(Steps)
      /\ Allowed(Head(todo), Now)
      /\ Leads(data, Tail(todo), After(data, Head(todo), Now), Idle(a, c, b))
  BY <1>1, <1>2, FirstStep
<1> QED BY <1>1, <1>3

\* Submitted work is what the host is waiting for.
LEMMA WorkIsAwaited ==
  ASSUME Inv, pending # <<>>
  PROVE  /\ todo # <<>> /\ Head(todo).do = "wait"
         /\ commandBuffer.state = "executable"
         /\ commandBuffer.command \in Commands
         /\ pending = <<commandBuffer.command>>
         /\ Touched(commandBuffer.command) \subseteq alive
<1>1. todo # <<>> BY AtRest
<1>2. Allowed(Head(todo), Now) BY <1>1, InProgress
<1> QED BY <1>1, <1>2 DEF Allowed, Now, Machine

---------------------------------------------------------------------------
(* The calls.                                                              *)

LEMMA CallKeepsInv ==
  ASSUME Inv, todo = <<>>, NEW a, NEW c, NEW b,
         todo' \in Seq(Steps),
         Leads(data, todo', Idle(alive, contents, commandBuffer), Idle(a, c, b)),
         UNCHANGED <<data, commandBuffer, pending, alive, contents>>,
         DOMAIN wanted' = Buffers, linked' \in BOOLEAN,
         AsWanted(a, c, wanted', linked')
  PROVE  Inv'
<1>1. Typed' BY DEF Inv, Typed
<1>2. Now' = Idle(alive, contents, commandBuffer)
  BY AtRest DEF Now, Idle
<1>3. Leads(data, todo', Now', Idle(a, c, b)) BY <1>2
<1>4. data' = data OBVIOUS
<1>5. \E e, f, g : Leads(data', todo', Now', Idle(e, f, g)) /\ AsWanted(e, f, wanted', linked')
  BY <1>3, <1>4
<1> QED BY <1>1, <1>5 DEF Inv

LEMMA SetDataKeepsInv ==
  ASSUME Inv, NEW g \in Geoms, NEW v \in Values, SetData(g, v)
  PROVE  Inv'
<1>1. todo = <<>> /\ data' \in [Geoms -> Values] /\ todo' = <<>>
  BY DEF SetData, Inv, Typed
<1>2. Typed' BY <1>1 DEF Inv, Typed, SetData
<1>3. pending = <<>> /\ AsWanted(alive, contents, wanted, linked) BY <1>1, AtRest
<1>4. Now' = Idle(alive, contents, commandBuffer) BY <1>3 DEF SetData, Now, Idle
<1>5. Leads(data', todo', Now', Idle(alive, contents, commandBuffer))
  BY <1>1, <1>4, NothingLeadsNowhere
<1>6. wanted' = wanted /\ linked' = linked BY DEF SetData
<1>7. \E a, c, b : Leads(data', todo', Now', Idle(a, c, b)) /\ AsWanted(a, c, wanted', linked')
  BY <1>3, <1>5, <1>6
<1> QED BY <1>2, <1>7 DEF Inv

LEMMA CreateBufferKeepsInv ==
  ASSUME Inv, NEW x \in AppBuffers, NEW v \in Values, CreateBuffer(x, v)
  PROVE  Inv'
<1> DEFINE B == commandBuffer
           c1 == [contents EXCEPT ![x] = Garbage]
           c2 == [c1 EXCEPT ![x] = <<v>>]
           a1 == alive \cup {x}
<1>1. /\ todo = <<>> /\ todo' = Create(x) \o Upload(x, <<v>>)
      /\ wanted' = [wanted EXCEPT ![x] = <<v>>]
      /\ UNCHANGED <<data, commandBuffer, pending, alive, contents, linked>>
  BY DEF CreateBuffer, Call
<1>2. /\ x \in Buffers /\ <<v>> \in StepValues
      /\ DOMAIN contents = Buffers /\ DOMAIN wanted = Buffers /\ linked \in BOOLEAN
  BY DEF Buffers, StepValues, Inv, Typed
<1>3. Create(x) \in Seq(Steps) /\ Leads(data, Create(x), Idle(alive, contents, B), Idle(a1, c1, B))
  BY <1>2, Creates
<1>4. Upload(x, <<v>>) \in Seq(Steps) /\ Leads(data, Upload(x, <<v>>), Idle(a1, c1, B), Idle(a1, c2, B))
  <2>1. x \in a1 OBVIOUS
  <2> HIDE DEF a1, c1
  <2> QED BY <1>2, <2>1, Uploads
<1>5. AsWanted(alive, contents, wanted, linked) BY <1>1, AtRest
<1>6. AsWanted(a1, c2, wanted', linked')
  BY <1>1, <1>2, <1>5 DEF AsWanted, Inv, Typed
<1> HIDE DEF a1, c1, c2, B
<1>7. /\ Create(x) \o Upload(x, <<v>>) \in Seq(Steps)
      /\ Leads(data, Create(x) \o Upload(x, <<v>>), Idle(alive, contents, B), Idle(a1, c2, B))
  BY <1>3, <1>4, LeadsThrough
<1>8. DOMAIN wanted' = Buffers BY <1>1, <1>2
<1> QED BY <1>1, <1>2, <1>6, <1>7, <1>8, CallKeepsInv DEF B

LEMMA WriteBufferKeepsInv ==
  ASSUME Inv, NEW x \in AppBuffers, NEW v \in Values, WriteBuffer(x, v)
  PROVE  Inv'
<1> DEFINE B == commandBuffer
           c1 == [contents EXCEPT ![x] = <<v>>]
<1>1. /\ todo = <<>> /\ todo' = Upload(x, <<v>>) /\ x \in alive
      /\ wanted' = [wanted EXCEPT ![x] = <<v>>]
      /\ UNCHANGED <<data, commandBuffer, pending, alive, contents, linked>>
  BY DEF WriteBuffer, Call
<1>2. /\ x \in Buffers /\ <<v>> \in StepValues
      /\ DOMAIN contents = Buffers /\ DOMAIN wanted = Buffers /\ linked \in BOOLEAN
  BY DEF Buffers, StepValues, Inv, Typed
<1>3. /\ Upload(x, <<v>>) \in Seq(Steps)
      /\ Leads(data, Upload(x, <<v>>), Idle(alive, contents, B), Idle(alive, c1, B))
  BY <1>1, <1>2, Uploads
<1>4. AsWanted(alive, contents, wanted, linked) BY <1>1, AtRest
<1>5. AsWanted(alive, c1, wanted', linked')
  BY <1>1, <1>2, <1>4 DEF AsWanted, Inv, Typed
<1> HIDE DEF c1, B
<1>6. DOMAIN wanted' = Buffers BY <1>1, <1>2
<1> QED BY <1>1, <1>2, <1>3, <1>5, <1>6, CallKeepsInv DEF B

LEMMA DestroyBufferKeepsInv ==
  ASSUME Inv, NEW x \in AppBuffers, DestroyBuffer(x)
  PROVE  Inv'
<1> DEFINE B == commandBuffer
           c1 == [contents EXCEPT ![x] = Garbage]
           a1 == alive \ {x}
<1>1. /\ todo = <<>> /\ todo' = Destroy(x)
      /\ wanted' = [wanted EXCEPT ![x] = Garbage]
      /\ UNCHANGED <<data, commandBuffer, pending, alive, contents, linked>>
  BY DEF DestroyBuffer, Call
<1>2. /\ x \in Buffers \ {"userAccel", "trianglesAccel", "instanceAccel"}
      /\ DOMAIN contents = Buffers /\ DOMAIN wanted = Buffers /\ linked \in BOOLEAN
  BY DEF Buffers, AppBuffers, Inv, Typed
<1>3. /\ Destroy(x) \in Seq(Steps)
      /\ Leads(data, Destroy(x), Idle(alive, contents, B), Idle(a1, c1, B))
  BY <1>2, Destroys
<1>4. AsWanted(alive, contents, wanted, linked) BY <1>1, AtRest
<1>5. AsWanted(a1, c1, wanted', linked')
  BY <1>1, <1>2, <1>4 DEF AsWanted, Inv, Typed
<1> HIDE DEF a1, c1, B
<1>6. DOMAIN wanted' = Buffers BY <1>1, <1>2
<1> QED BY <1>1, <1>2, <1>3, <1>5, <1>6, CallKeepsInv DEF B

\* Accel::destroyAccel().
Destroyed(x) == IF x \in alive THEN [contents EXCEPT ![x] = Garbage] ELSE contents

LEMMA DestroysIfAlive ==
  ASSUME Inv, NEW x \in Buffers
  PROVE  /\ DestroyIfAlive(x) \in Seq(Steps)
         /\ Leads(data, DestroyIfAlive(x), Idle(alive, contents, commandBuffer),
                  Idle(alive \ {x}, Destroyed(x), commandBuffer))
         /\ DOMAIN Destroyed(x) = Buffers
         /\ \A y \in Buffers \ {x} : Destroyed(x)[y] = contents[y]
<1>1. DOMAIN contents = Buffers BY DEF Inv, Typed
<1>2. DOMAIN Destroyed(x) = Buffers /\ \A y \in Buffers \ {x} : Destroyed(x)[y] = contents[y]
  BY <1>1 DEF Destroyed
<1>3. CASE x \in alive
  BY <1>2, <1>3, Destroys DEF DestroyIfAlive, Destroyed
<1>4. CASE x \notin alive
  <2>1. alive \ {x} = alive /\ Destroyed(x) = contents /\ DestroyIfAlive(x) = <<>>
    BY <1>4 DEF DestroyIfAlive, Destroyed
  <2> QED BY <1>2, <2>1, NothingLeadsNowhere, EmptySeq
<1> QED BY <1>3, <1>4

LEMMA BuildTrianglesAccelKeepsInv ==
  ASSUME Inv, BuildTrianglesAccel
  PROVE  Inv'
<1> DEFINE x == "trianglesAccel"
           B == commandBuffer
           a1 == alive \ {x}
           c1 == Destroyed(x)
           a2 == (a1 \cup {x}) \ {"scratch"}
           c2 == Built(x, c1)
           B2 == Buffering("executable", Command(x, 0))
<1>1. /\ todo = <<>> /\ todo' = DestroyIfAlive(x) \o BuildAccel(x) /\ "vertices" \in alive
      /\ wanted' = [wanted EXCEPT ![x] = contents["vertices"]] /\ linked' = FALSE
      /\ UNCHANGED <<data, commandBuffer, pending, alive, contents>>
  BY DEF BuildTrianglesAccel, Call
<1>2. DOMAIN contents = Buffers /\ DOMAIN wanted = Buffers /\ alive \subseteq Buffers
  BY DEF Inv, Typed
<1>3. x \in Buffers /\ "vertices" \in Buffers \ {x, "scratch"} /\ Source[x] = "vertices"
  BY DEF Buffers, AppBuffers, Source
<1>4. /\ DestroyIfAlive(x) \in Seq(Steps)
      /\ Leads(data, DestroyIfAlive(x), Idle(alive, contents, B), Idle(a1, c1, B))
      /\ DOMAIN c1 = Buffers
      /\ \A y \in Buffers \ {x} : c1[y] = contents[y]
  BY <1>3, DestroysIfAlive
<1>5. Touched(Command(x, 0)) \subseteq a1 \cup {"scratch", x}
  BY <1>1 DEF Touched, Command
<1> HIDE DEF a1, c1
<1>6. /\ DOMAIN c2 = Buffers /\ c2[x] = c1[Source[x]]
      /\ \A y \in Buffers \ {x, "scratch"} : c2[y] = c1[y]
  BY <1>4, WhatIsBuilt
<1>7. BuildAccel(x) \in Seq(Steps) /\ Leads(data, BuildAccel(x), Idle(a1, c1, B), Idle(a2, c2, B2))
  BY <1>5, Builds
<1>8. AsWanted(alive, contents, wanted, linked) BY <1>1, AtRest
<1> HIDE DEF c2, B2, B
<1>9. AsWanted(a2, c2, wanted', linked')
  <2>1. \A y \in a2 : y \in Buffers \ {"scratch"} /\ (y = x \/ y \in alive)
    BY <1>2, <1>3 DEF a1
  <2>2. c2[x] = wanted'[x] BY <1>1, <1>2, <1>3, <1>4, <1>6
  <2>3. \A y \in a2 \ {x, "instances"} : c2[y] = wanted'[y]
    BY <1>1, <1>2, <1>4, <1>6, <1>8, <2>1 DEF AsWanted
  <2> QED BY <2>2, <2>3, <1>1 DEF AsWanted
<1> HIDE DEF a2, x
<1>10. /\ DestroyIfAlive(x) \o BuildAccel(x) \in Seq(Steps)
       /\ Leads(data, DestroyIfAlive(x) \o BuildAccel(x), Idle(alive, contents, B), Idle(a2, c2, B2))
  BY <1>4, <1>7, LeadsThrough
<1>11. DOMAIN wanted' = Buffers /\ linked' \in BOOLEAN BY <1>1, <1>2
<1> QED BY <1>1, <1>9, <1>10, <1>11, CallKeepsInv DEF B

LEMMA BuildUserGeomAccelKeepsInv ==
  ASSUME Inv, BuildUserGeomAccel
  PROVE  Inv'
<1> DEFINE x == "userAccel"
           B == commandBuffer
           B4 == Buffering("executable", NoCommand)
           B5 == Buffering("executable", Command(x, 0))
           a1 == alive \ {x}
           a2 == a1 \cup {"geomData"}
           a3 == a2 \cup {"bounds"}
           a5 == (a3 \cup {x}) \ {"scratch"}
           a6 == a5 \ {"bounds"}
           a7 == a6 \ {"geomData"}
           c1 == Destroyed(x)
           c2 == [c1 EXCEPT !["geomData"] = Garbage]
           c3 == [c2 EXCEPT !["bounds"] = Garbage]
           c4 == LoopDone(data, 1, c3)
           c5 == Built(x, c4)
           c6 == [c5 EXCEPT !["bounds"] = Garbage]
           c7 == [c6 EXCEPT !["geomData"] = Garbage]
           q1 == DestroyIfAlive(x)
           q2 == q1 \o Create("geomData")
           q3 == q2 \o Create("bounds")
           q4 == q3 \o BoundsFrom(1)
           q5 == q4 \o BuildAccel(x)
           q6 == q5 \o Destroy("bounds")
           q7 == q6 \o Destroy("geomData")
<1>1. /\ todo = <<>> /\ todo' = q7
      /\ wanted' = [wanted EXCEPT ![x] = data] /\ linked' = FALSE
      /\ UNCHANGED <<data, commandBuffer, pending, alive, contents>>
  BY DEF BuildUserGeomAccel, Call
<1>2. /\ DOMAIN contents = Buffers /\ DOMAIN wanted = Buffers /\ alive \subseteq Buffers
      /\ data \in [Geoms -> Values]
  BY DEF Inv, Typed
<1>3. /\ x \in Buffers /\ "geomData" \in Buffers /\ "bounds" \in Buffers \ {x, "scratch"}
      /\ Source[x] = "bounds" /\ 1 \in Geoms
  BY NumGeomsAssumption DEF Buffers, AppBuffers, Source, Geoms
<1>4. /\ q1 \in Seq(Steps) /\ Leads(data, q1, Idle(alive, contents, B), Idle(a1, c1, B))
      /\ DOMAIN c1 = Buffers /\ \A y \in Buffers \ {x} : c1[y] = contents[y]
  BY <1>3, DestroysIfAlive
<1> HIDE DEF c1, q1, B
<1>5. /\ Create("geomData") \in Seq(Steps)
      /\ Leads(data, Create("geomData"), Idle(a1, c1, B), Idle(a2, c2, B))
  BY <1>3, Creates
<1>6. /\ Create("bounds") \in Seq(Steps)
      /\ Leads(data, Create("bounds"), Idle(a2, c2, B), Idle(a3, c3, B))
  BY <1>3, Creates
<1>7. /\ DOMAIN c3 = Buffers /\ c3["bounds"] = Garbage
      /\ \A y \in Buffers \ {x, "geomData", "bounds"} : c3[y] = contents[y]
  BY <1>3, <1>4
<1> HIDE DEF c2, c3
<1>8. /\ BoundsFrom(1) \in Seq(Steps)
      /\ Leads(data, BoundsFrom(1), Idle(a3, c3, B), Idle(a3, c4, B4))
  <2>1. {"geomData", "bounds"} \subseteq a3 OBVIOUS
  <2>2. c3["bounds"] \in BoundsContents BY <1>7 DEF BoundsContents
  <2> HIDE DEF a3
  <2> QED BY <1>3, <1>7, <2>1, <2>2, LoopIsFollowed
<1>9. /\ DOMAIN c4 = Buffers /\ c4["bounds"] = data
      /\ \A y \in Buffers \ {x, "geomData", "bounds"} : c4[y] = contents[y]
  <2>1. BoundsDone(data, 1, Garbage) = data
    <3>1. \A h \in Geoms : h >= 1 BY DEF Geoms
    <3> QED BY <3>1, <1>2 DEF BoundsDone
  <2> QED BY <2>1, <1>7, <1>3 DEF LoopDone
<1> HIDE DEF c4
<1>10. /\ BuildAccel(x) \in Seq(Steps)
       /\ Leads(data, BuildAccel(x), Idle(a3, c4, B4), Idle(a5, c5, B5))
  <2>1. Touched(Command(x, 0)) \subseteq a3 \cup {"scratch", x} BY DEF Touched, Command
  <2> HIDE DEF a3
  <2> QED BY <2>1, Builds
<1>11. /\ DOMAIN c5 = Buffers /\ c5[x] = c4[Source[x]]
       /\ \A y \in Buffers \ {x, "scratch"} : c5[y] = c4[y]
  BY <1>9, WhatIsBuilt
<1> HIDE DEF c5
<1>12. /\ Destroy("bounds") \in Seq(Steps)
       /\ Leads(data, Destroy("bounds"), Idle(a5, c5, B5), Idle(a6, c6, B5))
  BY <1>3, Destroys
<1>13. /\ Destroy("geomData") \in Seq(Steps)
       /\ Leads(data, Destroy("geomData"), Idle(a6, c6, B5), Idle(a7, c7, B5))
  BY <1>3, Destroys
<1>14. /\ DOMAIN c7 = Buffers /\ c7[x] = data
       /\ \A y \in Buffers \ {x, "geomData", "bounds", "scratch"} : c7[y] = contents[y]
  BY <1>3, <1>9, <1>11
<1>15. AsWanted(alive, contents, wanted, linked) BY <1>1, AtRest
<1> HIDE DEF c6, c7
<1>16. AsWanted(a7, c7, wanted', linked')
  <2>1. \A y \in a7 : y = x \/ y \in alive \ {x, "geomData", "bounds", "scratch"}
    OBVIOUS
  <2>2. c7[x] = wanted'[x] BY <1>1, <1>2, <1>3, <1>14
  <2>3. \A y \in a7 \ {x, "instances"} : c7[y] = wanted'[y]
    BY <1>1, <1>2, <1>14, <1>15, <2>1 DEF AsWanted
  <2> QED BY <2>2, <2>3, <1>1 DEF AsWanted
<1> HIDE DEF B4, B5, a1, a2, a3, a5, a6, a7, x
<1>17. q2 \in Seq(Steps) /\ Leads(data, q2, Idle(alive, contents, B), Idle(a2, c2, B))
  BY <1>4, <1>5, LeadsThrough
<1> HIDE DEF q2
<1>18. q3 \in Seq(Steps) /\ Leads(data, q3, Idle(alive, contents, B), Idle(a3, c3, B))
  BY <1>6, <1>17, LeadsThrough
<1> HIDE DEF q3
<1>19. q4 \in Seq(Steps) /\ Leads(data, q4, Idle(alive, contents, B), Idle(a3, c4, B4))
  BY <1>8, <1>18, LeadsThrough
<1> HIDE DEF q4
<1>20. q5 \in Seq(Steps) /\ Leads(data, q5, Idle(alive, contents, B), Idle(a5, c5, B5))
  BY <1>10, <1>19, LeadsThrough
<1> HIDE DEF q5
<1>21. q6 \in Seq(Steps) /\ Leads(data, q6, Idle(alive, contents, B), Idle(a6, c6, B5))
  BY <1>12, <1>20, LeadsThrough
<1> HIDE DEF q6
<1>22. q7 \in Seq(Steps) /\ Leads(data, q7, Idle(alive, contents, B), Idle(a7, c7, B5))
  BY <1>13, <1>21, LeadsThrough
<1> HIDE DEF q7
<1>23. DOMAIN wanted' = Buffers /\ linked' \in BOOLEAN BY <1>1, <1>2
<1> QED BY <1>1, <1>16, <1>22, <1>23, CallKeepsInv DEF B

LEMMA BuildInstanceAccelKeepsInv ==
  ASSUME Inv, BuildInstanceAccel
  PROVE  Inv'
<1> DEFINE x == "instanceAccel"
           B == commandBuffer
           B4 == Buffering("executable", Command(x, 0))
           a1 == alive \ {x}
           a2 == a1 \cup {"instances"}
           a4 == (a2 \cup {x}) \ {"scratch"}
           c1 == Destroyed(x)
           c2 == [c1 EXCEPT !["instances"] = Garbage]
           c3 == [c2 EXCEPT !["instances"] = "addresses"]
           c4 == Built(x, c3)
           q1 == DestroyIfAlive(x)
           q2 == q1 \o Create("instances")
           q3 == q2 \o Upload("instances", "addresses")
           q4 == q3 \o BuildAccel(x)
<1>1. /\ todo = <<>> /\ todo' = q4
      /\ {"userAccel", "trianglesAccel"} \subseteq alive
      /\ wanted' = [wanted EXCEPT ![x] = "addresses"] /\ linked' = TRUE
      /\ UNCHANGED <<data, commandBuffer, pending, alive, contents>>
  BY DEF BuildInstanceAccel, Call
<1>2. /\ DOMAIN contents = Buffers /\ DOMAIN wanted = Buffers /\ alive \subseteq Buffers
  BY DEF Inv, Typed
<1>3. /\ x \in Buffers /\ "instances" \in Buffers \ {x, "scratch"}
      /\ Source[x] = "instances" /\ "addresses" \in StepValues
  BY DEF Buffers, AppBuffers, Source, StepValues
<1>4. /\ q1 \in Seq(Steps) /\ Leads(data, q1, Idle(alive, contents, B), Idle(a1, c1, B))
      /\ DOMAIN c1 = Buffers /\ \A y \in Buffers \ {x} : c1[y] = contents[y]
  BY <1>3, DestroysIfAlive
<1> HIDE DEF c1, q1, B
<1>5. /\ Create("instances") \in Seq(Steps)
      /\ Leads(data, Create("instances"), Idle(a1, c1, B), Idle(a2, c2, B))
  BY <1>3, Creates
<1>6. DOMAIN c2 = Buffers /\ \A y \in Buffers \ {x, "instances"} : c2[y] = contents[y]
  BY <1>4
<1> HIDE DEF c2
<1>7. /\ Upload("instances", "addresses") \in Seq(Steps)
      /\ Leads(data, Upload("instances", "addresses"), Idle(a2, c2, B), Idle(a2, c3, B))
  BY <1>3, Uploads
<1>8. /\ DOMAIN c3 = Buffers /\ c3["instances"] = "addresses"
      /\ \A y \in Buffers \ {x, "instances"} : c3[y] = contents[y]
  BY <1>3, <1>6
<1> HIDE DEF c3
<1>9. BuildAccel(x) \in Seq(Steps) /\ Leads(data, BuildAccel(x), Idle(a2, c3, B), Idle(a4, c4, B4))
  <2>1. Touched(Command(x, 0)) \subseteq a2 \cup {"scratch", x} BY <1>1 DEF Touched, Command
  <2> HIDE DEF a2
  <2> QED BY <2>1, Builds
<1>10. /\ DOMAIN c4 = Buffers /\ c4[x] = c3[Source[x]]
       /\ \A y \in Buffers \ {x, "scratch"} : c4[y] = c3[y]
  BY <1>8, WhatIsBuilt
<1> HIDE DEF c4
<1>11. AsWanted(alive, contents, wanted, linked) BY <1>1, AtRest
<1>12. AsWanted(a4, c4, wanted', linked')
  <2>1. \A y \in a4 : y = x \/ y \in {"instances"} \cup (alive \ {x, "scratch"}) OBVIOUS
  <2>2. c4[x] = wanted'[x] BY <1>1, <1>2, <1>3, <1>8, <1>10
  <2>3. \A y \in a4 \ {x, "instances"} : c4[y] = wanted'[y]
    BY <1>1, <1>2, <1>8, <1>10, <1>11, <2>1 DEF AsWanted
  <2>4. {"userAccel", "trianglesAccel", "instanceAccel"} \subseteq a4 BY <1>1
  <2> HIDE DEF a4, x
  <2> QED BY <2>2, <2>3, <2>4 DEF AsWanted
<1> HIDE DEF B4, a1, a2, a4, x
<1>13. q2 \in Seq(Steps) /\ Leads(data, q2, Idle(alive, contents, B), Idle(a2, c2, B))
  BY <1>4, <1>5, LeadsThrough
<1> HIDE DEF q2
<1>14. q3 \in Seq(Steps) /\ Leads(data, q3, Idle(alive, contents, B), Idle(a2, c3, B))
  BY <1>7, <1>13, LeadsThrough
<1> HIDE DEF q3
<1>15. q4 \in Seq(Steps) /\ Leads(data, q4, Idle(alive, contents, B), Idle(a4, c4, B4))
  BY <1>9, <1>14, LeadsThrough
<1> HIDE DEF q4
<1>16. DOMAIN wanted' = Buffers /\ linked' \in BOOLEAN BY <1>1, <1>2
<1> QED BY <1>1, <1>12, <1>15, <1>16, CallKeepsInv DEF B

LEMMA CreateImageKeepsInv ==
  ASSUME Inv, CreateImage
  PROVE  Inv'
<1> DEFINE x == "image"
           command == Command("image", 0)
           B == commandBuffer
           B3 == Buffering("executable", command)
           a1 == alive \cup {x}
           c1 == [contents EXCEPT ![x] = Garbage]
           c2 == [c1 EXCEPT ![x] = "texels"]
           q1 == Create(x)
           q2 == q1 \o Upload(x, "texels")
           q3 == q2 \o Submission(command)
<1>1. /\ todo = <<>> /\ todo' = q3
      /\ wanted' = [wanted EXCEPT ![x] = "texels"]
      /\ UNCHANGED <<data, commandBuffer, pending, alive, contents, linked>>
  BY DEF CreateImage, Call
<1>2. /\ DOMAIN contents = Buffers /\ DOMAIN wanted = Buffers /\ alive \subseteq Buffers
      /\ linked \in BOOLEAN
  BY DEF Inv, Typed
<1>3. x \in Buffers /\ "texels" \in StepValues /\ command \in Commands
  BY NumGeomsAssumption DEF Buffers, StepValues, Commands, Command, Kernels
<1>4. q1 \in Seq(Steps) /\ Leads(data, q1, Idle(alive, contents, B), Idle(a1, c1, B))
  BY <1>3, Creates
<1>5. /\ Upload(x, "texels") \in Seq(Steps)
      /\ Leads(data, Upload(x, "texels"), Idle(a1, c1, B), Idle(a1, c2, B))
  <2>1. x \in a1 OBVIOUS
  <2> HIDE DEF a1, c1
  <2> QED BY <1>3, <2>1, Uploads
<1>6. AsWanted(alive, contents, wanted, linked) BY <1>1, AtRest
<1>7. AsWanted(a1, c2, wanted', linked')
  BY <1>1, <1>2, <1>3, <1>6 DEF AsWanted
<1> HIDE DEF c2
<1>8. /\ Submission(command) \in Seq(Steps)
      /\ Leads(data, Submission(command), Idle(a1, c2, B), Idle(a1, c2, B3))
  <2>1. Touched(command) \subseteq a1 BY DEF Touched, Command
  <2>2. ResultOn(c2, command) = c2 BY DEF ResultOn, Command
  <2> HIDE DEF a1, command
  <2> QED BY <2>1, <2>2, <1>3, Submits
<1> HIDE DEF a1, c1, B, B3, x, q1, command
<1>9. q2 \in Seq(Steps) /\ Leads(data, q2, Idle(alive, contents, B), Idle(a1, c2, B))
  BY <1>4, <1>5, LeadsThrough
<1> HIDE DEF q2
<1>10. q3 \in Seq(Steps) /\ Leads(data, q3, Idle(alive, contents, B), Idle(a1, c2, B3))
  BY <1>8, <1>9, LeadsThrough
<1> HIDE DEF q3
<1>11. DOMAIN wanted' = Buffers BY <1>1, <1>2
<1> QED BY <1>1, <1>2, <1>7, <1>10, <1>11, CallKeepsInv DEF B

LEMMA BuildSBTKeepsInv ==
  ASSUME Inv, BuildSBT
  PROVE  Inv'
<1> DEFINE x == "hitGroupRecords"
           B == commandBuffer
           a1 == alive \cup {x}
           c1 == [contents EXCEPT ![x] = Garbage]
           c2 == [c1 EXCEPT ![x] = "records"]
           q == Create(x) \o Upload(x, "records")
<1>1. /\ todo = <<>> /\ todo' = q
      /\ wanted' = [wanted EXCEPT ![x] = "records"]
      /\ UNCHANGED <<data, commandBuffer, pending, alive, contents, linked>>
  BY DEF BuildSBT, Call
<1>2. /\ DOMAIN contents = Buffers /\ DOMAIN wanted = Buffers /\ alive \subseteq Buffers
      /\ linked \in BOOLEAN
  BY DEF Inv, Typed
<1>3. x \in Buffers /\ "records" \in StepValues
  BY DEF Buffers, StepValues
<1>4. Create(x) \in Seq(Steps) /\ Leads(data, Create(x), Idle(alive, contents, B), Idle(a1, c1, B))
  BY <1>3, Creates
<1>5. /\ Upload(x, "records") \in Seq(Steps)
      /\ Leads(data, Upload(x, "records"), Idle(a1, c1, B), Idle(a1, c2, B))
  <2>1. x \in a1 OBVIOUS
  <2> HIDE DEF a1, c1
  <2> QED BY <1>3, <2>1, Uploads
<1>6. AsWanted(alive, contents, wanted, linked) BY <1>1, AtRest
<1>7. AsWanted(a1, c2, wanted', linked')
  BY <1>1, <1>2, <1>3, <1>6 DEF AsWanted
<1> HIDE DEF a1, c1, c2, B, x
<1>8. q \in Seq(Steps) /\ Leads(data, q, Idle(alive, contents, B), Idle(a1, c2, B))
  BY <1>4, <1>5, LeadsThrough
<1> HIDE DEF q
<1>9. DOMAIN wanted' = Buffers BY <1>1, <1>2
<1> QED BY <1>1, <1>2, <1>7, <1>8, <1>9, CallKeepsInv DEF B

LEMMA LaunchKeepsInv ==
  ASSUME Inv, Launch
  PROVE  Inv'
<1> DEFINE x == "frame"
           command == Command("trace", 0)
           B == commandBuffer
           B1 == Buffering("executable", NoCommand)
           c1 == [contents EXCEPT ![x] = Traced]
           q == ComputeLaunch(command)
<1>1. /\ todo = <<>> /\ todo' = q /\ linked /\ {"hitGroupRecords", x} \subseteq alive
      /\ wanted' = [wanted EXCEPT ![x] = Traced]
      /\ UNCHANGED <<data, commandBuffer, pending, alive, contents, linked>>
  BY DEF Launch, Call
<1>2. /\ DOMAIN contents = Buffers /\ DOMAIN wanted = Buffers /\ alive \subseteq Buffers
      /\ linked \in BOOLEAN
  BY DEF Inv, Typed
<1>3. x \in Buffers /\ command \in Commands
  BY NumGeomsAssumption DEF Buffers, AppBuffers, Commands, Command, Kernels
<1>4. AsWanted(alive, contents, wanted, linked) BY <1>1, AtRest
<1>5. Touched(command) \subseteq alive BY <1>1, <1>4 DEF AsWanted, Touched, Command
<1>6. ResultOn(contents, command) = c1 BY DEF ResultOn, Traced, Command
<1>7. AsWanted(alive, c1, wanted', linked') BY <1>1, <1>2, <1>3, <1>4 DEF AsWanted
<1> HIDE DEF c1, command, x, B
<1>8. q \in Seq(Steps) /\ Leads(data, q, Idle(alive, contents, B), Idle(alive, c1, B1))
  BY <1>3, <1>5, <1>6, Launches
<1> HIDE DEF q, B1
<1>9. DOMAIN wanted' = Buffers BY <1>1, <1>2
<1> QED BY <1>1, <1>2, <1>7, <1>8, <1>9, CallKeepsInv DEF B

---------------------------------------------------------------------------
(* The host and the GPU.                                                   *)

LEMMA HostStepKeepsInv ==
  ASSUME Inv, todo # <<>>, todo' = Tail(todo),
         Now' = After(data, Head(todo), Now),
         UNCHANGED <<data, wanted, linked>>,
         Typed'
  PROVE  Inv'
<1>1. PICK a, c, b : /\ Leads(data, Tail(todo), After(data, Head(todo), Now), Idle(a, c, b))
                     /\ AsWanted(a, c, wanted, linked)
  BY InProgress
<1>2. /\ Leads(data', todo', Now', Idle(a, c, b)) /\ AsWanted(a, c, wanted', linked')
  BY <1>1
<1>3. \E e, f, g : Leads(data', todo', Now', Idle(e, f, g)) /\ AsWanted(e, f, wanted', linked')
  BY <1>2
<1> QED BY <1>3 DEF Inv

LEMMA HostKeepsInv ==
  ASSUME Inv, Host
  PROVE  Inv'
<1> DEFINE x == Head(todo)
<1>1. todo # <<>>
  BY DEF Host, HostCreates, HostDestroys, HostWrites, HostBegins, HostRecords, HostEnds,
    HostSubmits, HostWaits, HostLoops, Do
<1>2. /\ x \in Steps /\ Tail(todo) \in Seq(Steps)
      /\ Allowed(x, Now)
  BY <1>1, InProgress
<1>3. Typed BY DEF Inv
<1>4. x.command \in Commands /\ NoCommand \in Commands BY <1>2, StepsTyped DEF Steps
<1>5. CASE HostCreates
  <2>1. x.do = "create" BY <1>5 DEF HostCreates, Do
  <2>2. pending = <<>> /\ x.buffer \in Buffers BY <1>2, <2>1 DEF Allowed, Now, Machine
  <2>3. Now' = After(data, x, Now) BY <1>5, <2>1 DEF HostCreates, Now, After, Machine
  <2>4. Typed' BY <1>2, <1>3, <1>5, <2>2 DEF Typed, HostCreates, Do
  <2>5. todo' = Tail(todo) /\ UNCHANGED <<data, wanted, linked>> BY <1>5 DEF HostCreates, Do
  <2> HIDE DEF x
  <2> QED BY <1>1, <2>3, <2>4, <2>5, HostStepKeepsInv DEF x
<1>6. CASE HostDestroys
  <2>1. x.do = "destroy" BY <1>6 DEF HostDestroys, Do
  <2>2. pending = <<>> /\ x.buffer \in Buffers BY <1>2, <2>1 DEF Allowed, Now, Machine
  <2>3. Now' = After(data, x, Now) BY <1>6, <2>1 DEF HostDestroys, Now, After, Machine
  <2>4. Typed' BY <1>2, <1>3, <1>6, <2>2 DEF Typed, HostDestroys, Do
  <2>5. todo' = Tail(todo) /\ UNCHANGED <<data, wanted, linked>> BY <1>6 DEF HostDestroys, Do
  <2> QED BY <1>1, <2>3, <2>4, <2>5, HostStepKeepsInv
<1>7. CASE HostWrites
  <2>1. x.do = "upload" BY <1>7 DEF HostWrites, Do
  <2>2. pending = <<>> /\ x.buffer \in alive BY <1>2, <2>1 DEF Allowed, Now, Machine
  <2>3. Now' = After(data, x, Now) BY <1>7, <2>1 DEF HostWrites, Now, After, Machine
  <2>4. Typed' BY <1>2, <1>3, <1>7, <2>2 DEF Typed, HostWrites, Do
  <2>5. todo' = Tail(todo) /\ UNCHANGED <<data, wanted, linked>> BY <1>7 DEF HostWrites, Do
  <2> QED BY <1>1, <2>3, <2>4, <2>5, HostStepKeepsInv
<1>8. CASE HostBegins
  <2>1. x.do = "begin" BY <1>8 DEF HostBegins, Do
  <2>2. Now' = After(data, x, Now) BY <1>8, <2>1 DEF HostBegins, Now, After, Machine, Buffering
  <2>3. Typed' BY <1>2, <1>3, <1>4, <1>8 DEF Typed, HostBegins, Do, CommandBuffers
  <2>4. todo' = Tail(todo) /\ UNCHANGED <<data, wanted, linked>> BY <1>8 DEF HostBegins, Do
  <2> QED BY <1>1, <2>2, <2>3, <2>4, HostStepKeepsInv
<1>9. CASE HostRecords
  <2>1. x.do = "record" BY <1>9 DEF HostRecords, Do
  <2>2. commandBuffer' = Buffering(commandBuffer.state, x.command)
    BY <1>3, <1>9 DEF HostRecords, Typed, CommandBuffers, Buffering
  <2>3. Now' = After(data, x, Now) BY <1>9, <2>1, <2>2 DEF HostRecords, Now, After, Machine
  <2>4. Typed'
    BY <1>2, <1>3, <1>4, <1>9, <2>2 DEF Typed, HostRecords, Do, CommandBuffers, Buffering
  <2>5. todo' = Tail(todo) /\ UNCHANGED <<data, wanted, linked>> BY <1>9 DEF HostRecords, Do
  <2> QED BY <1>1, <2>3, <2>4, <2>5, HostStepKeepsInv
<1>10. CASE HostEnds
  <2>1. x.do = "end" BY <1>10 DEF HostEnds, Do
  <2>2. commandBuffer' = Buffering("executable", commandBuffer.command)
    BY <1>3, <1>10 DEF HostEnds, Typed, CommandBuffers, Buffering
  <2>3. Now' = After(data, x, Now) BY <1>10, <2>1, <2>2 DEF HostEnds, Now, After, Machine
  <2>4. Typed'
    BY <1>2, <1>3, <1>10, <2>2 DEF Typed, HostEnds, Do, CommandBuffers, Buffering
  <2>5. todo' = Tail(todo) /\ UNCHANGED <<data, wanted, linked>> BY <1>10 DEF HostEnds, Do
  <2> QED BY <1>1, <2>3, <2>4, <2>5, HostStepKeepsInv
<1>11. CASE HostSubmits
  <2>1. x.do = "submit" BY <1>11 DEF HostSubmits, Do
  <2>2. pending = <<>> BY <1>2, <2>1 DEF Allowed, Now, Machine
  <2>3. pending' = <<commandBuffer.command>>
    <3>1. pending' = Append(<<>>, commandBuffer.command) BY <1>11, <2>2 DEF HostSubmits
    <3> QED BY <3>1
  <2>4. Now' = After(data, x, Now) BY <1>11, <2>1, <2>3 DEF HostSubmits, Now, After, Machine
  <2>5. Typed' BY <1>2, <1>3, <1>11 DEF Typed, HostSubmits, Do
  <2>6. todo' = Tail(todo) /\ UNCHANGED <<data, wanted, linked>> BY <1>11 DEF HostSubmits, Do
  <2> QED BY <1>1, <2>4, <2>5, <2>6, HostStepKeepsInv
<1>12. CASE HostWaits
  <2>1. x.do = "wait" /\ pending = <<>> BY <1>12 DEF HostWaits, Do
  <2>2. Now' = After(data, x, Now) BY <1>12, <2>1 DEF HostWaits, Now, After, Machine
  <2>3. Typed' BY <1>2, <1>3, <1>12 DEF Typed, HostWaits, Do
  <2>4. todo' = Tail(todo) /\ UNCHANGED <<data, wanted, linked>> BY <1>12 DEF HostWaits, Do
  <2> QED BY <1>1, <2>2, <2>3, <2>4, HostStepKeepsInv
<1>13. CASE HostLoops
  <2> DEFINE g == x.command.geom
             q == Upload("geomData", data[g]) \o ComputeLaunch(Command("bounds", g)) \o BoundsFrom(g + 1)
             B == Buffering("executable", NoCommand)
             t == Idle(alive, LoopDone(data, g, contents), B)
  <2>1. x.do = "loop" BY <1>13 DEF HostLoops
  <2>2. /\ pending = <<>> /\ x.command.kernel = "bounds" /\ g \in Geoms
        /\ {"geomData", "bounds"} \subseteq alive
        /\ DOMAIN contents = Buffers /\ contents["bounds"] \in BoundsContents
    BY <1>2, <2>1 DEF Allowed, Now, Machine
  <2>3. x.command = Command("bounds", g)
    BY <1>4, <2>2 DEF Commands, Command
  <2>4. todo' = q \o Tail(todo)
    BY <1>13, <2>3 DEF HostLoops
  <2>5. data \in [Geoms -> Values] BY <1>3 DEF Typed
  <2>6. After(data, x, Now) = t
    BY <2>1, <2>2 DEF After, Now, Idle, Machine
  <2>7. Now = Idle(alive, contents, commandBuffer) BY <2>2 DEF Now, Idle
  <2> HIDE DEF g, x
  <2>8. q \in Seq(Steps) /\ Leads(data, q, Now, t)
    BY <2>2, <2>5, <2>7, LoopUnrolls
  <2>9. PICK a, c, b : /\ Leads(data, Tail(todo), After(data, x, Now), Idle(a, c, b))
                       /\ AsWanted(a, c, wanted, linked)
    BY <1>1, InProgress DEF x
  <2> HIDE DEF q, t
  <2>10. q \o Tail(todo) \in Seq(Steps) /\ Leads(data, q \o Tail(todo), Now, Idle(a, c, b))
    BY <1>2, <2>6, <2>8, <2>9, LeadsThrough
  <2>11. UNCHANGED <<data, commandBuffer, pending, alive, contents, wanted, linked>>
    BY <1>13 DEF HostLoops
  <2>12. Typed' BY <1>3, <2>4, <2>10, <2>11 DEF Typed
  <2>13. Now' = Now BY <2>11 DEF Now
  <2>14. Leads(data', todo', Now', Idle(a, c, b)) /\ AsWanted(a, c, wanted', linked')
    BY <2>4, <2>9, <2>10, <2>11, <2>13
  <2> QED BY <2>12, <2>14 DEF Inv
<1> QED BY <1>5, <1>6, <1>7, <1>8, <1>9, <1>10, <1>11, <1>12, <1>13 DEF Host

LEMMA ResultIsResultOn ==
  ASSUME NEW command
  PROVE  Result(command) = ResultOn(contents, command)
  BY DEF Result, ResultOn, Traced

LEMMA ExecuteKeepsInv ==
  ASSUME Inv, Execute
  PROVE  Inv'
<1> DEFINE command == commandBuffer.command
<1>1. PICK n \in DOMAIN pending :
        /\ contents' = Result(pending[n])
        /\ pending' = RemoveAt(pending, n)
        /\ UNCHANGED <<data, todo, commandBuffer, alive, wanted, linked>>
  BY DEF Execute
<1>2. pending # <<>> BY <1>1
<1>3. /\ todo # <<>> /\ Head(todo).do = "wait"
      /\ commandBuffer.state = "executable"
      /\ command \in Commands
      /\ pending = <<command>>
      /\ Touched(command) \subseteq alive
  BY <1>2, WorkIsAwaited
<1> HIDE DEF command
<1>4. n = 1 /\ pending[n] = command BY <1>1, <1>3
<1>5. pending' = <<>>
  <2>1. Len(<<command>>) = 1 OBVIOUS
  <2>2. SubSeq(<<command>>, 1, 1 - 1) = <<>> /\ SubSeq(<<command>>, 1 + 1, 1) = <<>>
    BY SubSeqEmpty
  <2>3. pending' = <<>> \o <<>> BY <1>1, <1>3, <1>4, <2>1, <2>2 DEF RemoveAt
  <2> QED BY <2>3
<1>6. contents' = ResultOn(contents, command) BY <1>1, <1>4, ResultIsResultOn
<1>7. Now = Machine(alive, contents, commandBuffer, <<command>>) BY <1>3 DEF Now
<1>8. Now' = Idle(alive, ResultOn(contents, command), commandBuffer)
  BY <1>1, <1>5, <1>6 DEF Now, Idle
<1>9. Allowed(Head(todo), Now') BY <1>3, <1>8 DEF Allowed, Idle, Machine, command
<1>10. After(data, Head(todo), Now') = After(data, Head(todo), Now)
  <2>1. After(data, Head(todo), Now) = Now'
    <3>1. <<command>> # <<>> OBVIOUS
    <3> QED BY <1>3, <1>7, <1>8, <3>1 DEF After, Machine, Idle, command
  <2>2. After(data, Head(todo), Now') = Now'
    BY <1>3, <1>8 DEF After, Machine, Idle
  <2> QED BY <2>1, <2>2
<1>11. PICK a, c, b : Leads(data, todo, Now, Idle(a, c, b)) /\ AsWanted(a, c, wanted, linked)
  BY DEF Inv
<1>12. todo \in Seq(Steps) BY DEF Inv, Typed
<1> DEFINE m == Now'
<1>13. Allowed(Head(todo), m) /\ After(data, Head(todo), m) = After(data, Head(todo), Now)
  BY <1>9, <1>10
<1> HIDE DEF m
<1>14. Leads(data, todo, m, Idle(a, c, b)) BY <1>3, <1>11, <1>12, <1>13, AnotherStart
<1>15. Leads(data', todo', Now', Idle(a, c, b)) /\ AsWanted(a, c, wanted', linked')
  BY <1>1, <1>11, <1>14 DEF m
<1>16. Typed'
  <2>1. DOMAIN contents' = Buffers
    BY <1>3, <1>6 DEF Inv, Typed, ResultOn, Commands
  <2>2. \A b2 \in Buffers \ alive : contents'[b2] = Garbage
    <3>1. \A b2 \in Buffers \ Touched(command) : contents'[b2] = contents[b2]
      BY <1>3, <1>6 DEF Inv, Typed, ResultOn, Touched, Commands, Kernels
    <3> QED BY <3>1, <1>3 DEF Inv, Typed
  <2> QED BY <1>1, <2>1, <2>2 DEF Inv, Typed
<1> QED BY <1>15, <1>16 DEF Inv

---------------------------------------------------------------------------
(* The theorems.                                                           *)

LEMMA NextKeepsInv == Inv /\ [Next]_vars => Inv'
<1> SUFFICES ASSUME Inv, [Next]_vars PROVE Inv' OBVIOUS
<1>1. CASE Application
  BY <1>1, SetDataKeepsInv, CreateBufferKeepsInv, WriteBufferKeepsInv, DestroyBufferKeepsInv,
    BuildUserGeomAccelKeepsInv, BuildTrianglesAccelKeepsInv, BuildInstanceAccelKeepsInv,
    CreateImageKeepsInv, BuildSBTKeepsInv, LaunchKeepsInv DEF Application
<1>2. CASE Host BY <1>2, HostKeepsInv
<1>3. CASE Execute BY <1>3, ExecuteKeepsInv
<1>4. CASE UNCHANGED vars BY <1>4 DEF vars, Inv, Typed, Now, Leads, AsWanted
<1> QED BY <1>1, <1>2, <1>3, <1>4 DEF Next

LEMMA InvAlways == Spec => []Inv
  BY InitInv, NextKeepsInv, PTL DEF Spec

\* TypeOK: the contents of what does not exist are garbage, and only commands of
\* the device are ever submitted.
THEOREM TypesAlwaysOK == Spec => []TypeOK
<1>1. ASSUME Inv PROVE TypeOK
  <2>1. \A n \in DOMAIN pending : pending[n].kernel \in Kernels /\ pending[n].geom \in 0 .. NumGeoms
    <3>1. CASE pending = <<>> BY <3>1
    <3>2. CASE pending # <<>> BY <1>1, <3>2, WorkIsAwaited DEF Commands
    <3> QED BY <3>1, <3>2
  <2> QED BY <1>1, <2>1 DEF Inv, Typed, TypeOK, CommandBuffers
<1> QED BY <1>1, InvAlways, PTL

\* Before the GPU is done the one thing the host could do is wait, and it cannot.
LEMMA NothingHappensUnderWork ==
  ASSUME Inv, [Next]_vars, pending # <<>>, ~ Execute
  PROVE  UNCHANGED <<commandBuffer, alive, contents>>
<1>1. todo # <<>> /\ Head(todo).do = "wait" BY WorkIsAwaited
<1>2. ~ Application
  BY <1>1 DEF Application, SetData, CreateBuffer, WriteBuffer, DestroyBuffer, BuildUserGeomAccel,
    BuildTrianglesAccel, BuildInstanceAccel, CreateImage, BuildSBT, Launch, Call
<1>3. ~ Host
  BY <1>1 DEF Host, HostCreates, HostDestroys, HostWrites, HostBegins, HostRecords, HostEnds,
    HostSubmits, HostWaits, HostLoops, Do
<1>4. UNCHANGED vars BY <1>2, <1>3 DEF Next
<1> QED BY <1>4 DEF vars

\* WorkIsUndisturbed: the command buffer is never recorded into while work is
\* pending, all that submitted work uses exists, and until the GPU has done it
\* nothing is recorded, created, written, replaced or destroyed.
THEOREM WorkAlwaysUndisturbed == Spec => WorkIsUndisturbed
<1> DEFINE Sound == pending # <<>> =>
             /\ commandBuffer.state # "recording"
             /\ \A n \in DOMAIN pending : Touched(pending[n]) \subseteq alive
           Still == pending # <<>> /\ ~ Execute => UNCHANGED <<commandBuffer, alive, contents>>
<1>1. ASSUME Inv PROVE Sound
  <2>1. ASSUME pending # <<>>
        PROVE  /\ commandBuffer.state # "recording"
               /\ \A n \in DOMAIN pending : Touched(pending[n]) \subseteq alive
    <3>1. /\ commandBuffer.state = "executable" /\ pending = <<commandBuffer.command>>
          /\ Touched(commandBuffer.command) \subseteq alive
      BY <1>1, <2>1, WorkIsAwaited
    <3>2. \A n \in DOMAIN pending : pending[n] = commandBuffer.command BY <3>1
    <3> QED BY <3>1, <3>2
  <2> QED BY <2>1
<1>2. Inv /\ [Next]_vars => [Still]_vars
  BY NothingHappensUnderWork
<1>3. WorkIsUndisturbed <=> []Sound /\ [][Still]_vars BY DEF WorkIsUndisturbed
<1> HIDE DEF Sound, Still
<1>4. Spec => []Sound /\ [][Still]_vars
  BY <1>1, <1>2, InvAlways, PTL DEF Spec
<1> QED BY <1>3, <1>4

\* ResultsAreThoseAskedFor: whenever no call is in progress, every buffer holds
\* what the calls made so far ask for, however late the GPU did its part.
THEOREM ResultsAlwaysThoseAskedFor == Spec => []ResultsAreThoseAskedFor
<1>1. ASSUME Inv PROVE ResultsAreThoseAskedFor
  BY <1>1, AtRest DEF ResultsAreThoseAskedFor, AsWanted
<1> QED BY <1>1, InvAlways, PTL
============================================================================
