--------------------------- MODULE DescriptorSets ---------------------------
(***************************************************************************)
(* DescriptorPool, DescriptorSetLayout and DescriptorSet: the three Vulkan *)
(* handles that always come together.  A trio is a record of the handles   *)
(* and of what the driver knows about them; the members of the classes are *)
(* operators from trio to trio.  strayFree is a ghost that remembers that  *)
(* a set was freed from a pool that was no longer there.                   *)
(***************************************************************************)
EXTENDS Naturals, Sequences

NoHandle == 0  \* VK_NULL_HANDLE

\* The trio as constructed: only null handles.
NewTrio == [layout    |-> 0,         \* descriptors in the layout, 0 for no layout
            pool      |-> NoHandle,
            poolSize  |-> 0,         \* DescriptorPool::poolSize.descriptorCount
            allocated |-> FALSE,     \* DescriptorSet::handle # 0
            poolHandle |-> NoHandle, \* DescriptorSet::poolHandle
            written   |-> <<>>,      \* the descriptors in the set
            strayFree |-> FALSE]

TypeOfTrio(Handles, Descriptors) ==
  [layout : Nat, pool : Handles \cup {NoHandle}, poolSize : Nat, allocated : BOOLEAN,
   poolHandle : Handles \cup {NoHandle}, written : Seq(Descriptors), strayFree : BOOLEAN]

\* Destroying a pool takes its sets with it, but DescriptorSet is not told.
PoolDestroy(d) == [d EXCEPT !.pool = NoHandle]

PoolCreate(d, handle, count) ==
  [PoolDestroy(d) EXCEPT !.pool = handle, !.poolSize = count]

LayoutCreate(d, size) == [d EXCEPT !.layout = size]

LayoutDestroy(d) == [d EXCEPT !.layout = 0]

SetFree(d) ==
  IF d.allocated
  THEN [d EXCEPT !.allocated = FALSE, !.written = <<>>,
                 !.strayFree = @ \/ d.poolHandle # d.pool]
  ELSE d

\* DescriptorSet::create() and the vkUpdateDescriptorSets() that follows it: the
\* caller says what the set holds from then on.
SetCreate(d, descriptors) ==
  [SetFree(d) EXCEPT !.allocated = TRUE, !.poolHandle = d.pool, !.written = descriptors]

\* Vulkan allocates a set only from a pool that has enough descriptors left.
SetFitsPool(d) == d.allocated => d.layout <= d.poolSize /\ Len(d.written) = d.layout

NothingAllocated(d) == d.pool = NoHandle /\ d.layout = 0 /\ ~ d.allocated
=============================================================================
