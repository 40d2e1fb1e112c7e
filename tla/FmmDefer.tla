------------------------------ MODULE FmmDefer ------------------------------
(***************************************************************************)
(* libhsakmt's memory manager (fmm.c) as the gfx803 patches leave it: a    *)
(* freed object is not released but parked on its aperture's FIFO, and     *)
(* only when later frees push the FIFO over a length or a byte limit are   *)
(* the oldest objects unmapped, freed in the kernel and their addresses    *)
(* returned to the aperture (va-reuse-defer.patch, then                    *)
(* va-reuse-defer-noremap.patch).                                          *)
(*                                                                         *)
(* An area is one virtual-address range of one aperture; the vm_object the *)
(* aperture's tree holds for it is named by the area.  fmm_mutex makes     *)
(* each call atomic, except that GPU work and the other apertures proceed  *)
(* while a release drains the FIFO: draining[a] is "the mutex of a is held *)
(* by a release inside the loop of fmm_defer_release".                     *)
(***************************************************************************)
EXTENDS Integers, Sequences, FiniteSets

CONSTANTS
  Areas,        \* virtual-address ranges an aperture can hand out
  Apertures,    \* manageable_aperture_t instances
  Scratch,      \* the scratch-backing apertures among them
  ApertureOf,   \* the aperture an area belongs to
  Size,         \* bytes of an area
  Handles,      \* kernel BO handles of an object (object->handles)
  QueueMax,     \* FMM_REUSE_QUEUE_MAX
  BytesMax,     \* FMM_REUSE_BYTES_MAX
  KernelFaults, \* may an unmap or free ioctl fail for no reason of ours?
  NoMem,        \* may calloc of a FIFO entry fail?
  MaxInFlight,  \* bound on GPU kernels in flight
  NoArea

ASSUME AreaAssumption ==
  /\ ApertureOf \in [Areas -> Apertures]
  /\ Size \in [Areas -> Nat \ {0}]
  /\ Scratch \subseteq Apertures
  /\ NoArea \notin Areas

ASSUME LimitAssumption ==
  /\ QueueMax \in Nat /\ BytesMax \in Nat /\ MaxInFlight \in Nat
  /\ KernelFaults \in BOOLEAN /\ NoMem \in BOOLEAN

VARIABLES
  tree,      \* areas whose object is in the aperture's tree
  reserved,  \* areas missing from the aperture's free list
  deferred,  \* object->deferred
  live,      \* handles of the object's BOs the kernel still holds
  mapped,    \* those that are mapped on the GPU
  fifo,      \* deferred_head ... deferred_tail, oldest first
  len,       \* deferred_len
  bytes,     \* deferred_bytes
  draining,  \* a release holds fmm_mutex inside the eviction loop
  orphan,    \* areas returned to the aperture with a BO left in the kernel
  faulted,   \* history: an ioctl failed, or an OOM release met a mapped BO
  frees,     \* history: parks in the aperture since this object's park
  held,      \* history: bytes parked from this object's park on, its own too
  inflight,  \* areas a GPU kernel launched while they were mapped still uses
  exiting,   \* process exit has begun
  lastFreed  \* area of the latest release, until the next allocation

fmmVars  == <<tree, reserved, deferred, fifo, len, bytes, draining>>
kfdVars  == <<live, mapped, orphan, faulted>>
histVars == <<frees, held, lastFreed>>
vars     == <<fmmVars, kfdVars, histVars, inflight, exiting>>

Parked(a) == {fifo[a][i] : i \in 1..Len(fifo[a])}

-----------------------------------------------------------------------------
Init ==
  /\ tree = {} /\ reserved = {} /\ orphan = {} /\ inflight = {}
  /\ deferred = [v \in Areas |-> FALSE]
  /\ live     = [v \in Areas |-> {}]
  /\ mapped   = [v \in Areas |-> {}]
  /\ fifo     = [a \in Apertures |-> << >>]
  /\ len      = [a \in Apertures |-> 0]
  /\ bytes    = [a \in Apertures |-> 0]
  /\ draining = [a \in Apertures |-> FALSE]
  /\ frees    = [v \in Areas |-> 0]
  /\ held     = [v \in Areas |-> 0]
  /\ faulted = FALSE /\ exiting = FALSE /\ lastFreed = NoArea

(***************************************************************************)
(* The aperture hands out any area of its free list; the object and its    *)
(* BOs are created (vm_create_and_init_object).                            *)
(***************************************************************************)
Allocate(v) ==
  /\ ~exiting /\ ~draining[ApertureOf[v]] /\ v \notin reserved
  /\ reserved' = reserved \union {v}
  /\ tree' = tree \union {v}
  /\ deferred' = [deferred EXCEPT ![v] = FALSE]
  /\ live' = [live EXCEPT ![v] = Handles]
  /\ mapped' = [mapped EXCEPT ![v] = {}]
  /\ lastFreed' = NoArea
  /\ UNCHANGED <<fifo, len, bytes, draining, orphan, faulted, frees, held,
                 inflight, exiting>>

(***************************************************************************)
(* Mutant: a second release is not recognised by the deferred flag.        *)
(***************************************************************************)
ReleasableTwice(v) == v \in tree /\ ~draining[ApertureOf[v]]

(* The mutex is free and the object has not been parked: the state in      *)
(* which a call on the object does something.                              *)
Releasable(v) == v \in tree /\ ~draining[ApertureOf[v]] /\ ~deferred[v]

(* Mutant: scratch apertures go through the FIFO like all others.          *)
ScratchIsDeferred(a) == FALSE

(* fmm_is_scratch_aperture                                                 *)
IsScratch(a) == a \in Scratch

(* Mutant: the unmap before the free is missing.                           *)
NeverUnmapped(v) == {mapped[v]}

(* What _fmm_unmap_from_gpu may leave mapped of v: nothing, unless the     *)
(* ioctl fails.                                                            *)
StillMapped(v) == IF KernelFaults THEN SUBSET mapped[v] ELSE {{}}

(* hsaKmtMapMemoryToGPU and hsaKmtUnmapMemoryToGPU on an object in use.    *)
MapToGPU(v) ==
  /\ Releasable(v) /\ ~exiting
  /\ live[v] # {}
  /\ mapped' = [mapped EXCEPT ![v] = live[v]]
  /\ UNCHANGED <<fmmVars, live, orphan, faulted, histVars, inflight, exiting>>

UnmapFromGPU(v) ==
  /\ Releasable(v)
  /\ \E stuck \in StillMapped(v) :
       /\ mapped' = [mapped EXCEPT ![v] = stuck]
       /\ faulted' = (faulted \/ stuck # {})
  /\ UNCHANGED <<fmmVars, live, orphan, histVars, inflight, exiting>>

(***************************************************************************)
(* AMDKFD_IOC_FREE_MEMORY_OF_GPU on every handle of v, of which those in   *)
(* busy are still mapped and refused with EBUSY, and those in failed fail. *)
(***************************************************************************)
BoFree(v, busy, failed) ==
  /\ failed # {} => KernelFaults
  /\ live' = [live EXCEPT ![v] = @ \intersect (busy \union failed)]

(* aperture_release_area and vm_remove_object; what BoFree left behind no  *)
(* longer belongs to any object.                                           *)
DropObject(v) ==
  /\ reserved' = reserved \ {v}
  /\ tree' = tree \ {v}
  /\ orphan' = IF live'[v] = {} THEN orphan ELSE orphan \union {v}

-----------------------------------------------------------------------------
(* Mutant: the length limit is off by one.                                 *)
AtLimit(a) == len[a] >= QueueMax \/ bytes[a] > BytesMax

(* The condition of fmm_defer_release's eviction loop.                     *)
OverLimit(a) == len[a] > QueueMax \/ bytes[a] > BytesMax

(* Mutant: deferred_bytes is not taken down by a pop.                      *)
PopKeepingBytes(a) ==
  /\ fifo[a] # << >>
  /\ fifo' = [fifo EXCEPT ![a] = Tail(@)]
  /\ len' = [len EXCEPT ![a] = @ - 1]
  /\ UNCHANGED bytes

(* Unlink the oldest entry; with no entry the code dereferences NULL.      *)
Pop(a) ==
  /\ fifo[a] # << >>
  /\ fifo' = [fifo EXCEPT ![a] = Tail(@)]
  /\ len' = [len EXCEPT ![a] = @ - 1]
  /\ bytes' = [bytes EXCEPT ![a] = @ - Size[Head(fifo[a])]]

(* __fmm_release of an object already parked.                              *)
ReleaseAgain(v) ==
  /\ v \in tree /\ ~draining[ApertureOf[v]] /\ deferred[v]
  /\ UNCHANGED vars

(* __fmm_release in a scratch aperture: free at once; after a failed free  *)
(* the object stays.  A handle freed by an earlier attempt fails again.    *)
ReleaseScratch(v) ==
  /\ Releasable(v) /\ IsScratch(ApertureOf[v])
  /\ \E failed \in SUBSET live[v] :
       /\ BoFree(v, mapped[v], failed)
       /\ faulted' = (faulted \/ failed # {})
       /\ IF live'[v] = {} /\ live[v] = Handles
            THEN DropObject(v)
            ELSE UNCHANGED <<reserved, tree, orphan>>
  /\ mapped' = [mapped EXCEPT ![v] = @ \intersect live'[v]]
  /\ lastFreed' = v
  /\ UNCHANGED <<deferred, fifo, len, bytes, draining, frees, held,
                 inflight, exiting>>

(* __fmm_release elsewhere, when fmm_defer_release obtains a FIFO entry.   *)
ReleasePark(v) ==
  LET a == ApertureOf[v] IN
  /\ Releasable(v) /\ ~IsScratch(a)
  /\ deferred' = [deferred EXCEPT ![v] = TRUE]
  /\ fifo' = [fifo EXCEPT ![a] = Append(@, v)]
  /\ len' = [len EXCEPT ![a] = @ + 1]
  /\ bytes' = [bytes EXCEPT ![a] = @ + Size[v]]
  /\ draining' = [draining EXCEPT ![a] = TRUE]
  /\ frees' = [w \in Areas |->
                 IF w = v THEN 0
                 ELSE IF w \in Parked(a) THEN frees[w] + 1 ELSE frees[w]]
  /\ held' = [w \in Areas |->
                IF w = v THEN Size[v]
                ELSE IF w \in Parked(a) THEN held[w] + Size[v] ELSE held[w]]
  /\ lastFreed' = v
  /\ UNCHANGED <<tree, reserved, kfdVars, inflight, exiting>>

(* ... and when calloc fails: released at once, without an unmap, and the  *)
(* result of the free ioctls is ignored.                                   *)
ReleaseNoMem(v) ==
  /\ NoMem /\ Releasable(v) /\ ~IsScratch(ApertureOf[v])
  /\ deferred' = [deferred EXCEPT ![v] = FALSE]
  /\ \E failed \in SUBSET live[v] :
       /\ BoFree(v, mapped[v], failed)
       /\ faulted' = (faulted \/ failed # {} \/ mapped[v] # {})
  /\ DropObject(v)
  /\ mapped' = [mapped EXCEPT ![v] = {}]
  /\ lastFreed' = v
  /\ UNCHANGED <<fifo, len, bytes, draining, frees, held, inflight, exiting>>

(* __fmm_release of an object the caller found in the aperture's tree.     *)
Release(v) == ReleaseAgain(v) \/ ReleaseScratch(v) \/ ReleasePark(v)
              \/ ReleaseNoMem(v)

(* One turn of the eviction loop: pop the oldest entry and fmm_do_release  *)
(* it.  Neither ioctl's failure stops the area from being returned.        *)
Evict(a) ==
  LET v == Head(fifo[a]) IN
  /\ draining[a] /\ OverLimit(a)
  /\ Pop(a)
  /\ \E stuck \in StillMapped(v), failed \in SUBSET live[v] :
       /\ BoFree(v, stuck, failed)
       /\ faulted' = (faulted \/ failed # {} \/ (stuck # {} /\ KernelFaults))
  /\ DropObject(v)
  /\ deferred' = [deferred EXCEPT ![v] = FALSE]
  /\ mapped' = [mapped EXCEPT ![v] = {}]
  /\ frees' = [frees EXCEPT ![v] = 0]
  /\ held' = [held EXCEPT ![v] = 0]
  /\ UNCHANGED <<draining, lastFreed, inflight, exiting>>

(* Mutant: the loop ends and the mutex is not released.                    *)
DrainDoneLocked(a) ==
  /\ draining[a] /\ ~OverLimit(a)
  /\ UNCHANGED vars

(* The loop condition is false: unlock and return.                         *)
DrainDone(a) ==
  /\ draining[a] /\ ~OverLimit(a)
  /\ draining' = [draining EXCEPT ![a] = FALSE]
  /\ UNCHANGED <<tree, reserved, deferred, fifo, len, bytes, kfdVars,
                 histVars, inflight, exiting>>

-----------------------------------------------------------------------------
(* The GPU: a kernel is launched on a mapped buffer in use, and retires.   *)
Launch(v) ==
  /\ v \in tree /\ ~deferred[v] /\ mapped[v] = Handles /\ v \notin inflight
  /\ Cardinality(inflight) < MaxInFlight
  /\ inflight' = inflight \union {v}
  /\ UNCHANGED <<fmmVars, kfdVars, histVars, exiting>>

Retire(v) ==
  /\ v \in inflight
  /\ inflight' = inflight \ {v}
  /\ UNCHANGED <<fmmVars, kfdVars, histVars, exiting>>

(* Process exit; fmm_release_scratch then releases whatever object the     *)
(* scratch tree still has, until it has none.                              *)
Exit ==
  /\ ~exiting /\ exiting' = TRUE
  /\ UNCHANGED <<fmmVars, kfdVars, histVars, inflight>>

TeardownScratch ==
  /\ exiting
  /\ \E v \in tree :
       /\ IsScratch(ApertureOf[v])
       /\ IF mapped[v] # {} THEN UnmapFromGPU(v) ELSE Release(v)

Next ==
  \/ \E v \in Areas :
       \/ Allocate(v) \/ MapToGPU(v) \/ UnmapFromGPU(v)
       \/ Release(v) \/ Launch(v) \/ Retire(v)
  \/ \E a \in Apertures : Evict(a) \/ DrainDone(a)
  \/ Exit

Spec == Init /\ [][Next]_vars

(* A thread inside the loop keeps running, and so does the exiting thread. *)
FairSpec ==
  /\ Spec
  /\ \A a \in Apertures : WF_vars(Evict(a) \/ DrainDone(a))
  /\ WF_vars(TeardownScratch)

-----------------------------------------------------------------------------
(* Every variable holds a value of its kind; the counters never go below   *)
(* zero (they are unsigned in fmm.c).                                      *)
TypeOK ==
  /\ tree \subseteq Areas /\ reserved \subseteq Areas
  /\ orphan \subseteq Areas /\ inflight \subseteq Areas
  /\ deferred \in [Areas -> BOOLEAN]
  /\ live \in [Areas -> SUBSET Handles]
  /\ mapped \in [Areas -> SUBSET Handles]
  /\ fifo \in [Apertures -> Seq(Areas)]
  /\ len \in [Apertures -> Nat]
  /\ bytes \in [Apertures -> Nat]
  /\ draining \in [Apertures -> BOOLEAN]
  /\ frees \in [Areas -> Nat]
  /\ held \in [Areas -> Nat]
  /\ faulted \in BOOLEAN /\ exiting \in BOOLEAN
  /\ lastFreed \in Areas \union {NoArea}

(* The FIFO of an aperture holds exactly the objects flagged as parked,    *)
(* each once, all still in the tree, and deferred_len and deferred_bytes   *)
(* account for them: no release order, double release or failed allocation *)
(* of an entry desynchronises the list, the flags and the two counters.    *)
FifoConsistent ==
  \A a \in Apertures :
    /\ Parked(a) = {v \in tree : deferred[v] /\ ApertureOf[v] = a}
    /\ \A i, j \in 1..Len(fifo[a]) : fifo[a][i] = fifo[a][j] => i = j
    /\ len[a] = Len(fifo[a])
    /\ bytes[a] = IF fifo[a] = << >> THEN 0 ELSE held[Head(fifo[a])]

(* Between two releases at most FMM_REUSE_QUEUE_MAX objects and            *)
(* FMM_REUSE_BYTES_MAX bytes are parked in an aperture.                    *)
ParkedBounded ==
  \A a \in Apertures :
    ~draining[a] => Len(fifo[a]) <= QueueMax /\ bytes[a] <= BytesMax

(* The eviction loop never pops an empty FIFO (it would follow NULL), even *)
(* when one object alone is above the byte limit.                          *)
NeverPopsEmpty ==
  \A a \in Apertures : OverLimit(a) => fifo[a] # << >>

(* An address is missing from the aperture's free list exactly while an    *)
(* object, in use or parked, stands for it: a parked address is never      *)
(* handed out, and none is lost.                                           *)
ReservedWhileObject == reserved = tree

(* A parked object still has all of its kernel BOs: only leaving the FIFO  *)
(* frees memory that a late reader may still use.                          *)
ParkedKeepsBOs ==
  \A a \in Apertures : \A v \in Parked(a) : live[v] = Handles

(* No kernel BO outlives its object, so no address is handed out that the  *)
(* kernel still has mapped, unless an ioctl really failed or an entry could*)
(* not be allocated for an object that was still mapped.                   *)
NoOrphanBO == orphan # {} => faulted

(* A parked address is returned only when FMM_REUSE_QUEUE_MAX further      *)
(* frees went through the FIFO after it, or when it and the frees after it *)
(* together passed FMM_REUSE_BYTES_MAX.                                    *)
WindowHonoured ==
  [][\A a \in Apertures : \A v \in Parked(a) \ Parked(a)' :
       frees[v] >= QueueMax \/ held[v] > BytesMax]_vars

(* A release that entered the eviction loop leaves it and frees the mutex. *)
DrainTerminates == \A a \in Apertures : draining[a] ~> ~draining[a]

(* Once the process exits, fmm_release_scratch's loop empties the scratch  *)
(* trees unless an ioctl fails: it would spin on an object that is         *)
(* released but still in the tree.                                         *)
ScratchTornDown ==
  exiting ~> (faulted \/ \A v \in tree : ApertureOf[v] \notin Scratch)

(* va-reuse-defer.patch: "a kernel still in flight that reads a buffer     *)
(* freed behind its back keeps hitting a valid page".                      *)
LateReaderTolerated ==
  \A a \in Apertures : \A v \in Parked(a) \intersect inflight :
    mapped[v] = Handles

(* va-reuse-defer.patch: "a freed address is never handed back to the very *)
(* next same-size allocation".                                             *)
NotHandedStraightBack ==
  [][\A v \in Areas :
       Allocate(v) /\ ApertureOf[v] \notin Scratch => v # lastFreed]_vars
=============================================================================
