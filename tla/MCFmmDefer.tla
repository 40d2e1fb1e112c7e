----------------------------- MODULE MCFmmDefer -----------------------------
(***************************************************************************)
(* Model values for FmmDefer: one ordinary and one scratch aperture, areas *)
(* whose sizes let either limit be the one that is hit.                    *)
(***************************************************************************)
EXTENDS FmmDefer

MCApertures == {"gpuvm", "scratch"}

(* Areas of 1 and 3 units, and one of scratch.  With QueueMax = 2 and      *)
(* BytesMax = 3 three small frees pass the length limit alone, a small and *)
(* the large one the byte limit alone.                                     *)
MCAreas == {"v1", "v2", "v3", "v4", "s1"}
MCApertureOf == [v \in MCAreas |-> IF v = "s1" THEN "scratch" ELSE "gpuvm"]
MCSize == [v \in MCAreas |-> IF v = "v4" THEN 3 ELSE 1]

(* Fewer areas for the runs in which ioctls fail or GPU kernels run.       *)
FewAreas == {"v1", "v4", "s1"}
FewApertureOf == [v \in FewAreas |-> MCApertureOf[v]]
FewSize == [v \in FewAreas |-> MCSize[v]]
=============================================================================
