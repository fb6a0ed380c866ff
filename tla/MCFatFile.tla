----------------------------- MODULE MCFatFile -----------------------------
(***************************************************************************)
(* Small files: a contiguous chain and a scattered one.                    *)
(***************************************************************************)
EXTENDS FatFile

MCChains  == {<<2, 3, 4, 5>>, <<4, 2, 5, 3>>}
MCOffsets == {-8, -3, -1, 0, 2, 5}
=============================================================================
