------------------------------ MODULE MCPmm ------------------------------
(***************************************************************************)
(* Memory maps for TLC, with pages of two bytes.  SmallMaps: every cut of  *)
(* the addresses below 8 or 9 into up to three adjacent entries, usable or *)
(* not, in both orders, so that the last frame is whole or partial.        *)
(* LargeMaps: twenty frames, so that the bitmap has three bytes and takes  *)
(* two frames or parts of them.                                            *)
(***************************************************************************)
EXTENDS Pmm

Entry(from, to, u) == [base |-> from, length |-> to - from, usable |-> u]

SmallMaps ==
  UNION {{<<Entry(0, a, u), Entry(a, b, v), Entry(b, top, w)>>,
          <<Entry(b, top, w), Entry(a, b, v), Entry(0, a, u)>>} :
           a \in 1..3, b \in 3..7, top \in {8, 9},
           u, v, w \in BOOLEAN}

LargeMaps ==
  {<<Entry(0, a, TRUE), Entry(a, a + 8, TRUE), Entry(35, 40, u)>> :
     a \in {1, 2, 3}, u \in BOOLEAN}

MCMemMaps == SmallMaps \cup LargeMaps

=============================================================================
