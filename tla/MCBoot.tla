------------------------------- MODULE MCBoot -------------------------------
(***************************************************************************)
(* A floppy of a few clusters, with every placement of two files on it.    *)
(***************************************************************************)
EXTENDS Boot

Area(b, l, t) == [base |-> b, len |-> l, type |-> t]
Header(t, o, v, s) == [type |-> t, off |-> o, vaddr |-> v, size |-> s]

\* Pages: whole tables, part of a table, a hole, ranges out of order, no memory but an empty range.
MCMemoryMaps ==
  { <<Area(0, 2, 1), Area(2, 2, 2)>>,
    <<Area(3, 2, 1), Area(0, 2, 1), Area(7, 1, 2)>>,
    <<Area(0, 0, 1), Area(0, 1, 2)>> }

\* One segment, a null header before two segments, segments of two sectors.
MCPrograms ==
  { <<Header(1, 0, 0, 1)>>,
    <<Header(0, 0, 0, 2), Header(1, 0, 2, 2), Header(1, 1, 0, 1)>>,
    <<Header(1, 0, 0, 3)>> }
=============================================================================
