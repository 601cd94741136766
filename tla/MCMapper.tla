------------------------------ MODULE MCMapper ------------------------------
(***************************************************************************)
(* Instances of Mapper for TLC.  The bytes are those at which a mask, the  *)
(* zero rule, the ninth bank bit or the RAM and clock ranges change what a *)
(* register selects.                                                       *)
(***************************************************************************)
EXTENDS Mapper

MCWrites ==
  (({0} \X {0, 10}) \cup ({2} \X {0, 1, 35}) \cup ({3} \X {1, 2})
   \cup ({4} \X {0, 1, 6, 8, 13}) \cup ({6} \X {0, 1}))

\* Banks beyond the first four of a 128 KiB RAM, and bank 0.
RamWrites == {4} \X ({0} \cup 4..15)
=============================================================================
