----------------------------- MODULE MCImager -----------------------------
(* Instances of Imager for TLC: two cylinders of one head and two sectors. *)
EXTENDS Imager
CONSTANTS garbage, blank, missing

\* The linear numbering of the ADAPTEC, RT and ULTRASTOR headers.
MCPosition == (0 .. Cylinders - 1) \X (0 .. Heads - 1) \X (0 .. Sectors - 1)
MCLba == [p \in MCPosition |-> (p[1] * Heads + p[2]) * Sectors + p[3]]

LastSector == {<<1, 0, 1>>}
LastCylinder == {p \in MCPosition : p[1] = Cylinders - 1}
=============================================================================
