---------------------------- MODULE MCSectorPath ----------------------------
(* SectorPath for a drive of seven heads (the PS/2's) and one of eight.     *)
EXTENDS SectorPath

AllControllers == DOMAIN controllers
Ps2Only == {"IBM_PS2"}

\* Cylinders on both sides of the header's byte boundary and the last ones with
\* blocks, the heads on both sides of the PS/2's sixth, first and last sectors.
SomePositions == {<<c, h, s>> : c \in {0, 256, 1787, 1789, 1791}, h \in {0, 5, 6}, s \in {0, 1, 5}}
LastHeads == {<<0, h, s>> : h \in {5, 6, 7}, s \in 0 .. 5}
OneProbe == {<<256, 5, 1>>}

SomeBursts == {<<1>>, <<1, 1, 0, 1>>, Ones(11), <<1>> \o Zeros(14) \o <<1>>, Ones(30)}
=============================================================================
