---------------------------- MODULE MCJobResults ----------------------------
(* Daemons one after the other, of which a later one may have the process id *)
(* of the one before; two runs in two situations.                            *)
EXTENDS JobResults, TLC

CONSTANTS day, night
SituationsAreAlike == Permutations({day, night})

AllFiles == Files
TwoRuns == 1 .. 2
OneDaemon == 1 .. 1
TwoDaemons == 1 .. 2
=============================================================================
