------------------------------ MODULE MCOrbStore -----------------------------
(* OrbStore for TLC: two processes, two ids, new tasks and new epics.       *)
EXTENDS OrbStore

MCNewOrbs == {NewOrb(FALSE, FALSE, FALSE), NewOrb(TRUE, FALSE, FALSE)}
=============================================================================
