------------------------------ MODULE MCMembers ------------------------------
(* Members with two members, two employees and two texts. *)
EXTENDS Members

CONSTANTS m1, m2, t1, t2

MCIndividuals == {m1, m2}
MCTexts == {t1, t2}
MCMatches(t) == IF t = t1 THEN {m1, m2} ELSE {m1}
=============================================================================
