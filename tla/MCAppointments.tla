--------------------------- MODULE MCAppointments ---------------------------
(* Two appointments of two customers, one per page.                        *)
EXTENDS Appointments

CONSTANTS a1, a2, p1, p2

MCAppointments == {a1, a2}
MCOrder == <<a1, a2>>
MCPhoneOf == [a \in MCAppointments |-> IF a = a1 THEN p1 ELSE p2]
=============================================================================
