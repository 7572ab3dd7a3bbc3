------------------------- MODULE MCAdmissionFilter -------------------------
(***************************************************************************)
(* AdmissionFilter on small instances, on histories of MaxAdmitted events. *)
(***************************************************************************)
EXTENDS AdmissionFilter

CONSTANTS a, b, c, MaxAdmitted

MCTokens == {a, b, c}
MCSlots == 1..4

Bounded == Len(admitted) < MaxAdmitted

=============================================================================
