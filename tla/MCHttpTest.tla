---------------------------- MODULE MCHttpTest ----------------------------
(* Model values and bounds for checking HttpTest. *)
EXTENDS HttpTest

MCNArgs == {-1, 0, 1, 2}
MCOkStatuses == {200, 201}
MCErrorStatuses == {500}
=============================================================================
