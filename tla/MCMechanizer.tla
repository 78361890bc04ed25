---------------------------- MODULE MCMechanizer ----------------------------
(* Model values and bounds for checking Mechanizer. *)
EXTENDS Mechanizer

MCOkStatuses == {200, 201, 204}
MCErrorStatuses == {500}
MCLatencies == {1, 2}
\* telemetry_mechanizer.py accepts 201 only (line 47); testpilot and
\* metrics_ping accept 200, 201 and 204 (line 50 / line 68).
TelemetryCodes == {201}
TestpilotCodes == {200, 201, 204}
=============================================================================
