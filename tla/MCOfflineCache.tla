-------------------------- MODULE MCOfflineCache --------------------------
(***************************************************************************)
(* Two production promotions that compete for one quarantine name and one  *)
(* published name, or a production promotion beside a calibration.         *)
(***************************************************************************)
EXTENDS OfflineCache

CONSTANTS p1, p2, c1
MCRun == {p1, p2, c1}
MCCalibration == {c1}
MCCrews == {{p1, p2}, {p1, c1}}
=============================================================================
