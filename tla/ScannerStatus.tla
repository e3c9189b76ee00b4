--------------------------- MODULE ScannerStatus ---------------------------
(***************************************************************************)
(* What the STATUS register of the scanner promises to the client of the   *)
(* emulator: SCAN, STOP and CALZ, and the end of a zero calibration, each  *)
(* happen at one instant and leave the register telling the truth.  This   *)
(* is the abstract specification that MpsDevice is compared with; it has   *)
(* no threads.                                                             *)
(***************************************************************************)

VARIABLES
  scanning,      (* a scan is in progress                                  *)
  calibrating,   (* a zero calibration is pending or in progress           *)
  status         (* what the STATUS command answers                        *)

avars == <<scanning, calibrating, status>>

AInit ==
  /\ scanning = FALSE
  /\ calibrating = FALSE
  /\ status = "READY"

AStartScan ==
  /\ ~scanning
  /\ scanning' = TRUE
  /\ status' = "SCAN"
  /\ UNCHANGED calibrating

AStopScan ==
  /\ scanning
  /\ scanning' = FALSE
  /\ status' = "READY"
  /\ UNCHANGED calibrating

ACalZ ==
  /\ calibrating' = TRUE
  /\ status' = "CALZ"
  /\ UNCHANGED scanning

ACalDone ==
  /\ calibrating
  /\ calibrating' = FALSE
  /\ status' = "READY"
  /\ UNCHANGED scanning

ANext == AStartScan \/ AStopScan \/ ACalZ \/ ACalDone

ASpec == AInit /\ [][ANext]_avars

(* The register never announces an activity that is not going on: "SCAN"   *)
(* only during a scan, "CALZ" only while a calibration is pending.  The    *)
(* converse is not promised: CALZ during a scan, and the end of a          *)
(* calibration during a scan, overwrite "SCAN".                            *)
Truthful ==
  /\ status = "SCAN" => scanning
  /\ status = "CALZ" => calibrating

=============================================================================
