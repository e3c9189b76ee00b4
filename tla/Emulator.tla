------------------------------ MODULE Emulator ------------------------------
(***************************************************************************)
(* The emulator: its life, the command line of its client and the scans of *)
(* its device.  The three share no variable: what they share in the        *)
(* program, the device, is in each of them as far as it can tell (here     *)
(* whether there is one, there how it is configured and what it scans), so *)
(* that their conjunction lets them take their steps in any order.         *)
(***************************************************************************)
EXTENDS Lifecycle, Session, Frames

emulatorVars == <<lifecycleVars, sessionVars, framesVars>>

EmulatorSpec == LifecycleSpec /\ SessionSpec /\ FramesSpec

(* The types of the three machines; what each says beyond a domain is with *)
(* its definition: flags and threads without their object, fields of the   *)
(* configuration out of their range, a packet of no device's size.         *)
EmulatorTypeOK == LifecycleTypeOK /\ SessionTypeOK /\ FramesTypeOK

=============================================================================
