--------------------------- MODULE EmulatorProofs ---------------------------
(***************************************************************************)
(* Theorems about the conjunction of Lifecycle, Session and Frames.  Each  *)
(* holds of the emulator whatever the other two machines do meanwhile.     *)
(***************************************************************************)
EXTENDS Emulator, LifecycleProofs, SessionProofs, FramesProofs

(* Every flag, thread, setting and packet is of its type, for any number   *)
(* of connections and lives, any keys and segments, any commands, devices  *)
(* and configurations (application.cpp 27-52, server-layer.cpp 286-374,    *)
(* mps.cpp 52-180 and 280-680).                                            *)
THEOREM EmulatorTypes == EmulatorSpec => []EmulatorTypeOK
BY LifecycleTypeCorrect, SessionTypeCorrect, FramesTypeCorrect, PTL
   DEF EmulatorSpec, EmulatorTypeOK

=============================================================================
