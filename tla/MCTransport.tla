---------------------------- MODULE MCTransport ----------------------------
(* An Android emulator without adb reverse: localhost is the emulator itself  *)
(* and hangs, 10.0.2.2 is the machine the desktop runs on.                    *)
EXTENDS Transport

MCCandidates == <<"localhost", "10.0.2.2">>

=============================================================================
