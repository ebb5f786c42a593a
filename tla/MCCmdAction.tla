---------------------------- MODULE MCCmdAction ----------------------------
(* Command lines of up to three words over three devices, of which the tool   *)
(* can find two, and a word that is no device.                                *)
EXTENDS CmdAction

ThreeMems == {"mem0", "mem1", "mem2"}
NoDevice == {"foo"}
TwoPresent == {"mem0", "mem2"}
=============================================================================
