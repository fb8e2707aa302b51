--------------------------- MODULE MCAccountSwitch ---------------------------
(* Two commands at a time: the window's sign-ins and sign-outs, and the     *)
(* settings.                                                                *)
EXTENDS AccountSwitch

CONSTANTS window_cmd, settings_cmd

MCOwner == {window_cmd, settings_cmd}
MCCaller == 0..MaxEngines
=============================================================================
