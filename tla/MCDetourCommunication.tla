----------------------- MODULE MCDetourCommunication -----------------------
(* One communication to one address.                                          *)
EXTENDS DetourCommunication, TLC

CONSTANT a1

MCLists == {<<a1>>}
=============================================================================
