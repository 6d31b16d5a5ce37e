--------------------------- MODULE MCSystemcAdapter ---------------------------
(***************************************************************************)
(* Small instances of SystemcAdapter: two ticks and End, two flits each    *)
(* way, and a local FIFO that the element can fill.  The numbers are in    *)
(* the configurations.  Everything stops after End, so that deadlock is    *)
(* not checked.                                                            *)
(***************************************************************************)
EXTENDS SystemcAdapter

=============================================================================
