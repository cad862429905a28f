---------------------------- MODULE Installation ----------------------------
(* What the modules that follow a message from the bridge to its evaluation *)
(* have in common.                                                           *)
CONSTANTS
    Networks,   \* the configured networks
    None        \* SQL NULL / Python None
=============================================================================
