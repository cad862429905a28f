------------------------- MODULE MCTopologyCapture -------------------------
(* Small instances of TopologyCapture. *)
EXTENDS TopologyCapture
CONSTANTS home, shed, api
MCNets == <<home, shed>>
MCOneNet == <<home>>
MCCallers == {api}
NoCallers == {}
=============================================================================
