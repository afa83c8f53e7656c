----------------------------- MODULE MCCotreeRpc -----------------------------
EXTENDS CotreeRpc

\* One request that is served and one that no worker serves.
MCShape == <<[id |-> "Polylines_Area", load |-> 5, grs80 |-> TRUE],
             [id |-> "Nodes_Area", load |-> 0, grs80 |-> FALSE]>>
MCPeers == {"service", "cotree2", "coconut"}
MCSessions == 1..2
==============================================================================
