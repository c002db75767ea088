----------------------------- MODULE MCDiscovery -----------------------------
EXTENDS Discovery
MCShows == <<"cdp_detail", "lldp_neighbors">>
==============================================================================
