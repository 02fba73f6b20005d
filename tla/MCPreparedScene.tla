--------------------------- MODULE MCPreparedScene ---------------------------
EXTENDS PreparedScene

CONSTANTS d1, d2, s1, s2

\* One scene of two devices.
MCEndpoints == [s \in {s1} |-> {d1, d2}]

\* Two scenes that compete for a device.
MCRivals == [s \in {s1, s2} |-> IF s = s1 THEN {d1, d2} ELSE {d2}]
=============================================================================
