--------------------------- MODULE MCEvidenceStore ---------------------------
EXTENDS EvidenceStore

CONSTANTS s1, r1

\* one image under both tools, one under a tool and the erasure, and two
\* uploads beside the purge alone
MCCrews == {{s1, "rekey", "move"}, {r1, "move", "erase"}, {s1, r1}}
=============================================================================
