--------------------------- MODULE MCObjectTracker ---------------------------
EXTENDS ObjectTracker

\* Any scan may be the first; then nothing, an object across the seam, and that
\* object with two more that only the jump separates.
MCFirstScans == SUBSET Beams
MCScans == {{}, {0, 5}, {0, 2, 3, 5}}

\* An update ends at the measurement or a half beam before it.
MCPulls == {-1, 0}

=============================================================================
