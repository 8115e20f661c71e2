-------------------------- MODULE MCTrackerProcess --------------------------
EXTENDS TrackerProcess

=============================================================================
