------------------------- MODULE MCDriverDashboard --------------------------
EXTENDS DriverDashboard
=============================================================================
