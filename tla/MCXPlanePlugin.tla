---------------------------- MODULE MCXPlanePlugin ----------------------------
EXTENDS XPlanePlugin

MCLefts == {-4}
=============================================================================
