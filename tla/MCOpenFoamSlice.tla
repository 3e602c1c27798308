-------------------------- MODULE MCOpenFoamSlice --------------------------
EXTENDS OpenFoamSlice
=============================================================================
