-------------------------- MODULE MCMicroServices --------------------------
\* Small instances of MicroServices for TLC.
EXTENDS MicroServices
=============================================================================
