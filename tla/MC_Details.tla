--------------------------- MODULE MC_Details ---------------------------
\* Details as the TLC runs instantiate it: requests and modules are model
\* values, methods, paths and versions sets of strings in the cfg.
EXTENDS Details
=============================================================================
