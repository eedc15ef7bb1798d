-------------------------- MODULE MC_GopTests ---------------------------
\* GopTests as the TLC runs instantiate it: every identifier, type and doc
\* comment of the test packages is a model value of the cfg.
EXTENDS GopTests
=============================================================================
