--------------------------- MODULE MC_SymbolUpsert ---------------------------
\* SymbolUpsert as the TLC runs instantiate it: two versions of a module,
\* one package path, two symbols and the builds all, linux and windows.
EXTENDS SymbolUpsert
=============================================================================
