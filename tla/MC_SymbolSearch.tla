------------------------ MODULE MC_SymbolSearch -------------------------
\* SymbolSearch as the TLC runs instantiate it: the letters, the bounds on
\* the query and the totals, and the argument sets are given in the cfg.
EXTENDS SymbolSearch
=============================================================================
