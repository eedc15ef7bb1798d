------------------------ MODULE MC_TemplateLoad -------------------------
\* TemplateLoad as the TLC runs instantiate it: the goroutines, the failing
\* templates and the free-mutex value are model values and sets in the cfg.
EXTENDS TemplateLoad
=============================================================================
