------------------------- MODULE MCTemplateUpdater -------------------------
EXTENDS TemplateUpdater
=============================================================================
