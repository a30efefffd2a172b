-------------------------- MODULE MCAdministration --------------------------
EXTENDS Administration
=============================================================================
