----------------------------- MODULE MCAdoption -----------------------------
EXTENDS Adoption, TLC
=============================================================================
