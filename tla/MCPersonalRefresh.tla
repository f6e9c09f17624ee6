-------------------------- MODULE MCPersonalRefresh --------------------------
EXTENDS PersonalRefresh
=============================================================================
