----------------------------- MODULE MCNameList -----------------------------
EXTENDS NameList
=============================================================================
