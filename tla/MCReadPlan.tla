----------------------------- MODULE MCReadPlan -----------------------------
EXTENDS ReadPlan
=============================================================================
