------------------------------ MODULE MCServices ------------------------------
EXTENDS Services
=============================================================================
