-------------------------- MODULE MCSynchronizedList --------------------------
EXTENDS SynchronizedList
=============================================================================
