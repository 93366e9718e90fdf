-------------------------- MODULE MCLockForwarding --------------------------
EXTENDS LockForwarding
=============================================================================
