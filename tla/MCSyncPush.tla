----------------------------- MODULE MCSyncPush -----------------------------
EXTENDS SyncPush
=============================================================================
