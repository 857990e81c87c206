---------------------------- MODULE MCSdkClient ----------------------------
EXTENDS SdkClient
=============================================================================
