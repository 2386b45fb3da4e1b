---------------------------- MODULE MCIpcMailbox ----------------------------
(* Bounds for IpcMailbox.  Three calls are every pair of successive calls of *)
(* the two versions, with or without Shutdown and Init between them, and     *)
(* one after.  Two ticks order any three of a call's events.                *)
EXTENDS IpcMailbox
=============================================================================
