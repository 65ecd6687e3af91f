----------------------------- MODULE MCIpcTools -----------------------------
(* Three commands on two paths.                                            *)
EXTENDS IpcTools

CONSTANTS c1, c2, c3, p1, p2

=============================================================================
