---------------------------- MODULE MCSkProcMap ----------------------------
(* An instance of SkProcMap: two processes with two descriptors each and two *)
(* sockets, 4-bit words and a table of two buckets.  The name of a kernel     *)
(* thread may be longer than a conn_info's.                                  *)
EXTENDS SkProcMap

MCPids == {1, 2}
MCFds == {3, 4}
MCInodes == {5, 6}
NoPids == {}
KernelThread == {2}
=============================================================================
