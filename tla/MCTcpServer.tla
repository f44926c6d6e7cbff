---------------------------- MODULE MCTcpServer ----------------------------
(***************************************************************************)
(* TcpServer with a few connections that have to reuse descriptors.        *)
(***************************************************************************)
EXTENDS TcpServer
=============================================================================
