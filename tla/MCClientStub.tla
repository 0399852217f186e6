---------------------------- MODULE MCClientStub ----------------------------
(* A client of a chain of up to three servers, one of which may be lost.   *)
EXTENDS ClientStub
=============================================================================
