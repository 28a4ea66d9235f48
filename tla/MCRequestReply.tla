---------------------------- MODULE MCRequestReply ----------------------------
(* Small instances of RequestReply.                                        *)
EXTENDS RequestReply

=============================================================================
