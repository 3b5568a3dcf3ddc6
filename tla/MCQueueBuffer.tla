---------------------------- MODULE MCQueueBuffer ----------------------------
(* The disk queue on small instances; the .cfg files give the constants. *)
EXTENDS QueueBuffer
==============================================================================
