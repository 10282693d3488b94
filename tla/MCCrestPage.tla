---------------------------- MODULE MCCrestPage ----------------------------
(* One kernel thread and two desktop threads, which compete for snapshots,  *)
(* replies and the command mailbox; two values per mailbox, so that one can *)
(* arrive while the previous one is pending, being read or refused.         *)
EXTENDS CrestPage
=============================================================================
