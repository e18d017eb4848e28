------------------------------- MODULE MCWake -------------------------------
(***************************************************************************)
(* Values for the constants of WakeTasks that the configurations share.    *)
(***************************************************************************)
EXTENDS WakeProperties

AllFaults    == {"task", "crash", "listener"}
TaskFaults   == {"task"}
MessagesOnly == {"message_received"}
WebhooksOnly == {"webhook_received"}
=============================================================================
