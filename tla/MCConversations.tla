-------------------------- MODULE MCConversations --------------------------
(* Values of the set constants for TLC.                                    *)
EXTENDS Conversations

MCWorkers   == {"w1", "w2"}
MCOneWorker == {"w1"}
=============================================================================
