--------------------------- MODULE MCFeedbackLoop ---------------------------
(* One host that sends to another one.                                      *)
EXTENDS FeedbackLoop
=============================================================================
