--------------------------- MODULE MCPullRequests ---------------------------
(* TLC instance of PullRequests: an integrate and the one that resumes it. *)
EXTENDS PullRequests
=============================================================================
