--------------------------- MODULE MCProxyRequest ---------------------------
(* Small instances of ProxyRequest and Connect for TLC. *)
EXTENDS Connect

AllModels == {"primary", "secondary", "other", "none"}
=============================================================================
