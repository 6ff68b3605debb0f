----------------------------- MODULE MCResponse -----------------------------
(* Instances of ClientResponse for TLC.                                      *)
EXTENDS ClientResponse

AllViews ==
  {"collect", "collectText", "subscribe", "subscribeText", "web", "webText", "webJson"}
=============================================================================
