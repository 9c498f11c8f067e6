----------------------------- MODULE MCCloudSink -----------------------------
(* Small instances of CloudSink.                                             *)
EXTENDS CloudSink

BothServices == {"cloudwatch", "azure"}
OneService == {"cloudwatch"}
==============================================================================
