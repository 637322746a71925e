----------------------------- MODULE MCBrowserFlow -----------------------------
(* Small instances of BrowserFlow.                                          *)
EXTENDS BrowserFlow
================================================================================
