--------------------------- MODULE MCBrowserLink ---------------------------
(* A small instance of BrowserLink. *)
EXTENDS BrowserLink
=============================================================================
