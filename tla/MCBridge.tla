------------------------------ MODULE MCBridge ------------------------------
(***************************************************************************)
(* Two paypunkd processes and two browser sessions.                        *)
(***************************************************************************)
EXTENDS Bridge, TLC

CONSTANTS s1, s2, b1, b2

MCSenders == {s1, s2}
MCBrowsers == {b1, b2}
=============================================================================
