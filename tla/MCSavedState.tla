---- MODULE MCSavedState ----
(***************************************************************************)
(* A small instance: three saves, so that the version a roll-back goes to  *)
(* need not be the first; two brains in the shadow test, a window of two   *)
(* days in a calendar of four, ratios on both sides of 95 %; posted        *)
(* Kelly fractions inside and outside what the sizer takes, and suggested  *)
(* ones below, inside and above the safe bounds.                           *)
(***************************************************************************)
EXTENDS SavedState

MCSharpes == {0, 1, 2}
MCRatios == {0, 1, 2}
MCPosted == {0, 50}
MCSuggested == {0, 50, 200}
MCKillPcts == {3, 5}
============================================================================
