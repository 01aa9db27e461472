---------------------------- MODULE MCHistoryPanel ----------------------------
(***************************************************************************)
(* A small instance of HistoryPanel: pages of two, up to five records, and *)
(* five requests, so that three pages make up a list and several requests  *)
(* are in flight at once.                                                  *)
(***************************************************************************)
EXTENDS HistoryPanel
=============================================================================
