---------------------------- MODULE MCWorkbench -----------------------------
(* Values for Workbench are all in its cfg.                                  *)
EXTENDS Workbench
=============================================================================
