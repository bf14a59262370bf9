------------------------------ MODULE MCPages ------------------------------
(***************************************************************************)
(* Every page, two rows, and four gestures: enough to turn a page and      *)
(* search again while the first answer is out, or to confirm an action,    *)
(* leave its dialog and confirm it for the other row.                      *)
(***************************************************************************)
EXTENDS Pages
=============================================================================
