------------------------------- MODULE MCUpload -------------------------------
(***************************************************************************)
(* The speeds about the bounds of getSpeed.                                 *)
(***************************************************************************)
EXTENDS Upload

MCSpeeds == {-20000000, -10, -9, 0, 1, 499999, 500000, 2000000, 2000001}

==============================================================================
