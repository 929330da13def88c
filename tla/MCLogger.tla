------------------------------ MODULE MCLogger ------------------------------
(* Values of the constants of Logger for TLC.                                *)
EXTENDS Logger
=============================================================================
