----------------------------- MODULE MCControl -----------------------------
(* An instance of Control for TLC: two targets whose bands overlap, and    *)
(* readings on and just outside every edge of those bands.                 *)
EXTENDS Control

MCTargets  == {45, 50}
MCReadings == {39, 40, 44, 45, 50, 51, 55, 56}
=============================================================================
