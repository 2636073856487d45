------------------------------- MODULE MCMonitor -------------------------------
(* Monitor on a small instance. *)
EXTENDS Monitor

CONSTANTS a, b

\* A reload may bring a node, and drop it.
One   == <<b>>
Lists == {<<a, b>>, One}
===============================================================================
