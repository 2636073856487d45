----------------------------- MODULE MCConfigStore -----------------------------
(* ConfigStore on a small instance. *)
EXTENDS ConfigStore

CONSTANTS h1, h2
===============================================================================
