------------------------------ MODULE Optional ------------------------------
(* The value that stands for Python's None in the modules that extend this one. *)
CONSTANT None
=============================================================================
