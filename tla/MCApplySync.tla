----------------------------- MODULE MCApplySync -----------------------------
(* Namespace, Secret and CustomResourceDefinition of resourceOrder; the      *)
(* kinds in alphabetical order are Certificate (custom),                     *)
(* CustomResourceDefinition, Namespace, Secret and Widget.                   *)
EXTENDS ApplySync

MCOrdering == <<3, 4, 2>>
=============================================================================
