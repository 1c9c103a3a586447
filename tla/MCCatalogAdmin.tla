--------------------------- MODULE MCCatalogAdmin ---------------------------
(* The TLC run of CatalogAdmin takes its constants from the cfg. *)
EXTENDS CatalogAdmin
=============================================================================
