--------------------------- MODULE MCCatalogCache ---------------------------
(* Constants of the TLC run of CatalogCache: one page of each endpoint. *)
EXTENDS CatalogCache

Endpoints == {"categories", "products"}
SingleFlight == {"products"}
=============================================================================
