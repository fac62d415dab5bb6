------------------------------- MODULE Stores -------------------------------
(* Three components beside each other: the cache store, the endpoint       *)
(* catalog and the paging through workflows.  They do not meet here; each  *)
(* has constants and variables of its own.                                 *)
EXTENDS CacheStore, Integers

CONSTANTS
  Instances, Routes, CatalogRequests, Freshness, TTL, MaxQuery, CatalogFaults,
  Workflows, Order, Clients, Asked, DefaultLimit, MaxLimit, MaxClock

VARIABLES
  rows, age, mu, payload, ttl, ePc, fresh, waited, steady,
  clock, row, stamp, touched, lPc, asked, offset, seen, present, gone

endpointVars == <<rows, age, mu, payload, ttl, ePc, fresh, waited, steady>>
listVars     == <<clock, row, stamp, touched, lPc, asked, offset, seen, present, gone>>

Endpoints == INSTANCE Catalog WITH
  Requests <- CatalogRequests, Faults <- CatalogFaults, pc <- ePc

Lists == INSTANCE Workflows WITH pc <- lPc

-----------------------------------------------------------------------------
(* The types of the parts.                                                 *)
PartsTypeOK == TypeOK /\ Endpoints!TypeOK /\ Lists!TypeOK

(* What each part promises, under the name it has there.                   *)

(* Every ingest that is admitted and whoever asks for the endpoints is     *)
(* answered (cache_handler.go, catalog_handler.go).                        *)
RequestsAreAnswered == IngestEnds /\ Endpoints!AsksAreAnswered

(* What the catalog shows is neither too old nor too little                *)
(* (catalog_handler.go).                                                   *)
CatalogIsCurrent == Endpoints!CatalogIsCurrent

(* Reading page after page misses no workflow but for deletions            *)
(* (workflow_repo.go).                                                     *)
MissesAtMostDeleted == Lists!MissesAtMostDeleted
=============================================================================
