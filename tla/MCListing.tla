----------------------------- MODULE MCListing ------------------------------
EXTENDS Listing

Resolving == [resolve_symlinks : {TRUE}, multithreaded : {FALSE}]
=============================================================================
