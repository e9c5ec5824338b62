----------------------------- MODULE MCListings -----------------------------
EXTENDS Listings
=============================================================================
