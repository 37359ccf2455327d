----------------------------- MODULE MCListing ------------------------------
EXTENDS Listing
=============================================================================
