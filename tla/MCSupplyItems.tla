---------------------------- MODULE MCSupplyItems -----------------------------
EXTENDS SupplyItems, TLC

CONSTANTS pads, fluid

MCSupplies == {pads, fluid}

\* One supply, two in either order, and one listed twice.
MCBatches == {<<pads>>, <<pads, fluid>>, <<fluid, pads>>, <<pads, pads>>}

SymmetricRequests == Permutations(Requests)
===============================================================================
