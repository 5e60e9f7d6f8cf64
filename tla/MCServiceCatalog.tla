--------------------------- MODULE MCServiceCatalog ---------------------------
EXTENDS ServiceCatalog, TLC

CONSTANTS oil, brakes

Row(name, capitals, price, active) ==
  [title |-> [name |-> name, capitals |-> capitals], price |-> price,
   active |-> active]

MCExisting == oil :> Row("oil", FALSE, 1, TRUE)

\* A new service, one whose title takes another's, titles and a price that no
\* column holds, an invalid price, a service withdrawn at the highest price,
\* and offered again.
MCForms ==
  {[given |-> {"title", "price"}, row |-> Row("brakes", FALSE, 1, FALSE)],
   [given |-> {"title", "price"}, row |-> Row("oil", TRUE, 2, FALSE)],
   [given |-> {"title", "price"}, row |-> Row("long", FALSE, 1, FALSE)],
   [given |-> {"title", "price"}, row |-> Row("nul", FALSE, 1, FALSE)],
   [given |-> {"title", "price"}, row |-> Row("brakes", FALSE, 4, FALSE)],
   [given |-> {"price"}, row |-> Row("oil", FALSE, 0, FALSE)],
   [given |-> {"price", "active"}, row |-> Row("oil", FALSE, 3, FALSE)],
   [given |-> {"active"}, row |-> Row("oil", FALSE, 1, TRUE)]}

MCIds == {oil, brakes}
MCTitles == {"oil", "brakes", "long", "nul"}

SymmetricRequests == Permutations(Requests)
===============================================================================
