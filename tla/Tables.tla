-------------------------------- MODULE Tables --------------------------------
(***************************************************************************)
(* What the repositories and handlers of the registers (services,          *)
(* supplies, customers, vehicles) share: a table is a function from the    *)
(* ids present to their rows, a statement either changes it or fails with  *)
(* an error of PostgreSQL, and the handler translates the error into an    *)
(* HTTP status.                                                            *)
(***************************************************************************)
EXTENDS Naturals

\* INSERT, or UPDATE ... WHERE id = $n of a row that is present.
Put(table, id, row) ==
  [i \in DOMAIN table \union {id} |-> IF i = id THEN row ELSE table[i]]

\* DELETE ... WHERE id = $1.
Remove(table, id) == [i \in DOMAIN table \ {id} |-> table[i]]

\* A unique index on Key refuses the row for this id.
Taken(table, id, Key(_), row) ==
  \E i \in DOMAIN table \ {id} : Key(table[i]) = Key(row)

-----------------------------------------------------------------------------
Ok == 200
BadRequest == 400
NotFound == 404
Conflict == 409
Unprocessable == 422
InternalError == 500

Statuses == {Ok, BadRequest, NotFound, Conflict, Unprocessable, InternalError}

\* dbErrResponse: an error it does not handle is an internal one.
DbErrResponse(error) ==
  CASE error = "no rows" -> NotFound
    [] error \in {"unique", "foreign key"} -> Conflict
    [] error = "not null" -> BadRequest
    [] OTHER -> InternalError

\* mapErrorResponse, which falls back on dbErrResponse.
MapErrorResponse(error) ==
  CASE error = "validation" -> BadRequest
    [] error \in {"items closed", "inactive", "not the owner"} -> Unprocessable
    [] OTHER -> DbErrResponse(error)
===============================================================================
