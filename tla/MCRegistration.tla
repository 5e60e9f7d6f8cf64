---------------------------- MODULE MCRegistration ----------------------------
EXTENDS Registration, TLC

CONSTANTS c1, v1, u1, n1

CPF(text) == [type |-> "CPF", text |-> text]
CNPJ(text) == [type |-> "CNPJ", text |-> text]

\* A person, typed with and without separators, and a company; the others are
\* wrong in a check digit, repeated, too short or of the other type.
MCTexts ==
  {CPF(<<5,2,9,10,9,8,2,10,2,4,7,10,2,5>>), CPF(<<5,2,9,9,8,2,2,4,7,2,5>>),
   CNPJ(<<1,1,2,2,2,3,3,3,0,0,0,1,8,1>>),
   CPF(<<5,2,9,9,8,2,2,4,7,2,6>>), CPF(<<5,2,9,9,8,2,2,4,7,3,5>>),
   CPF(<<1,1,1,1,1,1,1,1,1,1,1>>), CPF(<<5,2,9,9,8,2,2,4,7,2>>),
   CNPJ(<<5,2,9,9,8,2,2,4,7,2,5>>), CNPJ(<<1,1,2,2,2,3,3,3,0,0,0,1,8,0>>)}

Typed(letters, dash, lower) ==
  [letters |-> letters, dash |-> dash, lower |-> lower]

MCPlates ==
  {Typed("ABC1234", FALSE, FALSE), Typed("ABC1234", TRUE, FALSE),
   Typed("ABC1D23", FALSE, TRUE), Typed("AB1234", FALSE, FALSE)}

MCValidPlates == {Typed("ABC1234", FALSE, FALSE), Typed("ABC1D23", FALSE, FALSE)}

\* As in seed.sql: a customer with a document that breaks the rule, a vehicle
\* and a user.
MCSeed ==
  [customers |-> c1 :> [document |-> <<1,2,3,4,5,6,7,8,9,0,1>>, type |-> "CPF"],
   vehicles |-> v1 :> [plate |-> Typed("ABC1D23", FALSE, FALSE),
                       customer |-> c1],
   users |-> u1 :> [username |-> n1],
   orders |-> <<>>]
===============================================================================
