-------------------------- MODULE RegistrationProofs --------------------------
(***************************************************************************)
(* Theorems about Registration, for any number of customers, vehicles,     *)
(* users and requests, with and without faults, and about the check digits *)
(* of Documents, for every sequence of digits.                             *)
(***************************************************************************)
EXTENDS Registration, SumsProofs, SequenceTheorems

-----------------------------------------------------------------------------
(***************************************************************************)
(* Types.                                                                  *)
(***************************************************************************)
LEMMA ErrorTypes ==
  ASSUME NEW e
  PROVE  MapErrorResponse(e) \in Statuses
BY DEF MapErrorResponse, DbErrResponse, Statuses, Ok, BadRequest, NotFound,
       Conflict, Unprocessable, InternalError

\* What the registers have in common when the requests are left alone.
RegisterTypes ==
  /\ DOMAIN customers \subseteq CustomerIds
  /\ \A c \in DOMAIN customers : customers[c].type \in Types
  /\ DOMAIN vehicles \subseteq VehicleIds
  /\ \A v \in DOMAIN vehicles : vehicles[v].plate \in ValidPlates
  /\ DOMAIN users \subseteq UserIds
  /\ \A u \in DOMAIN users : users[u].username \in Usernames
  /\ owned \subseteq VehicleIds \X CustomerIds
  /\ named \subseteq UserIds \X Usernames
  /\ retired \subseteq UserIds

OrderTypes ==
  /\ DOMAIN orders \subseteq Requests \union DOMAIN Seed.orders
  /\ \A r \in DOMAIN orders \intersect Requests :
       req[r].pc \in {"read back", "done", "broken"}

RequestTypes == req \in [Requests -> {IdleRequest} \union RequestRecords]

LEMMA TypeParts == TypeOK <=> RegisterTypes /\ OrderTypes /\ RequestTypes
BY DEF TypeOK, RegisterTypes, OrderTypes, RequestTypes

LEMMA RowTypes ==
  /\ \A row \in CustomerRows : row.type \in Types
  /\ \A row \in VehicleRows : row.plate \in ValidPlates
                              /\ row.customer \in CustomerIds
BY RegistrationAssumption DEF CustomerRows, VehicleRows

-----------------------------------------------------------------------------
(***************************************************************************)
(* The handlers of the registers: what each does to the tables.            *)
(***************************************************************************)
CustomerWritten ==
  \E c \in CustomerIds : WriteCustomer(c)
VehicleWritten ==
  \E v \in VehicleIds : WriteVehicle(v)
UserWritten ==
  \E u \in UserIds : WriteUser(u)

RegisterStep ==
  \/ CustomerWritten \/ DeleteCustomer
  \/ VehicleWritten \/ DeleteVehicle
  \/ UserWritten \/ DeleteUser

LEMMA NextKinds ==
  ASSUME RegisterTypes, Next
  PROVE  RegisterStep \/ \E r \in Requests : OrderStep(r)
BY DEF RegisterTypes, Next, RegisterStep, CustomerWritten, VehicleWritten,
       UserWritten, CreateCustomer, UpdateCustomer, CreateVehicle,
       UpdateVehicle, Register, UpdateUser

\* No order is opened by a step of the registers.
LEMMA RegisterLeaves ==
  ASSUME RegisterStep
  PROVE  UNCHANGED <<orders, req>>
BY DEF RegisterStep, CustomerWritten, WriteCustomer, DeleteCustomer,
       VehicleWritten, WriteVehicle, DeleteVehicle, UserWritten, WriteUser,
       DeleteUser

LEMMA RegisterStepTyped ==
  ASSUME RegisterTypes, RegisterStep
  PROVE  RegisterTypes'
<1>1. CASE CustomerWritten
  <2>1. PICK c \in CustomerIds, row \in CustomerRows :
          customers' = Put(customers, c, row)
    BY <1>1 DEF CustomerWritten, WriteCustomer
  <2>2. UNCHANGED <<vehicles, users, owned, named, retired>>
    BY <1>1 DEF CustomerWritten, WriteCustomer
  <2>3. row.type \in Types
    BY RowTypes
  <2>4. /\ DOMAIN customers' = DOMAIN customers \union {c}
        /\ customers'[c] = row
        /\ \A i \in DOMAIN customers \ {c} : customers'[i] = customers[i]
    BY <2>1 DEF Put
  <2>5. QED
    BY <2>2, <2>3, <2>4 DEF RegisterTypes
<1>2. CASE DeleteCustomer
  <2>1. PICK c \in DOMAIN customers :
          customers' = Remove(customers, c)
    BY <1>2 DEF DeleteCustomer
  <2>2. UNCHANGED <<vehicles, users, owned, named, retired>>
    BY <1>2 DEF DeleteCustomer
  <2>3. /\ DOMAIN customers' = DOMAIN customers \ {c}
        /\ \A i \in DOMAIN customers \ {c} : customers'[i] = customers[i]
    BY <2>1 DEF Remove
  <2>4. QED
    BY <2>1, <2>2, <2>3 DEF RegisterTypes
<1>3. CASE VehicleWritten
  <2>1. PICK v \in VehicleIds, row \in VehicleRows :
          /\ vehicles' = Put(vehicles, v, row)
          /\ owned' = owned \union {<<v, row.customer>>}
    BY <1>3 DEF VehicleWritten, WriteVehicle
  <2>2. UNCHANGED <<customers, users, named, retired>>
    BY <1>3 DEF VehicleWritten, WriteVehicle
  <2>3. row.plate \in ValidPlates /\ row.customer \in CustomerIds
    BY RowTypes
  <2>4. /\ DOMAIN vehicles' = DOMAIN vehicles \union {v}
        /\ vehicles'[v] = row
        /\ \A i \in DOMAIN vehicles \ {v} : vehicles'[i] = vehicles[i]
    BY <2>1 DEF Put
  <2>5. owned' \subseteq VehicleIds \X CustomerIds
    BY <2>1, <2>3 DEF RegisterTypes
  <2>6. QED
    BY <2>2, <2>3, <2>4, <2>5 DEF RegisterTypes
<1>4. CASE DeleteVehicle
  <2>1. PICK v \in DOMAIN vehicles :
          vehicles' = Remove(vehicles, v)
    BY <1>4 DEF DeleteVehicle
  <2>2. UNCHANGED <<customers, users, owned, named, retired>>
    BY <1>4 DEF DeleteVehicle
  <2>3. /\ DOMAIN vehicles' = DOMAIN vehicles \ {v}
        /\ \A i \in DOMAIN vehicles \ {v} : vehicles'[i] = vehicles[i]
    BY <2>1 DEF Remove
  <2>4. QED
    BY <2>1, <2>2, <2>3 DEF RegisterTypes
<1>5. CASE UserWritten
  <2>1. PICK u \in UserIds, name \in Usernames :
          /\ users' = Put(users, u, [username |-> name])
          /\ named' = named \union {<<u, name>>}
    BY <1>5 DEF UserWritten, WriteUser
  <2>2. UNCHANGED <<customers, vehicles, owned, retired>>
    BY <1>5 DEF UserWritten, WriteUser
  <2>3. /\ DOMAIN users' = DOMAIN users \union {u}
        /\ users'[u] = [username |-> name]
        /\ \A i \in DOMAIN users \ {u} : users'[i] = users[i]
    BY <2>1 DEF Put
  <2>4. named' \subseteq UserIds \X Usernames
    BY <2>1 DEF RegisterTypes
  <2>5. QED
    BY <2>2, <2>3, <2>4 DEF RegisterTypes
<1>6. CASE DeleteUser
  <2>1. PICK u \in DOMAIN users :
          users' = Remove(users, u) /\ retired' = retired \union {u}
    BY <1>6 DEF DeleteUser
  <2>2. UNCHANGED <<customers, vehicles, owned, named>>
    BY <1>6 DEF DeleteUser
  <2>3. /\ DOMAIN users' = DOMAIN users \ {u}
        /\ \A i \in DOMAIN users \ {u} : users'[i] = users[i]
    BY <2>1 DEF Remove
  <2>4. QED
    BY <2>1, <2>2, <2>3 DEF RegisterTypes
<1>7. QED
  BY <1>1, <1>2, <1>3, <1>4, <1>5, <1>6 DEF RegisterStep

-----------------------------------------------------------------------------
(***************************************************************************)
(* The request: what each of its steps does.                               *)
(***************************************************************************)

\* Only the record of r changes, and to this one.
Becomes(r, new) == req' = [req EXCEPT ![r] = new]

LEMMA BecomesTyped ==
  ASSUME RequestTypes, NEW r \in Requests, NEW new \in RequestRecords,
         Becomes(r, new)
  PROVE  /\ RequestTypes'
         /\ req'[r] = new
         /\ \A q \in Requests \ {r} : req'[q] = req[q]
BY DEF RequestTypes, Becomes

LEMMA BegunRecord ==
  ASSUME RequestTypes, NEW r \in Requests, req[r].pc # "idle"
  PROVE  req[r] \in RequestRecords
BY DEF RequestTypes, IdleRequest

LEMMA GotoBecomes ==
  ASSUME RequestTypes, NEW r \in Requests, req[r].pc # "idle", NEW pc,
         Goto(r, pc)
  PROVE  /\ req'[r] = [req[r] EXCEPT !.pc = pc]
         /\ Becomes(r, [req[r] EXCEPT !.pc = pc])
BY DEF RequestTypes, Goto, Becomes

LEMMA AnswerBecomes ==
  ASSUME RequestTypes, NEW r \in Requests, req[r].pc # "idle", NEW status,
         Answer(r, status)
  PROVE  Becomes(r, [req[r] EXCEPT !.pc = "done", !.answer = status])
BY DEF RequestTypes, Answer, Becomes

Pcs == {"user", "vehicle", "insert", "read back", "broken", "done"}

\* The orders keep their types when the record of one request changes.
LEMMA OnlyRequest ==
  ASSUME TypeOK, NEW r \in Requests, NEW new \in RequestRecords,
         Becomes(r, new), UNCHANGED registers,
         r \in DOMAIN orders => new.pc \in {"read back", "done", "broken"}
  PROVE  TypeOK'
<1>1. RegisterTypes'
  BY TypeParts DEF RegisterTypes, registers
<1>2. RequestTypes' /\ req'[r] = new
      /\ \A q \in Requests \ {r} : req'[q] = req[q]
  BY TypeParts, BecomesTyped
<1>3. OrderTypes'
  BY <1>2, TypeParts DEF OrderTypes, registers
<1>4. QED
  BY <1>1, <1>2, <1>3, TypeParts DEF TypeOK, RegisterTypes, OrderTypes, RequestTypes

LEMMA GotoTyped ==
  ASSUME TypeOK, NEW r \in Requests, req[r].pc # "idle", NEW pc \in Pcs,
         Goto(r, pc), UNCHANGED registers,
         r \in DOMAIN orders => pc \in {"read back", "done", "broken"}
  PROVE  TypeOK'
<1> DEFINE new == [req[r] EXCEPT !.pc = pc]
<1>1. req[r] \in RequestRecords /\ Becomes(r, new)
  BY TypeParts, BegunRecord, GotoBecomes
<1>2. new \in RequestRecords /\ new.pc = pc
  BY <1>1 DEF RequestRecords, Pcs
<1>3. QED
  BY <1>1, <1>2, OnlyRequest

LEMMA AnswerTyped ==
  ASSUME TypeOK, NEW r \in Requests, req[r].pc # "idle",
         NEW status \in Statuses, Answer(r, status), UNCHANGED registers
  PROVE  TypeOK'
<1> DEFINE new == [req[r] EXCEPT !.pc = "done", !.answer = status]
<1>1. req[r] \in RequestRecords /\ Becomes(r, new)
  BY TypeParts, BegunRecord, AnswerBecomes
<1>2. new \in RequestRecords /\ new.pc = "done"
  BY <1>1 DEF RequestRecords
<1>3. QED
  BY <1>1, <1>2, OnlyRequest

\* The INSERT, when the foreign keys hold.
Inserted(r, u) ==
  /\ orders' = Put(orders, r, [customer |-> req[r].customer,
                               vehicle |-> req[r].vehicle, opener |-> u])
  /\ u \in req[r].opener
  /\ req[r].customer \in DOMAIN customers
  /\ req[r].vehicle \in DOMAIN vehicles
  /\ req[r].opener \subseteq DOMAIN users
  /\ \E pc \in {"read back", "broken"} : Goto(r, pc)
  /\ UNCHANGED <<customers, vehicles, users, owned, named, retired>>

LEMMA InsertKinds ==
  ASSUME NEW r \in Requests, InsertOrder(r)
  PROVE  \/ \E u : Inserted(r, u)
         \/ \E e : Answer(r, MapErrorResponse(e)) /\ UNCHANGED registers
BY DEF InsertOrder, Inserted

LEMMA InsertedTyped ==
  ASSUME TypeOK, NEW r \in Requests, req[r].pc = "insert", NEW u, Inserted(r, u)
  PROVE  /\ TypeOK'
         /\ DOMAIN orders' = DOMAIN orders \union {r}
         /\ orders'[r] = [customer |-> req[r].customer,
                          vehicle |-> req[r].vehicle, opener |-> u]
         /\ \A o \in DOMAIN orders \ {r} : orders'[o] = orders[o]
         /\ \A q \in Requests \ {r} : req'[q] = req[q]
         /\ req'[r].token = req[r].token
         /\ req'[r].pc \in {"read back", "broken"}
<1>1. PICK pc \in {"read back", "broken"} : Goto(r, pc)
  BY DEF Inserted
<1> DEFINE new == [req[r] EXCEPT !.pc = pc]
<1>2. req[r] \in RequestRecords /\ Becomes(r, new)
  BY <1>1, TypeParts, BegunRecord, GotoBecomes
<1>3. new \in RequestRecords /\ new.pc = pc /\ new.token = req[r].token
  BY <1>2 DEF RequestRecords
<1>4. RequestTypes' /\ req'[r] = new
      /\ \A q \in Requests \ {r} : req'[q] = req[q]
  BY <1>2, <1>3, TypeParts, BecomesTyped
<1>5. /\ DOMAIN orders' = DOMAIN orders \union {r}
      /\ orders'[r] = [customer |-> req[r].customer,
                       vehicle |-> req[r].vehicle, opener |-> u]
      /\ \A o \in DOMAIN orders \ {r} : orders'[o] = orders[o]
  BY DEF Inserted, Put
<1>6. OrderTypes'
  BY <1>3, <1>4, <1>5, TypeParts DEF OrderTypes
<1>7. RegisterTypes'
  BY TypeParts DEF Inserted, RegisterTypes
<1>8. TypeOK'
  BY <1>4, <1>6, <1>7 DEF TypeOK, RegisterTypes, OrderTypes, RequestTypes
<1>9. QED
  BY <1>3, <1>4, <1>5, <1>8

\* A request has found the account that has the username of its token.
Found(r, u) ==
  /\ HasUsername(u, req[r].token)
  /\ u \in UserIds
  /\ req' = [req EXCEPT ![r].pc = "vehicle", ![r].opener = {u}]
  /\ UNCHANGED registers

LEMMA FoundTyped ==
  ASSUME TypeOK, NEW r \in Requests, req[r].pc = "user", NEW u, Found(r, u)
  PROVE  /\ TypeOK'
         /\ req'[r] = [req[r] EXCEPT !.pc = "vehicle", !.opener = {u}]
         /\ req[r] \in RequestRecords
         /\ \A q \in Requests \ {r} : req'[q] = req[q]
<1> DEFINE new == [req[r] EXCEPT !.pc = "vehicle", !.opener = {u}]
<1>1. req[r] \in RequestRecords
  BY TypeParts, BegunRecord
<1>2. new \in RequestRecords
  BY <1>1 DEF RequestRecords, Found
<1>3. Becomes(r, new)
  BY TypeParts DEF Found, Becomes, RequestTypes
<1>4. r \notin DOMAIN orders
  BY TypeParts DEF OrderTypes
<1>5. TypeOK'
  BY <1>2, <1>3, <1>4, OnlyRequest DEF Found
<1>6. QED
  BY <1>1, <1>2, <1>3, <1>5, TypeParts, BecomesTyped

\* A request begins.
Begun(r, n, c, v) ==
  /\ req' = [req EXCEPT ![r] =
               [pc |-> "user", token |-> n, customer |-> c, vehicle |-> v,
                opener |-> {}, answer |-> Ok]]
  /\ UNCHANGED registers

LEMMA BegunTyped ==
  ASSUME TypeOK, NEW r \in Requests, req[r].pc = "idle", NEW n \in Usernames,
         NEW c \in CustomerIds, NEW v \in VehicleIds, Begun(r, n, c, v)
  PROVE  TypeOK' /\ req'[r].pc = "user"
         /\ \A q \in Requests \ {r} : req'[q] = req[q]
<1> DEFINE new == [pc |-> "user", token |-> n, customer |-> c, vehicle |-> v,
                   opener |-> {}, answer |-> Ok]
<1>1. new \in RequestRecords
  BY DEF RequestRecords, Statuses
<1>2. Becomes(r, new)
  BY DEF Begun, Becomes
<1>3. r \notin DOMAIN orders
  BY TypeParts DEF OrderTypes
<1>4. TypeOK'
  BY <1>1, <1>2, <1>3, OnlyRequest DEF Begun
<1>5. QED
  BY <1>1, <1>2, <1>4, TypeParts, BecomesTyped

-----------------------------------------------------------------------------
(***************************************************************************)
(* The steps of a request, by what they change.                            *)
(***************************************************************************)

\* Nothing changes but the place or the answer of r; only a read of the
\* vehicle that finds it the customer's lets it go on to the INSERT.
Passes(r) ==
  /\ UNCHANGED registers
  /\ req[r].pc # "idle"
  /\ \A q \in Requests \ {r} : req'[q] = req[q]
  /\ req'[r].token = req[r].token
  /\ req'[r].opener = req[r].opener
  /\ req'[r].customer = req[r].customer
  /\ req'[r].vehicle = req[r].vehicle
  /\ \/ req'[r].pc \in {"done", "broken"}
     \/ /\ req[r].pc = "vehicle" /\ req'[r].pc = "insert"
        /\ req[r].vehicle \in DOMAIN vehicles
        /\ vehicles[req[r].vehicle].customer = req[r].customer

LEMMA GotoPasses ==
  ASSUME TypeOK, NEW r \in Requests, req[r].pc # "idle", NEW pc,
         Goto(r, pc), UNCHANGED registers,
         \/ pc = "broken"
         \/ /\ pc = "insert" /\ req[r].pc = "vehicle"
            /\ req[r].vehicle \in DOMAIN vehicles
            /\ vehicles[req[r].vehicle].customer = req[r].customer
  PROVE  Passes(r)
<1>1. req[r] \in RequestRecords
  BY TypeParts, BegunRecord
<1>2. /\ req'[r] = [req[r] EXCEPT !.pc = pc]
      /\ \A q \in Requests \ {r} : req'[q] = req[q]
  BY TypeParts DEF Goto, RequestTypes
<1>3. QED
  BY <1>1, <1>2 DEF Passes, RequestRecords

LEMMA AnswerPasses ==
  ASSUME TypeOK, NEW r \in Requests, req[r].pc # "idle", NEW status,
         Answer(r, status), UNCHANGED registers
  PROVE  Passes(r)
<1>1. req[r] \in RequestRecords
  BY TypeParts, BegunRecord
<1>2. /\ req'[r] = [req[r] EXCEPT !.pc = "done", !.answer = status]
      /\ \A q \in Requests \ {r} : req'[q] = req[q]
  BY TypeParts DEF Answer, RequestTypes
<1>3. QED
  BY <1>1, <1>2 DEF Passes, RequestRecords

LEMMA OrderStepKinds ==
  ASSUME TypeOK, NEW r \in Requests, OrderStep(r)
  PROVE  /\ TypeOK'
         /\ \/ /\ req[r].pc = "idle"
               /\ \E n \in Usernames, c \in CustomerIds, v \in VehicleIds :
                    Begun(r, n, c, v)
            \/ /\ req[r].pc = "user"
               /\ \E u : Found(r, u)
            \/ /\ req[r].pc = "insert"
               /\ \E u : Inserted(r, u)
            \/ Passes(r)
<1>1. CASE BeginOrder(r)
  <2>1. PICK n \in Usernames, c \in CustomerIds, v \in VehicleIds :
          Begun(r, n, c, v)
    BY <1>1 DEF BeginOrder, Begun, Tokens
  <2>2. req[r].pc = "idle"
    BY <1>1 DEF BeginOrder
  <2>3. QED
    BY <2>1, <2>2, BegunTyped
<1>2. CASE FindUser(r)
  <2>1. req[r].pc = "user" /\ UNCHANGED registers
    BY <1>2 DEF FindUser
  <2>2. (\E u : Found(r, u)) \/ Answer(r, InternalError)
    BY <1>2 DEF FindUser, Found
  <2>3. CASE Answer(r, InternalError)
    <3>1. InternalError \in Statuses
      BY DEF Statuses
    <3>2. QED
      BY <2>1, <2>3, <3>1, AnswerTyped, AnswerPasses
  <2>4. CASE \E u : Found(r, u)
    BY <2>1, <2>4, FoundTyped
  <2>5. QED
    BY <2>2, <2>3, <2>4
<1>3. CASE FindVehicle(r)
  <2>1. req[r].pc = "vehicle" /\ UNCHANGED registers
    BY <1>3 DEF FindVehicle
  <2>2. \/ \E e : Answer(r, MapErrorResponse(e))
        \/ /\ Goto(r, "insert")
           /\ req[r].vehicle \in DOMAIN vehicles
           /\ vehicles[req[r].vehicle].customer = req[r].customer
    BY <1>3 DEF FindVehicle
  <2>3. CASE \E e : Answer(r, MapErrorResponse(e))
    BY <2>1, <2>3, ErrorTypes, AnswerTyped, AnswerPasses
  <2>4. CASE /\ Goto(r, "insert")
             /\ req[r].vehicle \in DOMAIN vehicles
             /\ vehicles[req[r].vehicle].customer = req[r].customer
    <3>1. r \notin DOMAIN orders
      BY <2>1, TypeParts DEF OrderTypes
    <3>2. TypeOK'
      BY <2>1, <2>4, <3>1, GotoTyped DEF Pcs
    <3>3. QED
      BY <2>1, <2>4, <3>2, GotoPasses
  <2>5. QED
    BY <2>2, <2>3, <2>4
<1>4. CASE InsertOrder(r)
  <2>1. req[r].pc = "insert"
    BY <1>4 DEF InsertOrder
  <2>2. CASE \E u : Inserted(r, u)
    BY <2>1, <2>2, InsertedTyped
  <2>3. CASE \E e : Answer(r, MapErrorResponse(e)) /\ UNCHANGED registers
    BY <2>1, <2>3, ErrorTypes, AnswerTyped, AnswerPasses
  <2>4. QED
    BY <1>4, <2>2, <2>3, InsertKinds
<1>5. CASE ReadBack(r)
  <2>1. req[r].pc = "read back" /\ UNCHANGED registers
    BY <1>5 DEF ReadBack
  <2>2. PICK status : status \in Statuses /\ Answer(r, status)
    BY <1>5, ErrorTypes DEF ReadBack, Statuses
  <2>3. QED
    BY <2>1, <2>2, AnswerTyped, AnswerPasses
<1>6. CASE Break(r)
  <2>1. req[r].pc # "idle" /\ UNCHANGED registers /\ Goto(r, "broken")
    BY <1>6 DEF Break
  <2>2. QED
    BY <2>1, GotoTyped, GotoPasses DEF Pcs
<1>7. QED
  BY <1>1, <1>2, <1>3, <1>4, <1>5, <1>6 DEF OrderStep

LEMMA InitTyped == Init => TypeOK
<1> SUFFICES ASSUME Init PROVE TypeOK
  OBVIOUS
<1>1. \A v \in DOMAIN vehicles :
        /\ v \in VehicleIds /\ vehicles[v].plate \in ValidPlates
        /\ vehicles[v].customer \in CustomerIds
  BY SeedAssumption DEF Init
<1>2. \A u \in DOMAIN users : u \in UserIds /\ users[u].username \in Usernames
  BY SeedAssumption DEF Init
<1>3. RegisterTypes
  <2>1. owned \subseteq VehicleIds \X CustomerIds
    BY <1>1 DEF Init
  <2>2. named \subseteq UserIds \X Usernames
    BY <1>2 DEF Init
  <2>3. /\ DOMAIN customers \subseteq CustomerIds
        /\ \A c \in DOMAIN customers : customers[c].type \in Types
        /\ retired \subseteq UserIds
    BY SeedAssumption DEF Init
  <2>4. QED
    BY <1>1, <1>2, <2>1, <2>2, <2>3 DEF RegisterTypes
<1>4. OrderTypes
  BY SeedAssumption DEF Init, OrderTypes
<1>5. RequestTypes
  BY DEF Init, RequestTypes
<1>6. QED
  BY <1>3, <1>4, <1>5, TypeParts

(***************************************************************************)
(* TypeOK, for every number of requests and rows: also that documents are  *)
(* of a known type and plates in a valid format, and that an order in the  *)
(* table belongs to a request that has inserted it.                        *)
(***************************************************************************)
THEOREM TypeCorrect == Spec => []TypeOK
<1>1. TypeOK /\ [Next]_vars => TypeOK'
  <2> SUFFICES ASSUME TypeOK, [Next]_vars PROVE TypeOK'
    OBVIOUS
  <2>1. CASE RegisterStep
    <3>1. UNCHANGED <<orders, req>> /\ RegisterTypes'
      BY <2>1, RegisterLeaves, RegisterStepTyped, TypeParts
    <3>2. QED
      BY <3>1, TypeParts DEF TypeOK, RegisterTypes
  <2>2. ASSUME NEW r \in Requests, OrderStep(r) PROVE TypeOK'
    BY <2>2, OrderStepKinds
  <2>3. CASE UNCHANGED vars
    BY <2>3 DEF TypeOK, vars, registers
  <2>4. QED
    BY <2>1, <2>2, <2>3, NextKinds, TypeParts
<1>2. QED
  BY <1>1, InitTyped, PTL DEF Spec

-----------------------------------------------------------------------------
(***************************************************************************)
(* References.  No handler but the INSERT looks whether what it refers to  *)
(* exists; each of the others is one statement that a foreign key checks.  *)
(***************************************************************************)
LEMMA RegisterKeepsReferences ==
  ASSUME TypeOK, ReferencesResolve, RegisterStep
  PROVE  ReferencesResolve'
<1>0. UNCHANGED orders
  BY RegisterLeaves
<1>1. CASE CustomerWritten
  <2>1. PICK c, row : customers' = Put(customers, c, row)
    BY <1>1 DEF CustomerWritten, WriteCustomer
  <2>2. DOMAIN customers' = DOMAIN customers \union {c}
    BY <2>1 DEF Put
  <2>3. UNCHANGED <<vehicles, users>>
    BY <1>1 DEF CustomerWritten, WriteCustomer
  <2>4. QED
    BY <1>0, <2>2, <2>3 DEF ReferencesResolve
<1>2. CASE DeleteCustomer
  <2>1. PICK c \in DOMAIN customers :
          /\ \A v \in DOMAIN vehicles : vehicles[v].customer # c
          /\ \A o \in DOMAIN orders : orders[o].customer # c
          /\ customers' = Remove(customers, c)
    BY <1>2 DEF DeleteCustomer
  <2>2. DOMAIN customers' = DOMAIN customers \ {c}
    BY <2>1 DEF Remove
  <2>3. UNCHANGED <<vehicles, users>>
    BY <1>2 DEF DeleteCustomer
  <2>4. QED
    BY <1>0, <2>1, <2>2, <2>3 DEF ReferencesResolve
<1>3. CASE VehicleWritten
  <2>1. PICK v, row : /\ vehicles' = Put(vehicles, v, row)
                      /\ row.customer \in DOMAIN customers
    BY <1>3 DEF VehicleWritten, WriteVehicle
  <2>2. /\ DOMAIN vehicles' = DOMAIN vehicles \union {v}
        /\ vehicles'[v] = row
        /\ \A i \in DOMAIN vehicles \ {v} : vehicles'[i] = vehicles[i]
    BY <2>1 DEF Put
  <2>3. UNCHANGED <<customers, users>>
    BY <1>3 DEF VehicleWritten, WriteVehicle
  <2>4. QED
    BY <1>0, <2>1, <2>2, <2>3 DEF ReferencesResolve
<1>4. CASE DeleteVehicle
  <2>1. PICK v \in DOMAIN vehicles :
          /\ \A o \in DOMAIN orders : orders[o].vehicle # v
          /\ vehicles' = Remove(vehicles, v)
    BY <1>4 DEF DeleteVehicle
  <2>2. /\ DOMAIN vehicles' = DOMAIN vehicles \ {v}
        /\ \A i \in DOMAIN vehicles \ {v} : vehicles'[i] = vehicles[i]
    BY <2>1 DEF Remove
  <2>3. UNCHANGED <<customers, users>>
    BY <1>4 DEF DeleteVehicle
  <2>4. QED
    BY <1>0, <2>1, <2>2, <2>3 DEF ReferencesResolve
<1>5. CASE UserWritten
  <2>1. PICK u, row : users' = Put(users, u, row)
    BY <1>5 DEF UserWritten, WriteUser
  <2>2. DOMAIN users' = DOMAIN users \union {u}
    BY <2>1 DEF Put
  <2>3. UNCHANGED <<customers, vehicles>>
    BY <1>5 DEF UserWritten, WriteUser
  <2>4. QED
    BY <1>0, <2>2, <2>3 DEF ReferencesResolve
<1>6. CASE DeleteUser
  <2>1. PICK u \in DOMAIN users :
          /\ \A o \in DOMAIN orders : orders[o].opener # u
          /\ users' = Remove(users, u)
    BY <1>6 DEF DeleteUser
  <2>2. DOMAIN users' = DOMAIN users \ {u}
    BY <2>1 DEF Remove
  <2>3. UNCHANGED <<customers, vehicles>>
    BY <1>6 DEF DeleteUser
  <2>4. QED
    BY <1>0, <2>1, <2>2, <2>3 DEF ReferencesResolve
<1>7. QED
  BY <1>1, <1>2, <1>3, <1>4, <1>5, <1>6 DEF RegisterStep

LEMMA OrderKeepsReferences ==
  ASSUME TypeOK, ReferencesResolve, NEW r \in Requests, OrderStep(r)
  PROVE  ReferencesResolve'
<1>1. CASE UNCHANGED registers
  BY <1>1 DEF ReferencesResolve, registers
<1>2. ASSUME NEW u, req[r].pc = "insert", Inserted(r, u)
      PROVE  ReferencesResolve'
  <2>1. /\ DOMAIN orders' = DOMAIN orders \union {r}
        /\ orders'[r] = [customer |-> req[r].customer,
                         vehicle |-> req[r].vehicle, opener |-> u]
        /\ \A o \in DOMAIN orders \ {r} : orders'[o] = orders[o]
    BY <1>2, InsertedTyped
  <2>2. /\ req[r].customer \in DOMAIN customers
        /\ req[r].vehicle \in DOMAIN vehicles
        /\ u \in DOMAIN users
        /\ UNCHANGED <<customers, vehicles, users>>
    BY <1>2 DEF Inserted
  <2>3. QED
    BY <2>1, <2>2 DEF ReferencesResolve
<1>3. QED
  BY <1>1, <1>2, OrderStepKinds DEF Begun, Found, Passes

(***************************************************************************)
(* Every vehicle keeps its customer and every order its customer, vehicle  *)
(* and opener, in every interleaving of deletions with POST /work-orders.  *)
(***************************************************************************)
THEOREM ReferencesStayResolved == Spec => []ReferencesResolve
<1>1. Init => ReferencesResolve
  BY SeedAssumption DEF Init, ReferencesResolve
<1>2. TypeOK /\ ReferencesResolve /\ [Next]_vars => ReferencesResolve'
  <2> SUFFICES ASSUME TypeOK, ReferencesResolve, [Next]_vars
               PROVE  ReferencesResolve'
    OBVIOUS
  <2>1. CASE UNCHANGED vars
    BY <2>1 DEF ReferencesResolve, vars, registers
  <2>2. QED
    BY <2>1, NextKinds, TypeParts, RegisterKeepsReferences,
       OrderKeepsReferences
<1>3. QED
  BY <1>1, <1>2, TypeCorrect, PTL DEF Spec

-----------------------------------------------------------------------------
(***************************************************************************)
(* The parties of an order.  What a request has read was true when it read *)
(* it, and the tables were true of the history all along.                  *)
(***************************************************************************)
TablesWereTrue ==
  /\ \A v \in DOMAIN vehicles : <<v, vehicles[v].customer>> \in owned
  /\ \A u \in DOMAIN users : <<u, users[u].username>> \in named

ReadsWereTrue ==
  \A r \in Requests :
    /\ req[r].pc \in {"vehicle", "insert"} =>
         \A u \in req[r].opener : <<u, req[r].token>> \in named
    /\ req[r].pc = "insert" => <<req[r].vehicle, req[r].customer>> \in owned

WereTrue == TablesWereTrue /\ ReadsWereTrue /\ OrderPartiesWereTrue

\* The histories only grow.
LEMMA RegisterRemembers ==
  ASSUME TypeOK, WereTrue, RegisterStep
  PROVE  TablesWereTrue' /\ owned \subseteq owned' /\ named \subseteq named'
<1>1. CASE CustomerWritten \/ DeleteCustomer
  BY <1>1 DEF CustomerWritten, WriteCustomer, DeleteCustomer, WereTrue,
              TablesWereTrue
<1>2. CASE VehicleWritten
  <2>1. PICK v, row : /\ vehicles' = Put(vehicles, v, row)
                      /\ owned' = owned \union {<<v, row.customer>>}
    BY <1>2 DEF VehicleWritten, WriteVehicle
  <2>2. /\ DOMAIN vehicles' = DOMAIN vehicles \union {v}
        /\ vehicles'[v] = row
        /\ \A i \in DOMAIN vehicles \ {v} : vehicles'[i] = vehicles[i]
    BY <2>1 DEF Put
  <2>3. UNCHANGED <<users, named>>
    BY <1>2 DEF VehicleWritten, WriteVehicle
  <2>4. QED
    BY <2>1, <2>2, <2>3 DEF WereTrue, TablesWereTrue
<1>3. CASE DeleteVehicle
  <2>1. PICK v : vehicles' = Remove(vehicles, v)
    BY <1>3 DEF DeleteVehicle
  <2>2. /\ DOMAIN vehicles' = DOMAIN vehicles \ {v}
        /\ \A i \in DOMAIN vehicles \ {v} : vehicles'[i] = vehicles[i]
    BY <2>1 DEF Remove
  <2>3. UNCHANGED <<users, owned, named>>
    BY <1>3 DEF DeleteVehicle
  <2>4. QED
    BY <2>2, <2>3 DEF WereTrue, TablesWereTrue
<1>4. CASE UserWritten
  <2>1. PICK u, name : /\ users' = Put(users, u, [username |-> name])
                       /\ named' = named \union {<<u, name>>}
    BY <1>4 DEF UserWritten, WriteUser
  <2>2. /\ DOMAIN users' = DOMAIN users \union {u}
        /\ users'[u].username = name
        /\ \A i \in DOMAIN users \ {u} : users'[i] = users[i]
    BY <2>1 DEF Put
  <2>3. UNCHANGED <<vehicles, owned>>
    BY <1>4 DEF UserWritten, WriteUser
  <2>4. QED
    BY <2>1, <2>2, <2>3 DEF WereTrue, TablesWereTrue
<1>5. CASE DeleteUser
  <2>1. PICK u : users' = Remove(users, u)
    BY <1>5 DEF DeleteUser
  <2>2. /\ DOMAIN users' = DOMAIN users \ {u}
        /\ \A i \in DOMAIN users \ {u} : users'[i] = users[i]
    BY <2>1 DEF Remove
  <2>3. UNCHANGED <<vehicles, owned, named>>
    BY <1>5 DEF DeleteUser
  <2>4. QED
    BY <2>2, <2>3 DEF WereTrue, TablesWereTrue
<1>6. QED
  BY <1>1, <1>2, <1>3, <1>4, <1>5 DEF RegisterStep

LEMMA RegisterKeepsTruth ==
  ASSUME TypeOK, WereTrue, RegisterStep
  PROVE  WereTrue'
<1>1. UNCHANGED <<orders, req>>
  BY RegisterLeaves
<1>2. TablesWereTrue' /\ owned \subseteq owned' /\ named \subseteq named'
  BY RegisterRemembers
<1>3. ReadsWereTrue'
  BY <1>1, <1>2 DEF WereTrue, ReadsWereTrue
<1>4. OrderPartiesWereTrue'
  BY <1>1, <1>2 DEF WereTrue, OrderPartiesWereTrue
<1>5. QED
  BY <1>2, <1>3, <1>4 DEF WereTrue

LEMMA OrderKeepsTruth ==
  ASSUME TypeOK, WereTrue, NEW r \in Requests, OrderStep(r)
  PROVE  WereTrue'
<1>0. OrderTypes
  BY TypeParts
<1>1. ASSUME NEW n \in Usernames, NEW c \in CustomerIds, NEW v \in VehicleIds,
             req[r].pc = "idle", Begun(r, n, c, v)
      PROVE  WereTrue'
  <2>1. /\ req'[r].pc = "user" /\ UNCHANGED registers
        /\ \A q \in Requests \ {r} : req'[q] = req[q]
    BY <1>1, BegunTyped DEF Begun
  <2>2. r \notin DOMAIN orders
    BY <1>0, <1>1 DEF OrderTypes
  <2>3. TablesWereTrue' /\ ReadsWereTrue'
    BY <2>1 DEF WereTrue, TablesWereTrue, ReadsWereTrue, registers
  <2>4. OrderPartiesWereTrue'
    BY <1>0, <2>1, <2>2 DEF WereTrue, OrderPartiesWereTrue, registers
  <2>5. QED
    BY <2>3, <2>4 DEF WereTrue
<1>2. ASSUME NEW u, req[r].pc = "user", Found(r, u) PROVE WereTrue'
  <2>1. /\ req'[r] = [req[r] EXCEPT !.pc = "vehicle", !.opener = {u}]
        /\ req[r] \in RequestRecords
        /\ \A q \in Requests \ {r} : req'[q] = req[q]
    BY <1>2, FoundTyped
  <2>2. /\ req'[r].pc = "vehicle" /\ req'[r].opener = {u}
        /\ req'[r].token = req[r].token
    BY <2>1 DEF RequestRecords
  <2>3. <<u, req[r].token>> \in named /\ UNCHANGED registers
    BY <1>2 DEF Found, HasUsername, WereTrue, TablesWereTrue
  <2>4. r \notin DOMAIN orders
    BY <1>0, <1>2 DEF OrderTypes
  <2>5. TablesWereTrue' /\ ReadsWereTrue'
    BY <2>1, <2>2, <2>3 DEF WereTrue, TablesWereTrue, ReadsWereTrue, registers
  <2>6. OrderPartiesWereTrue'
    BY <1>0, <2>1, <2>3, <2>4 DEF WereTrue, OrderPartiesWereTrue, registers
  <2>7. QED
    BY <2>5, <2>6 DEF WereTrue
<1>3. ASSUME NEW u, req[r].pc = "insert", Inserted(r, u) PROVE WereTrue'
  <2>1. /\ DOMAIN orders' = DOMAIN orders \union {r}
        /\ orders'[r] = [customer |-> req[r].customer,
                         vehicle |-> req[r].vehicle, opener |-> u]
        /\ \A o \in DOMAIN orders \ {r} : orders'[o] = orders[o]
        /\ \A q \in Requests \ {r} : req'[q] = req[q]
        /\ req'[r].token = req[r].token
        /\ req'[r].pc \in {"read back", "broken"}
    BY <1>3, InsertedTyped
  <2>2. /\ <<u, req[r].token>> \in named
        /\ <<req[r].vehicle, req[r].customer>> \in owned
        /\ UNCHANGED <<vehicles, users, owned, named>>
    BY <1>3 DEF Inserted, WereTrue, ReadsWereTrue
  <2>3. TablesWereTrue' /\ ReadsWereTrue'
    BY <2>1, <2>2 DEF WereTrue, TablesWereTrue, ReadsWereTrue
  <2>4. OrderPartiesWereTrue'
    <3> SUFFICES ASSUME NEW o \in DOMAIN orders'
                 PROVE  /\ <<orders'[o].vehicle, orders'[o].customer>> \in owned
                        /\ o \in Requests =>
                             <<orders'[o].opener, req'[o].token>> \in named
      BY <2>2 DEF OrderPartiesWereTrue
    <3>1. CASE o = r
      <4>1. /\ orders'[r].vehicle = req[r].vehicle
            /\ orders'[r].customer = req[r].customer
            /\ orders'[r].opener = u
        <5>1. orders'[r] = [customer |-> req[r].customer,
                            vehicle |-> req[r].vehicle, opener |-> u]
          BY <2>1
        <5>2. QED
          BY <5>1
      <4>2. req'[r].token = req[r].token
        BY <2>1
      <4>3. QED
        BY <2>2, <3>1, <4>1, <4>2
    <3>2. CASE o # r
      <4>1. o \in DOMAIN orders
        BY <2>1, <3>2
      <4>2. orders'[o] = orders[o] /\ (o \in Requests => req'[o] = req[o])
        BY <2>1, <3>2, <4>1
      <4>3. QED
        BY <4>1, <4>2 DEF WereTrue, OrderPartiesWereTrue
    <3>3. QED
      BY <3>1, <3>2
  <2>5. QED
    BY <2>3, <2>4 DEF WereTrue
<1>4. CASE Passes(r)
  <2>1. TablesWereTrue'
    BY <1>4 DEF Passes, WereTrue, TablesWereTrue, registers
  <2>2. ReadsWereTrue'
    BY <1>4 DEF Passes, WereTrue, TablesWereTrue, ReadsWereTrue, registers
  <2>3. OrderPartiesWereTrue'
    BY <1>0, <1>4 DEF Passes, WereTrue, OrderPartiesWereTrue, registers
  <2>4. QED
    BY <2>1, <2>2, <2>3 DEF WereTrue
<1>5. QED
  BY <1>1, <1>2, <1>3, <1>4, OrderStepKinds

(***************************************************************************)
(* The vehicle of an order was its customer's, and the opener had the      *)
(* username of the token, however the registers changed during the request *)
(* and since.                                                              *)
(***************************************************************************)
THEOREM PartiesWereTrue == Spec => []OrderPartiesWereTrue
<1>1. Init => WereTrue
  BY SeedAssumption DEF Init, WereTrue, TablesWereTrue, ReadsWereTrue,
                        OrderPartiesWereTrue, IdleRequest
<1>2. TypeOK /\ WereTrue /\ [Next]_vars => WereTrue'
  <2> SUFFICES ASSUME TypeOK, WereTrue, [Next]_vars PROVE WereTrue'
    OBVIOUS
  <2>1. CASE UNCHANGED vars
    BY <2>1 DEF WereTrue, TablesWereTrue, ReadsWereTrue, OrderPartiesWereTrue,
                vars, registers
  <2>2. QED
    BY <2>1, NextKinds, TypeParts, RegisterKeepsTruth, OrderKeepsTruth
<1>3. WereTrue => OrderPartiesWereTrue
  BY DEF WereTrue
<1>4. QED
  BY <1>1, <1>2, <1>3, TypeCorrect, PTL DEF Spec
-----------------------------------------------------------------------------
(***************************************************************************)
(* Normalize: the digits kept of the first n characters, by induction on   *)
(* n.                                                                      *)
(***************************************************************************)
Keep(text, g, n) ==
  IF n = 0 THEN <<>>
  ELSE IF text[n] \in Digits THEN Append(g[n - 1], text[n]) ELSE g[n - 1]

KeepsTo(text, n, g) == g = [i \in 0..n |-> Keep(text, g, i)]

Kept(text) == CHOOSE g : KeepsTo(text, Len(text), g)

LEMMA NormalizeIsKept ==
  ASSUME NEW text
  PROVE  Normalize(text) = Kept(text)[Len(text)]
BY DEF Normalize, Kept, KeepsTo, Keep

LEMMA KeepsLonger ==
  ASSUME NEW text, NEW n \in Nat, NEW g, KeepsTo(text, n, g)
  PROVE  \E h : KeepsTo(text, n + 1, h)
<1> DEFINE h == [i \in 0..(n + 1) |-> IF i <= n THEN g[i] ELSE Keep(text, g, i)]
<1>1. \A i \in 0..n : g[i] = Keep(text, g, i)
  BY DEF KeepsTo
<1>2. ASSUME NEW i \in 0..(n + 1)
      PROVE  h[i] = Keep(text, g, i) /\ Keep(text, g, i) = Keep(text, h, i)
  <2>1. h[i] = Keep(text, g, i)
    BY <1>1
  <2>2. i # 0 => i - 1 \in 0..n /\ h[i - 1] = g[i - 1]
    OBVIOUS
  <2> HIDE DEF h
  <2>3. Keep(text, g, i) = Keep(text, h, i)
    BY <2>2 DEF Keep
  <2>4. QED
    BY <2>1, <2>3
<1>3. h = [i \in 0..(n + 1) |-> h[i]]
  OBVIOUS
<1> HIDE DEF h
<1>4. h = [i \in 0..(n + 1) |-> Keep(text, h, i)]
  BY <1>2, <1>3
<1>5. QED
  BY <1>4 DEF KeepsTo

LEMMA KeptStepwise ==
  ASSUME NEW text, Len(text) \in Nat
  PROVE  \A n \in 0..Len(text) : Kept(text)[n] = Keep(text, Kept(text), n)
<1> DEFINE G == {n \in Nat : \E g : KeepsTo(text, n, g)}
<1>1. 0 \in G
  <2> DEFINE g == [i \in 0..0 |-> <<>>]
  <2>1. g = [i \in 0..0 |-> Keep(text, g, i)]
    BY DEF Keep
  <2>2. KeepsTo(text, 0, g)
    BY <2>1 DEF KeepsTo
  <2>3. QED
    BY <2>2
<1>2. \A n \in G : n + 1 \in G
  BY KeepsLonger
<1>3. G \in SUBSET Nat
  OBVIOUS
<1> HIDE DEF G
<1>4. G = Nat
  BY <1>1, <1>2, <1>3, NumberInduction
<1>5. \E g : KeepsTo(text, Len(text), g)
  BY <1>4 DEF G
<1>6. KeepsTo(text, Len(text), Kept(text))
  BY <1>5 DEF Kept
<1>7. QED
  BY <1>6 DEF KeepsTo

\* Whatever is typed, only digits are kept.
LEMMA NormalizeType ==
  ASSUME NEW S, NEW text \in Seq(S)
  PROVE  Normalize(text) \in Seq(Digits)
<1> DEFINE G == {n \in Nat : n <= Len(text) => Kept(text)[n] \in Seq(Digits)}
<1>1. Len(text) \in Nat
  OBVIOUS
<1>2. \A n \in 0..Len(text) : Kept(text)[n] = Keep(text, Kept(text), n)
  BY <1>1, KeptStepwise
<1>3. 0 \in G
  <2>1. 0 \in 0..Len(text)
    BY <1>1
  <2>2. Kept(text)[0] = <<>>
    BY <1>2, <2>1 DEF Keep
  <2>3. <<>> \in Seq(Digits) /\ Len(<<>>) = 0
    OBVIOUS
  <2>4. QED
    BY <2>2, <2>3
<1>4. ASSUME NEW n \in G
      PROVE  n + 1 \in G
  <2>1. CASE n + 1 <= Len(text)
    <3>1. Kept(text)[n] \in Seq(Digits)
      BY <1>1, <2>1
    <3>2. Kept(text)[n + 1] = Keep(text, Kept(text), n + 1)
      BY <1>1, <1>2, <2>1
    <3>3. (n + 1) - 1 = n /\ n + 1 # 0
      OBVIOUS
    <3>4. Keep(text, Kept(text), n + 1) \in Seq(Digits)
      BY <3>1, <3>3 DEF Keep
    <3>5. QED
      BY <3>2, <3>4
  <2>2. QED
    BY <2>1
<1>5. G \in SUBSET Nat
  OBVIOUS
<1> HIDE DEF G
<1>6. G = Nat
  BY <1>3, <1>4, <1>5, NumberInduction
<1>7. Kept(text)[Len(text)] \in Seq(Digits)
  BY <1>1, <1>6 DEF G
<1>8. QED
  BY <1>7, NormalizeIsKept

LEMMA AppendAgrees ==
  ASSUME NEW S, NEW s \in Seq(S), NEW n \in Nat, Len(s) = n, NEW text,
         \A i \in 1..n : s[i] = text[i], text[n + 1] \in S
  PROVE  /\ Append(s, text[n + 1]) \in Seq(S)
         /\ Len(Append(s, text[n + 1])) = n + 1
         /\ \A i \in 1..(n + 1) : Append(s, text[n + 1])[i] = text[i]
<1> DEFINE c == text[n + 1]
<1>1. c \in S
  OBVIOUS
<1> HIDE DEF c
<1>2. /\ Append(s, c) \in Seq(S) /\ Len(Append(s, c)) = n + 1
      /\ Append(s, c)[n + 1] = c
      /\ \A i \in 1..n : Append(s, c)[i] = s[i]
  BY <1>1
<1>3. ASSUME NEW i \in 1..(n + 1)
      PROVE  Append(s, c)[i] = text[i]
  <2>1. CASE i \in 1..n
    BY <1>2, <2>1
  <2>2. CASE i = n + 1
    BY <1>2, <2>2 DEF c
  <2>3. QED
    BY <2>1, <2>2
<1>4. QED
  BY <1>2, <1>3 DEF c

\* A document that is digits alone is left as it is.
LEMMA NormalizeDigits ==
  ASSUME NEW text \in Seq(Digits)
  PROVE  Normalize(text) = text
<1> DEFINE G == {n \in Nat : n <= Len(text) =>
                   Kept(text)[n] \in Seq(Digits) /\ Len(Kept(text)[n]) = n
                     /\ \A i \in 1..n : Kept(text)[n][i] = text[i]}
<1>1. Len(text) \in Nat
  OBVIOUS
<1>2. \A n \in 0..Len(text) : Kept(text)[n] = Keep(text, Kept(text), n)
  BY <1>1, KeptStepwise
<1>3. 0 \in G
  <2>1. 0 \in 0..Len(text)
    BY <1>1
  <2>2. Kept(text)[0] = <<>>
    BY <1>2, <2>1 DEF Keep
  <2>3. <<>> \in Seq(Digits) /\ Len(<<>>) = 0
    OBVIOUS
  <2>4. Kept(text)[0] \in Seq(Digits) /\ Len(Kept(text)[0]) = 0
    BY <2>2, <2>3, Zenon
  <2>5. \A i \in 1..0 : Kept(text)[0][i] = text[i]
    OBVIOUS
  <2>6. QED
    BY <2>4, <2>5
<1>4. ASSUME NEW n \in G
      PROVE  n + 1 \in G
  <2>1. CASE n + 1 <= Len(text)
    <3> DEFINE old == Kept(text)[n]
               new == Kept(text)[n + 1]
    <3>1. /\ old \in Seq(Digits) /\ Len(old) = n
          /\ \A i \in 1..n : old[i] = text[i]
      BY <1>1, <2>1
    <3>2. new = Keep(text, Kept(text), n + 1)
      BY <1>1, <1>2, <2>1
    <3>3. text[n + 1] \in Digits /\ (n + 1) - 1 = n /\ n + 1 # 0
      BY <1>1, <2>1
    <3>4. new = Append(old, text[n + 1])
      BY <3>2, <3>3 DEF Keep
    <3> HIDE DEF old, new
    <3>5. /\ new \in Seq(Digits) /\ Len(new) = n + 1
          /\ \A i \in 1..(n + 1) : new[i] = text[i]
      BY <3>1, <3>3, <3>4, AppendAgrees
    <3>6. QED
      BY <3>5 DEF new
  <2>2. QED
    BY <2>1
<1>5. G \in SUBSET Nat
  OBVIOUS
<1> HIDE DEF G
<1>6. G = Nat
  BY <1>3, <1>4, <1>5, NumberInduction
<1> DEFINE k == Kept(text)[Len(text)]
<1>7. /\ k \in Seq(Digits) /\ Len(k) = Len(text)
      /\ \A i \in 1..Len(text) : k[i] = text[i]
  BY <1>1, <1>6 DEF G
<1> HIDE DEF k
<1>8. k = text
  BY <1>7, SeqEqual
<1>9. QED
  BY <1>8, NormalizeIsKept DEF k

-----------------------------------------------------------------------------
(***************************************************************************)
(* The check digits: the program's weights are those of the rule, counted  *)
(* from the right, and its arithmetic modulo 11 is the rule's.             *)
(***************************************************************************)
LEMMA CheckDigitRule ==
  ASSUME NEW sum \in Int
  PROVE  CheckDigit(sum) = ((10 * sum) % 11) % 10
<1> DEFINE r == sum % 11
<1>1. r \in 0..10
  OBVIOUS
<1>2. (10 * sum) % 11 = IF r = 0 THEN 0 ELSE 11 - r
  OBVIOUS
<1> HIDE DEF r
<1>3. (IF 11 - r > 9 THEN 0 ELSE 11 - r) = (IF r = 0 THEN 0 ELSE 11 - r) % 10
  BY <1>1
<1>4. QED
  BY <1>2, <1>3 DEF CheckDigit, r

LEMMA WeightedInt ==
  ASSUME NEW doc \in Seq(Digits), NEW n \in Nat, n <= Len(doc),
         NEW weights, \A i \in 1..n : weights[i] \in Nat
  PROVE  SumFunction([i \in 1..n |-> doc[i] * weights[i]]) \in Int
<1> DEFINE f == [i \in 1..n |-> doc[i] * weights[i]]
<1>1. \A i \in 1..n : doc[i] \in Int
  BY DEF Digits
<1>2. \A i \in 1..n : doc[i] * weights[i] \in Int
  BY <1>1
<1>3. f \in [1..n -> Int]
  BY <1>2
<1>4. IsFiniteSet(1..n)
  BY FS_Interval
<1> HIDE DEF f
<1>5. SumFunction(f) \in Int
  BY <1>3, <1>4, SumType
<1>6. QED
  BY <1>5 DEF f

\* The sum that a program's weights give is the sum of the rule.
Weights(n, cycle) == [i \in 1..n |-> 2 + ((n - i) % cycle)]

LEMMA RuleWeights ==
  /\ \A i \in 1..9 : 11 - i = Weights(9, 11)[i]
  /\ \A i \in 1..10 : 12 - i = Weights(10, 11)[i]
  /\ \A i \in 1..12 : Multiplier1[i] = Weights(12, 8)[i]
  /\ \A i \in 1..13 : Multiplier2[i] = Weights(13, 8)[i]
<1>1. \A i \in 1..9 : 11 - i = Weights(9, 11)[i]
  BY DEF Weights
<1>2. \A i \in 1..10 : 12 - i = Weights(10, 11)[i]
  BY DEF Weights
<1>3. \A i \in 1..12 : Multiplier1[i] = Weights(12, 8)[i]
  BY DEF Weights, Multiplier1
<1>4. \A i \in 1..13 : Multiplier2[i] = Weights(13, 8)[i]
  BY DEF Weights, Multiplier2
<1>5. QED
  BY <1>1, <1>2, <1>3, <1>4

RuleSum(doc, n, cycle) ==
  SumFunction([i \in 1..n |-> doc[i] * Weights(n, cycle)[i]])

LEMMA RuleSums ==
  ASSUME NEW doc
  PROVE  /\ Weighted(doc, 9, LAMBDA i : 11 - i) = RuleSum(doc, 9, 11)
         /\ Weighted(doc, 10, LAMBDA i : 12 - i) = RuleSum(doc, 10, 11)
         /\ Weighted(doc, 12, LAMBDA i : Multiplier1[i]) = RuleSum(doc, 12, 8)
         /\ Weighted(doc, 13, LAMBDA i : Multiplier2[i]) = RuleSum(doc, 13, 8)
<1>1. [i \in 1..9 |-> doc[i] * (11 - i)]
        = [i \in 1..9 |-> doc[i] * Weights(9, 11)[i]]
  BY RuleWeights
<1>2. [i \in 1..10 |-> doc[i] * (12 - i)]
        = [i \in 1..10 |-> doc[i] * Weights(10, 11)[i]]
  BY RuleWeights
<1>3. [i \in 1..12 |-> doc[i] * Multiplier1[i]]
        = [i \in 1..12 |-> doc[i] * Weights(12, 8)[i]]
  BY RuleWeights
<1>4. [i \in 1..13 |-> doc[i] * Multiplier2[i]]
        = [i \in 1..13 |-> doc[i] * Weights(13, 8)[i]]
  BY RuleWeights
<1>5. QED
  BY <1>1, <1>2, <1>3, <1>4 DEF Weighted, RuleSum

LEMMA RuleSumInt ==
  ASSUME NEW doc \in Seq(Digits), NEW n \in Nat, n <= Len(doc),
         NEW cycle \in Nat \ {0}
  PROVE  RuleSum(doc, n, cycle) \in Int
<1>1. \A i \in 1..n : Weights(n, cycle)[i] \in Nat
  BY DEF Weights
<1>2. QED
  BY <1>1, WeightedInt DEF RuleSum

\* The program's check digit is the rule's.
LEMMA FollowsRule ==
  ASSUME NEW type, NEW doc \in Seq(Digits), NEW n \in Nat, n + 1 <= Len(doc)
  PROVE  Follows(type, doc, n + 1)
           <=> doc[n + 1] = CheckDigit(RuleSum(doc, n, Cycle(type)))
<1>1. Cycle(type) \in Nat \ {0}
  BY DEF Cycle
<1>2. n <= Len(doc)
  OBVIOUS
<1>3. RuleSum(doc, n, Cycle(type)) \in Int
  BY <1>1, <1>2, RuleSumInt
<1>4. CheckDigit(RuleSum(doc, n, Cycle(type)))
        = ((10 * RuleSum(doc, n, Cycle(type))) % 11) % 10
  BY <1>3, CheckDigitRule
<1> DEFINE m == (n + 1) - 1
           f == [i \in 1..m |-> doc[i] * (2 + ((m - i) % Cycle(type)))]
<1>5. m = n
  OBVIOUS
<1>6. f = [i \in 1..n |-> doc[i] * Weights(n, Cycle(type))[i]]
  BY <1>5 DEF Weights
<1>7. Follows(type, doc, n + 1)
        <=> doc[n + 1] = ((10 * SumFunction(f)) % 11) % 10
  BY DEF Follows, Weighted
<1>8. SumFunction(f) = RuleSum(doc, n, Cycle(type))
  BY <1>6 DEF RuleSum
<1> HIDE DEF f, m
<1>9. QED
  BY <1>4, <1>7, <1>8

(***************************************************************************)
(* The program accepts the documents that are one by the issuing           *)
(* authority's rule, for every sequence of digits, but for the CPFs that   *)
(* repeat one digit.                                                       *)
(***************************************************************************)
THEOREM AcceptedIsWellFormed ==
  ASSUME NEW type \in Types, NEW doc \in Seq(Digits)
  PROVE  ValidateDocument(type, doc)
           <=> /\ WellFormed(type, doc)
               /\ type = "CPF" => \E i \in 2..11 : doc[i] # doc[1]
<1>1. CASE type = "CPF" /\ Len(doc) = 11
  <2>1. Cycle(type) = 11
    BY <1>1 DEF Cycle
  <2>2. Follows(type, doc, 9 + 1) <=> doc[9 + 1] = CheckDigit(RuleSum(doc, 9, 11))
    BY <1>1, <2>1, FollowsRule
  <2>3. Follows(type, doc, 10 + 1) <=> doc[10 + 1] = CheckDigit(RuleSum(doc, 10, 11))
    BY <1>1, <2>1, FollowsRule
  <2>4. /\ 9 + 1 = 10 /\ 10 + 1 = 11 /\ 11 - 1 = 10
    OBVIOUS
  <2>5. IsValidCPFChecksum(doc)
          <=> /\ \E i \in 2..11 : doc[i] # doc[1]
              /\ doc[10] = CheckDigit(RuleSum(doc, 9, 11))
              /\ doc[11] = CheckDigit(RuleSum(doc, 10, 11))
    BY RuleSums DEF IsValidCPFChecksum
  <2>6. WellFormed(type, doc) <=> Follows(type, doc, 10) /\ Follows(type, doc, 11)
    BY <1>1, <2>4 DEF WellFormed
  <2>7. QED
    BY <1>1, <2>2, <2>3, <2>4, <2>5, <2>6 DEF ValidateDocument
<1>2. CASE type = "CNPJ" /\ Len(doc) = 14
  <2>1. Cycle(type) = 8
    BY <1>2 DEF Cycle
  <2>2. Follows(type, doc, 12 + 1) <=> doc[12 + 1] = CheckDigit(RuleSum(doc, 12, 8))
    BY <1>2, <2>1, FollowsRule
  <2>3. Follows(type, doc, 13 + 1) <=> doc[13 + 1] = CheckDigit(RuleSum(doc, 13, 8))
    BY <1>2, <2>1, FollowsRule
  <2>4. /\ 12 + 1 = 13 /\ 13 + 1 = 14 /\ 14 - 1 = 13
    OBVIOUS
  <2>5. IsValidCNPJChecksum(doc)
          <=> /\ doc[13] = CheckDigit(RuleSum(doc, 12, 8))
              /\ doc[14] = CheckDigit(RuleSum(doc, 13, 8))
    BY RuleSums DEF IsValidCNPJChecksum
  <2>6. WellFormed(type, doc) <=> Follows(type, doc, 13) /\ Follows(type, doc, 14)
    BY <1>2, <2>4 DEF WellFormed
  <2>7. QED
    BY <1>2, <2>2, <2>3, <2>4, <2>5, <2>6 DEF ValidateDocument
<1>3. QED
  BY <1>1, <1>2 DEF ValidateDocument, WellFormed, Types
-----------------------------------------------------------------------------
(***************************************************************************)
(* The rows of the registers.  A unique index keeps what is stored apart;  *)
(* what is stored is normalized, and so keeps what was typed apart.        *)
(***************************************************************************)
LEMMA CustomerRowKnown ==
  ASSUME NEW row \in CustomerRows
  PROVE  /\ row.type \in Types /\ row.document \in Seq(Digits)
         /\ ValidateDocument(row.type, row.document)
         /\ Normalize(row.document) = row.document
         /\ WellFormed(row.type, row.document)
<1>1. PICK t \in Texts : row = [document |-> Normalize(t.text), type |-> t.type]
  BY DEF CustomerRows
<1>2. t.type \in Types /\ t.text \in Seq(Digits \union {Separator})
  BY RegistrationAssumption
<1>3. Normalize(t.text) \in Seq(Digits)
  BY <1>2, NormalizeType
<1>4. row.type \in Types /\ row.document \in Seq(Digits)
  BY <1>1, <1>2, <1>3
<1>5. ValidateDocument(row.type, row.document)
  BY DEF CustomerRows
<1>6. Normalize(row.document) = row.document
  BY <1>4, NormalizeDigits
<1>7. WellFormed(row.type, row.document)
  BY <1>4, <1>5, AcceptedIsWellFormed
<1>8. QED
  BY <1>4, <1>5, <1>6, <1>7

CustomersOnce ==
  /\ \A c \in DOMAIN customers : customers[c] \in CustomerRows \/ Untouched(c)
  /\ \A c, d \in DOMAIN customers :
       customers[c].document = customers[d].document => c = d

VehiclesOnce ==
  \A v, w \in DOMAIN vehicles : vehicles[v].plate = vehicles[w].plate => v = w

UsersOnce ==
  \A t, u \in DOMAIN users : users[t].username = users[u].username => t = u

RowsOnce == CustomersOnce /\ VehiclesOnce /\ UsersOnce

LEMMA RegisterKeepsOnce ==
  ASSUME RowsOnce, RegisterStep
  PROVE  RowsOnce'
<1>1. CASE CustomerWritten
  <2>1. PICK c \in CustomerIds, row \in CustomerRows :
          ~Taken(customers, c, Document, row) /\ customers' = Put(customers, c, row)
    BY <1>1 DEF CustomerWritten, WriteCustomer
  <2>2. /\ DOMAIN customers' = DOMAIN customers \union {c}
        /\ customers'[c] = row
        /\ \A i \in DOMAIN customers \ {c} : customers'[i] = customers[i]
    BY <2>1 DEF Put
  <2>3. \A i \in DOMAIN customers \ {c} : customers[i].document # row.document
    BY <2>1 DEF Taken, Document
  <2>4. UNCHANGED <<vehicles, users>>
    BY <1>1 DEF CustomerWritten, WriteCustomer
  <2>5. QED
    BY <2>2, <2>3, <2>4 DEF RowsOnce, CustomersOnce, VehiclesOnce, UsersOnce, Untouched
<1>2. CASE DeleteCustomer
  <2>1. PICK c : customers' = Remove(customers, c)
    BY <1>2 DEF DeleteCustomer
  <2>2. /\ DOMAIN customers' = DOMAIN customers \ {c}
        /\ \A i \in DOMAIN customers \ {c} : customers'[i] = customers[i]
    BY <2>1 DEF Remove
  <2>3. UNCHANGED <<vehicles, users>>
    BY <1>2 DEF DeleteCustomer
  <2>4. QED
    BY <2>2, <2>3 DEF RowsOnce, CustomersOnce, VehiclesOnce, UsersOnce, Untouched
<1>3. CASE VehicleWritten
  <2>1. PICK v, row : /\ ~Taken(vehicles, v, Plate, row)
                      /\ vehicles' = Put(vehicles, v, row)
    BY <1>3 DEF VehicleWritten, WriteVehicle
  <2>2. /\ DOMAIN vehicles' = DOMAIN vehicles \union {v}
        /\ vehicles'[v] = row
        /\ \A i \in DOMAIN vehicles \ {v} : vehicles'[i] = vehicles[i]
    BY <2>1 DEF Put
  <2>3. \A i \in DOMAIN vehicles \ {v} : vehicles[i].plate # row.plate
    BY <2>1 DEF Taken, Plate
  <2>4. UNCHANGED <<customers, users>>
    BY <1>3 DEF VehicleWritten, WriteVehicle
  <2>5. QED
    BY <2>2, <2>3, <2>4 DEF RowsOnce, CustomersOnce, VehiclesOnce, UsersOnce, Untouched
<1>4. CASE DeleteVehicle
  <2>1. PICK v : vehicles' = Remove(vehicles, v)
    BY <1>4 DEF DeleteVehicle
  <2>2. /\ DOMAIN vehicles' = DOMAIN vehicles \ {v}
        /\ \A i \in DOMAIN vehicles \ {v} : vehicles'[i] = vehicles[i]
    BY <2>1 DEF Remove
  <2>3. UNCHANGED <<customers, users>>
    BY <1>4 DEF DeleteVehicle
  <2>4. QED
    BY <2>2, <2>3 DEF RowsOnce, CustomersOnce, VehiclesOnce, UsersOnce, Untouched
<1>5. CASE UserWritten
  <2>1. PICK u, name : /\ ~Taken(users, u, Username, [username |-> name])
                       /\ users' = Put(users, u, [username |-> name])
    BY <1>5 DEF UserWritten, WriteUser
  <2>2. /\ DOMAIN users' = DOMAIN users \union {u}
        /\ users'[u].username = name
        /\ \A i \in DOMAIN users \ {u} : users'[i] = users[i]
    BY <2>1 DEF Put
  <2>3. \A i \in DOMAIN users \ {u} : users[i].username # name
    BY <2>1 DEF Taken, Username
  <2>4. UNCHANGED <<customers, vehicles>>
    BY <1>5 DEF UserWritten, WriteUser
  <2>5. QED
    BY <2>2, <2>3, <2>4 DEF RowsOnce, CustomersOnce, VehiclesOnce, UsersOnce, Untouched
<1>6. CASE DeleteUser
  <2>1. PICK u : users' = Remove(users, u)
    BY <1>6 DEF DeleteUser
  <2>2. /\ DOMAIN users' = DOMAIN users \ {u}
        /\ \A i \in DOMAIN users \ {u} : users'[i] = users[i]
    BY <2>1 DEF Remove
  <2>3. UNCHANGED <<customers, vehicles>>
    BY <1>6 DEF DeleteUser
  <2>4. QED
    BY <2>2, <2>3 DEF RowsOnce, CustomersOnce, VehiclesOnce, UsersOnce, Untouched
<1>7. QED
  BY <1>1, <1>2, <1>3, <1>4, <1>5, <1>6 DEF RegisterStep

LEMMA RowsOnceInvariant == Spec => []RowsOnce
<1>1. Init => RowsOnce
  BY SeedAssumption DEF Init, RowsOnce, CustomersOnce, VehiclesOnce, UsersOnce,
                        Untouched
<1>2. TypeOK /\ RowsOnce /\ [Next]_vars => RowsOnce'
  <2> SUFFICES ASSUME TypeOK, RowsOnce, [Next]_vars
               PROVE  RowsOnce'
    OBVIOUS
  <2>1. ASSUME UNCHANGED <<customers, vehicles, users>>
        PROVE  RowsOnce'
    BY <2>1 DEF RowsOnce, CustomersOnce, VehiclesOnce, UsersOnce, Untouched
  <2>2. ASSUME NEW r \in Requests, OrderStep(r)
        PROVE  UNCHANGED <<customers, vehicles, users>>
    BY <2>2, OrderStepKinds DEF Begun, Found, Inserted, Passes, registers
  <2>3. QED
    BY <2>1, <2>2, NextKinds, TypeParts, RegisterKeepsOnce DEF vars, registers
<1>3. QED
  BY <1>1, <1>2, TypeCorrect, PTL DEF Spec

(***************************************************************************)
(* A customer or a vehicle is registered once, however its document or     *)
(* plate is typed, and no username opens two accounts, in every sequence   *)
(* of registrations, changes and deletions.                                *)
(***************************************************************************)
THEOREM NobodyTwice == Spec => []RegisteredOnce
<1>1. RowsOnce /\ TypeOK => RegisteredOnce
  <2> SUFFICES ASSUME RowsOnce, TypeOK PROVE RegisteredOnce
    OBVIOUS
  <2>1. \A c \in DOMAIN customers :
          Normalize(customers[c].document) = customers[c].document
    BY CustomerRowKnown, SeedAssumption, NormalizeDigits
    DEF RowsOnce, CustomersOnce, Untouched
  <2>2. ASSUME NEW v \in DOMAIN vehicles, NEW w \in DOMAIN vehicles,
               vehicles[v].plate.letters = vehicles[w].plate.letters
        PROVE  v = w
    <3>1. vehicles[v].plate \in ValidPlates /\ vehicles[w].plate \in ValidPlates
      BY TypeParts DEF RegisterTypes
    <3>2. vehicles[v].plate = vehicles[w].plate
      BY <2>2, <3>1, RegistrationAssumption
    <3>3. QED
      BY <3>2 DEF RowsOnce, VehiclesOnce
  <2>3. QED
    BY <2>1, <2>2 DEF RegisteredOnce, RowsOnce, CustomersOnce, UsersOnce
<1>2. QED
  BY <1>1, RowsOnceInvariant, TypeCorrect, PTL

(***************************************************************************)
(* A customer whose document breaks the rule of the issuing authority is   *)
(* one of the rows the database was initialised with, as it was then:      *)
(* nothing typed into POST or PUT adds one, and a write replaces one.      *)
(***************************************************************************)
THEOREM DocumentsFollowTheRule == Spec => []WrittenDocumentsWellFormed
<1>1. RowsOnce => WrittenDocumentsWellFormed
  BY CustomerRowKnown DEF RowsOnce, CustomersOnce, WrittenDocumentsWellFormed
<1>2. QED
  BY <1>1, RowsOnceInvariant, PTL
===============================================================================
