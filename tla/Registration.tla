----------------------------- MODULE Registration -----------------------------
(***************************************************************************)
(* Customers, their vehicles, the users of the program, and the orders     *)
(* that users open.  The handlers of /customers, /vehicles and /auth are   *)
(* one statement each, after a validation of the body; POST /work-orders   *)
(* looks up the user and the vehicle, inserts the order and reads it back, *)
(* with the others in between.                                             *)
(*                                                                         *)
(* A request that is refused changes nothing, so only those that reach the *)
(* table appear, but for the order, whose answer matters.  Of the accounts *)
(* an order names, the technician is left out: he is one more reason for a *)
(* foreign key to refuse, here the INSERT.                                 *)
(***************************************************************************)
EXTENDS Tables, Documents

CONSTANTS
  CustomerIds, VehicleIds, UserIds,
  Texts,       \* documents as they are typed, with their type
  Plates,      \* licence plates as they are typed, with dash or in lower case
  ValidPlates, \* those in the format of plateOldFormat or plateMercosulFormat
  Usernames,
  Seed,        \* the rows the database is initialised with, by table
  Requests,    \* POST /work-orders
  Faults       \* statements may fail and replies may be lost

Types == {"CPF", "CNPJ"}

ASSUME RegistrationAssumption ==
  /\ \A t \in Texts : t.type \in Types
                      /\ t.text \in Seq(Digits \union {Separator})
  /\ \A p \in ValidPlates :
       p = [letters |-> p.letters, dash |-> FALSE, lower |-> FALSE]
  /\ Faults \in BOOLEAN

\* The rows of seed.sql pass the keys of the schema; nobody validates them.
ASSUME SeedAssumption ==
  /\ DOMAIN Seed.customers \subseteq CustomerIds
  /\ \A c \in DOMAIN Seed.customers :
       /\ Seed.customers[c].type \in Types
       /\ Seed.customers[c].document \in Seq(Digits)
  /\ \A c, d \in DOMAIN Seed.customers :
       Seed.customers[c].document = Seed.customers[d].document => c = d
  /\ DOMAIN Seed.vehicles \subseteq VehicleIds
  /\ \A v \in DOMAIN Seed.vehicles :
       /\ Seed.vehicles[v].plate \in ValidPlates
       /\ Seed.vehicles[v].customer \in DOMAIN Seed.customers
  /\ \A v, w \in DOMAIN Seed.vehicles :
       Seed.vehicles[v].plate = Seed.vehicles[w].plate => v = w
  /\ DOMAIN Seed.users \subseteq UserIds
  /\ \A u \in DOMAIN Seed.users : Seed.users[u].username \in Usernames
  /\ \A t, u \in DOMAIN Seed.users :
       Seed.users[t].username = Seed.users[u].username => t = u
  /\ DOMAIN Seed.orders \intersect Requests = {}
  /\ \A o \in DOMAIN Seed.orders :
       /\ Seed.orders[o].vehicle \in DOMAIN Seed.vehicles
       /\ Seed.orders[o].customer
            = Seed.vehicles[Seed.orders[o].vehicle].customer
       /\ Seed.orders[o].opener \in DOMAIN Seed.users

VARIABLES
  customers,  \* table customers: document and document_type
  vehicles,   \* table vehicles: licence plate and customer
  users,      \* table users: the username
  orders,     \* table work_orders: customer, vehicle and opener; the id of an
              \* order is the request that made it, unless it is a seeded one
  req,        \* local state of the requests
  owned,      \* history: <<vehicle, customer>> as they were registered
  named,      \* history: <<user, username>>
  retired     \* history: the users that were deleted; their ids are the
              \* program's and are not drawn again

registers == <<customers, vehicles, users, orders, owned, named, retired>>
vars == <<registers, req>>

IdleRequest == [pc |-> "idle"]

\* A request has the token, the customer and the vehicle it came with, and
\* the account it has found.
RequestRecords ==
  [pc : {"user", "vehicle", "insert", "read back", "broken", "done"},
   token : Usernames, customer : CustomerIds, vehicle : VehicleIds,
   opener : SUBSET UserIds, answer : Statuses]

Init ==
  /\ customers = Seed.customers
  /\ vehicles = Seed.vehicles
  /\ users = Seed.users
  /\ orders = Seed.orders
  /\ req = [r \in Requests |-> IdleRequest]
  /\ owned = {<<v, vehicles[v].customer>> : v \in DOMAIN vehicles}
  /\ named = {<<u, users[u].username>> : u \in DOMAIN users}
  /\ retired = {}

-----------------------------------------------------------------------------
(***************************************************************************)
(* /customers: POST and PUT normalize and validate the document, and write *)
(* the whole row; the unique index is on the normalized document.          *)
(***************************************************************************)
Document(row) == row.document

\* Defect for the mutants: the document is stored as it was typed.
CustomerRowsTyped ==
  {row \in {[document |-> t.text, type |-> t.type] : t \in Texts} :
     ValidateDocument(row.type, Normalize(row.document))}

CustomerRows ==
  {row \in {[document |-> Normalize(t.text), type |-> t.type] : t \in Texts} :
     ValidateDocument(row.type, row.document)}

WriteCustomer(c) ==
  /\ \E row \in CustomerRows :
       /\ ~Taken(customers, c, Document, row)
       /\ customers' = Put(customers, c, row)
  /\ UNCHANGED <<vehicles, users, orders, req, owned, named, retired>>

\* The body may give the id, also one that was deleted; the primary key
\* refuses one that is present.
CreateCustomer == \E c \in CustomerIds \ DOMAIN customers : WriteCustomer(c)

UpdateCustomer == \E c \in DOMAIN customers : WriteCustomer(c)

\* Defect for the mutants: orders have no foreign key to the customer.
DeleteCustomerOfOrders ==
  /\ \E c \in DOMAIN customers :
       /\ \A v \in DOMAIN vehicles : vehicles[v].customer # c
       /\ customers' = Remove(customers, c)
  /\ UNCHANGED <<vehicles, users, orders, req, owned, named, retired>>

DeleteCustomer ==
  /\ \E c \in DOMAIN customers :
       /\ \A v \in DOMAIN vehicles : vehicles[v].customer # c
       /\ \A o \in DOMAIN orders : orders[o].customer # c
       /\ customers' = Remove(customers, c)
  /\ UNCHANGED <<vehicles, users, orders, req, owned, named, retired>>

(***************************************************************************)
(* /vehicles: the same, with the plate in capitals and without the dash.   *)
(* PUT may give the vehicle to another customer.                           *)
(***************************************************************************)
Plate(row) == row.plate

NormalizePlate(typed) == [typed EXCEPT !.dash = FALSE, !.lower = FALSE]

VehicleRows ==
  [plate : {NormalizePlate(p) : p \in Plates} \intersect ValidPlates,
   customer : CustomerIds]

WriteVehicle(v) ==
  /\ \E row \in VehicleRows :
       /\ ~Taken(vehicles, v, Plate, row)
       /\ row.customer \in DOMAIN customers
       /\ vehicles' = Put(vehicles, v, row)
       /\ owned' = owned \union {<<v, row.customer>>}
  /\ UNCHANGED <<customers, users, orders, req, named, retired>>

\* As with customers, the body may give the id.
CreateVehicle == \E v \in VehicleIds \ DOMAIN vehicles : WriteVehicle(v)

UpdateVehicle == \E v \in DOMAIN vehicles : WriteVehicle(v)

DeleteVehicle ==
  /\ \E v \in DOMAIN vehicles :
       /\ \A o \in DOMAIN orders : orders[o].vehicle # v
       /\ vehicles' = Remove(vehicles, v)
  /\ UNCHANGED <<customers, users, orders, req, owned, named, retired>>

(***************************************************************************)
(* /auth/register and /users.  A row is its username: the password never   *)
(* changes and the role is only looked at when a token is made.  PUT reads *)
(* the account and writes back every column, with a new username or the    *)
(* one it read, which may be an old one: in both cases one it was given.   *)
(***************************************************************************)
Username(row) == row.username

WriteUser(u) ==
  /\ \E name \in Usernames :
       /\ ~Taken(users, u, Username, [username |-> name])
       /\ users' = Put(users, u, [username |-> name])
       /\ named' = named \union {<<u, name>>}
  /\ UNCHANGED <<customers, vehicles, orders, req, owned, retired>>

Register == \E u \in UserIds \ (DOMAIN users \union retired) : WriteUser(u)

UpdateUser == \E u \in DOMAIN users : WriteUser(u)

DeleteUser ==
  /\ \E u \in DOMAIN users :
       /\ \A o \in DOMAIN orders : orders[o].opener # u
       /\ users' = Remove(users, u)
       /\ retired' = retired \union {u}
  /\ UNCHANGED <<customers, vehicles, orders, req, owned, named>>

\* Login puts the username in a token, which outlives what becomes of it.
Tokens == {n \in Usernames : \E u \in UserIds : <<u, n>> \in named}

-----------------------------------------------------------------------------
(***************************************************************************)
(* POST /work-orders: the account is the one that has the username of the  *)
(* token when it is looked up, the vehicle must be the customer's when it  *)
(* is read; the INSERT only looks that all three exist; the order is read  *)
(* back with its customer and vehicle.                                     *)
(***************************************************************************)
Goto(r, pc) == req' = [req EXCEPT ![r].pc = pc]

Answer(r, status) ==
  req' = [req EXCEPT ![r].pc = "done", ![r].answer = status]

BeginOrder(r) ==
  /\ req[r].pc = "idle"
  /\ \E c \in CustomerIds, v \in VehicleIds, n \in Tokens :
       req' = [req EXCEPT ![r] =
                 [pc |-> "user", token |-> n, customer |-> c, vehicle |-> v,
                  opener |-> {}, answer |-> Ok]]
  /\ UNCHANGED registers

HasUsername(u, name) == u \in DOMAIN users /\ users[u].username = name

\* Any error of the lookup is an internal one, an unknown user's as well.
FindUser(r) ==
  /\ req[r].pc = "user"
  /\ IF \E u \in UserIds : HasUsername(u, req[r].token)
     THEN \E u \in UserIds :
            /\ HasUsername(u, req[r].token)
            /\ req' = [req EXCEPT ![r].pc = "vehicle", ![r].opener = {u}]
     ELSE Answer(r, InternalError)
  /\ UNCHANGED registers

\* Defect for the mutants: the vehicle only has to exist.
FindVehicleOfAnyone(r) ==
  /\ req[r].pc = "vehicle"
  /\ IF req[r].vehicle \notin DOMAIN vehicles
     THEN Answer(r, MapErrorResponse("no rows"))
     ELSE Goto(r, "insert")
  /\ UNCHANGED registers

FindVehicle(r) ==
  /\ req[r].pc = "vehicle"
  /\ LET v == req[r].vehicle
     IN IF v \notin DOMAIN vehicles THEN Answer(r, MapErrorResponse("no rows"))
        ELSE IF vehicles[v].customer # req[r].customer
        THEN Answer(r, MapErrorResponse("not the owner"))
        ELSE Goto(r, "insert")
  /\ UNCHANGED registers

\* Besides the three parties, the code the order draws may be another's and
\* its technician may be no account: a refusal is always possible.
InsertOrder(r) ==
  /\ req[r].pc = "insert"
  /\ \/ /\ req[r].customer \in DOMAIN customers
        /\ req[r].vehicle \in DOMAIN vehicles
        /\ req[r].opener \subseteq DOMAIN users
        /\ \E u \in req[r].opener :
             orders' = Put(orders, r, [customer |-> req[r].customer,
                                       vehicle |-> req[r].vehicle,
                                       opener |-> u])
        /\ Goto(r, "read back") \/ (Faults /\ Goto(r, "broken"))
        /\ UNCHANGED <<customers, vehicles, users, owned, named, retired>>
     \/ /\ \E e \in {"foreign key", "unique"} : Answer(r, MapErrorResponse(e))
        /\ UNCHANGED registers

\* FindByID joins the order with its customer and its vehicle.
ReadBack(r) ==
  /\ req[r].pc = "read back"
  /\ Answer(r, IF /\ orders[r].customer \in DOMAIN customers
                  /\ orders[r].vehicle \in DOMAIN vehicles
               THEN Ok ELSE MapErrorResponse("no rows"))
  /\ UNCHANGED registers

Break(r) ==
  /\ Faults
  /\ req[r].pc \in {"user", "vehicle", "insert", "read back"}
  /\ Goto(r, "broken")
  /\ UNCHANGED registers

OrderStep(r) ==
  \/ BeginOrder(r) \/ FindUser(r) \/ FindVehicle(r)
  \/ InsertOrder(r) \/ ReadBack(r) \/ Break(r)

Next ==
  \/ CreateCustomer \/ UpdateCustomer \/ DeleteCustomer
  \/ CreateVehicle \/ UpdateVehicle \/ DeleteVehicle
  \/ Register \/ UpdateUser \/ DeleteUser
  \/ \E r \in Requests : OrderStep(r)

Spec == Init /\ [][Next]_vars

-----------------------------------------------------------------------------
TypeOK ==
  /\ DOMAIN customers \subseteq CustomerIds
  /\ \A c \in DOMAIN customers : customers[c].type \in Types
  /\ DOMAIN vehicles \subseteq VehicleIds
  /\ \A v \in DOMAIN vehicles : vehicles[v].plate \in ValidPlates
  /\ DOMAIN users \subseteq UserIds
  /\ \A u \in DOMAIN users : users[u].username \in Usernames
  /\ DOMAIN orders \subseteq Requests \union DOMAIN Seed.orders
  /\ \A r \in DOMAIN orders \intersect Requests :
       req[r].pc \in {"read back", "done", "broken"}
  /\ req \in [Requests -> {IdleRequest} \union RequestRecords]
  /\ owned \subseteq VehicleIds \X CustomerIds
  /\ named \subseteq UserIds \X Usernames
  /\ retired \subseteq UserIds

(***************************************************************************)
(* Every vehicle has its customer, and every order its customer, its       *)
(* vehicle and the user who opened it (README.md:12, README.md:670),       *)
(* though the handlers that delete them look at nothing.                   *)
(***************************************************************************)
ReferencesResolve ==
  /\ \A v \in DOMAIN vehicles : vehicles[v].customer \in DOMAIN customers
  /\ \A o \in DOMAIN orders :
       /\ orders[o].customer \in DOMAIN customers
       /\ orders[o].vehicle \in DOMAIN vehicles
       /\ orders[o].opener \in DOMAIN users

(***************************************************************************)
(* A customer or a vehicle is registered once, however its document or     *)
(* plate is typed, and no username opens two accounts.                     *)
(***************************************************************************)
RegisteredOnce ==
  /\ \A c, d \in DOMAIN customers :
       Normalize(customers[c].document) = Normalize(customers[d].document)
         => c = d
  /\ \A v, w \in DOMAIN vehicles :
       vehicles[v].plate.letters = vehicles[w].plate.letters => v = w
  /\ \A t, u \in DOMAIN users : users[t].username = users[u].username => t = u

(***************************************************************************)
(* A document that breaks the rule of the issuing authority is one the     *)
(* database was initialised with, in a row nobody has written since: what  *)
(* POST and PUT accept, the program's arithmetic of check digits, agrees   *)
(* with the rule, and a PUT does not leave a wrong document in its row.    *)
(***************************************************************************)
Untouched(c) == c \in DOMAIN Seed.customers /\ customers[c] = Seed.customers[c]

WrittenDocumentsWellFormed ==
  \A c \in DOMAIN customers :
    WellFormed(customers[c].type, customers[c].document) \/ Untouched(c)

(***************************************************************************)
(* An order's parties were what its request said they were, whatever has   *)
(* become of them since: the vehicle was registered to the customer, and   *)
(* the account that is named as opener had the username of the token.      *)
(***************************************************************************)
OrderPartiesWereTrue ==
  /\ \A o \in DOMAIN orders : <<orders[o].vehicle, orders[o].customer>> \in owned
  /\ \A r \in DOMAIN orders \intersect Requests :
       <<orders[r].opener, req[r].token>> \in named
===============================================================================
