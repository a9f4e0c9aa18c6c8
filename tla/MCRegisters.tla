---------------------------- MODULE MCRegisters -----------------------------
(***************************************************************************)
(* The registers beside the shipments: the clients, once with codes and    *)
(* once with contract dates, and the SMS events, once with every request   *)
(* and once with the lists.  Clients and events share no state, and a      *)
(* behaviour is one of the part it begins with: the states of the parts    *)
(* add up and do not multiply.                                             *)
(***************************************************************************)
EXTENDS Clients, TLC

CONSTANTS
  CodeDays, CodeCommits,                           \* bounds of part "codes"
  ContractCodes, ContractDays, ContractClients,    \* bounds of part "contracts"
  AnyPhones, AnyThreads, AnyShipments, AnyRequests, AnyPage, AnyEvents, AnyClock,
  ListPhones, ListShipments, ListRequests, ListPage, ListEvents, ListClock

VARIABLES
  part,        \* "codes", "contracts", "requests" or "lists"
  archived, phone, events, sms_audits, sms_lock, sms_call, list, clock

sms == <<archived, phone, events, sms_audits, sms_lock, sms_call, list, clock>>

CodesOnly == INSTANCE Clients WITH Days <- CodeDays, MaxCommits <- CodeCommits

ContractsOnly == INSTANCE Clients WITH
  Codes <- ContractCodes, Days <- ContractDays, MaxClients <- ContractClients

AnyRequest == INSTANCE SmsRegister WITH
  audits <- sms_audits, lock <- sms_lock, call <- sms_call,
  Threads <- AnyThreads, Phones <- AnyPhones, Shipments <- AnyShipments,
  Requests <- AnyRequests,
  MaxPage <- AnyPage, MaxEvents <- AnyEvents, MaxClock <- AnyClock

Lists == INSTANCE SmsRegister WITH
  audits <- sms_audits, lock <- sms_lock, call <- sms_call,
  Phones <- ListPhones, Shipments <- ListShipments, Requests <- ListRequests,
  MaxPage <- ListPage, MaxEvents <- ListEvents, MaxClock <- ListClock

ASSUME PartsAssumption ==
  /\ CodeDays \cup ContractDays \subseteq Days /\ ContractCodes \subseteq Codes
  /\ {CodeCommits, ContractClients} \subseteq Nat
  /\ CodeCommits <= MaxCommits /\ ContractClients <= MaxClients
  /\ AnyRequest!SmsAssumption /\ Lists!SmsAssumption

(* --------------------- the instance that is checked -------------------- *)

(* "A" and "a" are one code.                                               *)
Lower(code) == IF code = "A" THEN "a" ELSE code

AnyThread == Permutations(Threads)

(* Every request there is ...                                              *)
AllRequests ==
  [shipment : AnyShipments, sender : {"WAREHOUSE", "COURIER", "SYSTEM"},
   type : {"TEMPLATE", "CUSTOM"}, phone : AnyPhones \cup {"none", "bad"},
   text : {"none", "plain", "blank", "html", "too long", "control"},
   status : {"RECORDED", "PENDING", "SENT", "FAILED", "DELIVERED"},
   delay : {"none", "before", "after"},
   error : {"none", "plain", "blank", "html", "too long", "control"}]

(* ... and, for the filters of the lists, one for each shipment and one    *)
(* with another status.                                                    *)
TwoStatuses ==
  LET RequestFor(s, status, error) ==
        [shipment |-> s, sender |-> "WAREHOUSE", type |-> "TEMPLATE", phone |-> "p",
         text |-> "none", status |-> status, delay |-> "none", error |-> error]
  IN  {RequestFor(s, "RECORDED", "none") : s \in ListShipments}
        \cup {RequestFor(1, "FAILED", "plain")}

(* --------------------------- the composition --------------------------- *)

RegistersInit ==
  /\ Init
  /\ \/ part \in {"codes", "contracts", "requests"} /\ AnyRequest!Init
     \/ part = "lists" /\ Lists!Init

RegistersNext ==
  \/ part = "codes" /\ CodesOnly!Next /\ UNCHANGED <<sms, part>>
  \/ part = "contracts" /\ ContractsOnly!Next /\ UNCHANGED <<sms, part>>
  \/ part = "requests" /\ AnyRequest!Next /\ UNCHANGED <<vars, part>>
  \/ part = "lists" /\ Lists!Next /\ UNCHANGED <<vars, part>>

RegistersSpec == RegistersInit /\ [][RegistersNext]_<<vars, sms, part>>

(* A created client and a recorded SMS have exactly one audit event each,  *)
(* whatever fails, times out or dies between the two INSERTs; what the     *)
(* validation of an SMS accepts, the CHECKs of the table accept; a page    *)
(* falls short of the total read before it only by shipments whose         *)
(* recipient was edited in between, and only in a search; and the history  *)
(* of a shipment and the list of all agree on its last event.              *)
RegistersConsistent ==
  /\ TypeOK /\ IF part = "lists" THEN Lists!TypeOK ELSE AnyRequest!TypeOK
  /\ CreatedOnce /\ Lists!AuditPerEvent
  /\ part = "requests" => AnyRequest!NoRefusedWrite
  /\ Lists!PageKeepsPromise
  /\ part = "lists" => Lists!ListsAgree
=============================================================================
