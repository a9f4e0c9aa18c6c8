------------------------------- MODULE MCPages ------------------------------
(***************************************************************************)
(* The pages of the main window.  A behaviour is that of the page the user *)
(* opens, and the others rest as they were built: the states of the pages  *)
(* add up and do not multiply.                                             *)
(***************************************************************************)
EXTENDS DatabaseWorker

CONSTANTS
  ClientsClicks, UsersClicks, ShipmentsClicks, SmsClicks,   \* MaxActions
  ShipmentsFilters, SmsFilters, SmsSearches, MaxPages

ASSUME PagesAssumption ==
  /\ {ClientsClicks, UsersClicks, ShipmentsClicks, SmsClicks} \subseteq Nat
  /\ ShipmentsFilters # {} /\ SmsFilters # {} /\ SmsSearches \subseteq SmsFilters
  /\ MaxPages \in Nat \ {0}

VARIABLES
  opened,                                   \* the page the user works on
  clicks, alive, changes, missed, busy,     \* used by several pages
  page, total, failed,
  listed, editor, editors, client_events,
  user_list, enabled, actions, passwords, made, seen, overlapped, user_dialog, user_events,
  pages, filter, generation, load_busy, mutation_busy, pending, shown, dialog,
  sms_pages, sms_filter, sms_shown, history, asked, edited, sms_events

of_clients == <<listed, editor, editors, client_events>>
of_users == <<user_list, enabled, actions, passwords, made, seen, overlapped, user_dialog,
              user_events>>
of_shipments == <<pages, filter, generation, load_busy, mutation_busy, pending, shown, dialog,
                  events>>
of_sms == <<sms_pages, sms_filter, sms_shown, history, asked, edited, sms_events>>

all == <<opened, clicks, alive, changes, missed, busy, page, total, failed,
         submitted, tasks, of_clients, of_users, of_shipments, of_sms>>

Clients == INSTANCE ClientsPage WITH
  MaxActions <- ClientsClicks, dialog <- editor, opened <- editors, events <- client_events

Users == INSTANCE UsersPage WITH
  MaxActions <- UsersClicks, listed <- user_list, dialog <- user_dialog, events <- user_events

Shipments == INSTANCE ShipmentsPage WITH
  Filters <- ShipmentsFilters, MaxActions <- ShipmentsClicks

Sms == INSTANCE SmsShipmentsPage WITH
  Filters <- SmsFilters, Searches <- SmsSearches, MaxActions <- SmsClicks,
  pages <- sms_pages, filter <- sms_filter, shown <- sms_shown, events <- sms_events

PagesInit ==
  /\ opened \in {"clients", "users", "shipments", "sms"}
  /\ Clients!Init /\ Users!Init /\ Shipments!Init /\ Sms!Init
  /\ opened # "shipments" =>
       /\ filter = CHOOSE f \in ShipmentsFilters : TRUE
       /\ pages = [f \in ShipmentsFilters |-> 0]
  /\ opened # "sms" =>
       /\ sms_filter = CHOOSE f \in SmsFilters : TRUE
       /\ sms_pages = [f \in SmsFilters |-> 0]

(* A step of each page; what does not belong to it rests.                  *)
OnClients(Step) ==
  /\ opened = "clients" /\ Step
  /\ UNCHANGED <<opened, page, total, failed, of_users, of_shipments, of_sms>>
OnUsers(Step) ==
  /\ opened = "users" /\ Step
  /\ UNCHANGED <<opened, busy, page, total, failed, of_clients, of_shipments, of_sms>>
OnShipments(Step) ==
  /\ opened = "shipments" /\ Step
  /\ UNCHANGED <<opened, missed, busy, of_clients, of_users, of_sms>>
OnSms(Step) ==
  /\ opened = "sms" /\ Step
  /\ UNCHANGED <<opened, changes, missed, of_clients, of_users, of_shipments>>

PagesNext ==
  \/ OnClients(Clients!Next) \/ OnUsers(Users!Next)
  \/ OnShipments(Shipments!Next) \/ OnSms(Sms!Next)

Work ==
  \/ OnClients(Clients!Work) \/ OnUsers(Users!Work)
  \/ OnShipments(Shipments!Work) \/ OnSms(Sms!Work)

Deliver ==
  \/ OnClients(Clients!Deliver) \/ OnUsers(Users!Deliver)
  \/ OnShipments(Shipments!Deliver) \/ OnSms(Sms!Deliver)

PagesSpec == PagesInit /\ [][PagesNext]_all /\ WF_all(Work) /\ WF_all(Deliver)

PageTypeOK ==
  CASE opened = "clients" -> Clients!TypeOK
    [] opened = "users" -> Users!TypeOK
    [] opened = "shipments" -> Shipments!TypeOK
    [] opened = "sms" -> Sms!TypeOK

(* A page never has two calls under way that its discipline keeps apart.   *)
OneCallAtATime ==
  /\ opened = "clients" => Clients!OneCall
  /\ opened = "shipments" => Shipments!OneMutation
  /\ opened = "sms" => Sms!OneCall

(* Once a page rests, it shows the changes its calls have made; after two  *)
(* overlapping lists of the users, or a list that failed, it need not.     *)
ChangesAreShown ==
  /\ opened = "clients" => Clients!ListCatchesUp
  /\ opened = "users" => Users!ListCatchesUp
  /\ opened = "shipments" => Shipments!ChangesShown

(* What page and filters say of the rows below them is true: the summary   *)
(* fits the rows, they are what was asked for, and the page exists (of SMS *)
(* shipments: where the list that was asked for cannot shrink).            *)
HeadingsAreTrue ==
  /\ opened = "shipments" => Shipments!SummaryTrue
  /\ opened = "sms" => Sms!ShowsWhatWasAsked /\ Sms!PageExists

(* Every state of a page: rows, headings and calls under way agree,        *)
(* whatever the order in which calls were made and answered.               *)
PagesConsistent ==
  PageTypeOK /\ OneCallAtATime /\ ChangesAreShown /\ HeadingsAreTrue

(* The password of a created user, of which only the hash is stored, gets  *)
(* onto the screen, also when its dialog was closed in the meantime.       *)
UsersEveryPasswordShown == opened = "users" => Users!EveryPasswordShown

(* Where calls exclude each other or carry a generation, no late list      *)
(* replaces a newer one.                                                   *)
NeverAnOlderList == Clients!NeverOlder /\ Shipments!NewestStays

PageBlocked ==
  \/ opened = "clients" /\ Clients!Blocked
  \/ opened = "users" /\ Users!Blocked
  \/ opened = "shipments" /\ Shipments!Blocked
  \/ opened = "sms" /\ Sms!Blocked

(* Every page always becomes usable again, and a dialog that waits for the *)
(* creation of a user is answered.                                         *)
PagesFreeAgain == (PageBlocked ~> ~PageBlocked) /\ Users!CreateAnswered
=============================================================================
