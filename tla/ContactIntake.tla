--------------------------- MODULE ContactIntake ---------------------------
(* What the intake of contacts promises: files are ingested one after the   *)
(* other, each as a whole and as often as one likes. An ingestion adds the  *)
(* rows of an uploaded file whose phones the campaign does not have yet, a  *)
(* call task for each of them and nothing else, and the campaign is ready.  *)
CONSTANTS
    Campaigns,
    Files,
    Picks               \* the sets of rows, one for each phone, of each file

VARIABLES
    uploaded,           \* the files ever put up for each campaign
    contacts,
    tasks,              \* the phones that have a call task
    ready               \* campaigns that may be called

vars == <<uploaded, contacts, tasks, ready>>

Init ==
    /\ uploaded = [c \in Campaigns |-> {}]
    /\ contacts = [c \in Campaigns |-> {}]
    /\ tasks = [c \in Campaigns |-> {}]
    /\ ready = {}

Upload(c, file) ==
    /\ uploaded' = [uploaded EXCEPT ![c] = @ \cup {file}]
    /\ UNCHANGED <<contacts, tasks, ready>>

New(c, rows) == {r \in rows : \A known \in contacts[c] : known.phone # r.phone}

Ingest(c, file) ==
    /\ file \in uploaded[c]
    /\ \E rows \in Picks[file] :
          /\ contacts' = [contacts EXCEPT ![c] = @ \cup New(c, rows)]
          /\ tasks' = [tasks EXCEPT ![c] = @ \cup {r.phone : r \in New(c, rows)}]
    /\ ready' = ready \cup {c}
    /\ UNCHANGED uploaded

Next == \E c \in Campaigns : \E file \in Files : Upload(c, file) \/ Ingest(c, file)

Spec == Init /\ [][Next]_vars
=============================================================================
