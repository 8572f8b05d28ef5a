----------------------------- MODULE Ingestion -----------------------------
(* From a campaign to its call tasks: the Campaign API creates the campaign *)
(* and hands out an upload URL, the client puts a contacts file into S3,    *)
(* possibly again and again, and each upload is an event that invokes the   *)
(* ingestion lambda at least once, on any number of instances at a time.    *)
(*                                                                          *)
(* An invocation is one transaction (READ COMMITTED). The INSERT of the     *)
(* contacts goes through them one by one and waits on the unique index      *)
(* (campaign_id, phone) for a transaction that has inserted the same phone, *)
(* so its rows are steps; the other statements are a step each. S3 puts one *)
(* record into an event, so the loop over Records is one round.             *)
EXTENDS ContactsCsv

CONSTANTS
    Campaigns,          \* rows of campaigns
    NoCampaign,
    Files,              \* contents of the files clients may upload
    NoFile,
    Lambdas,            \* instances of the lambda
    MaxUploads,         \* bound: uploads in a run
    MaxTries            \* deliveries of one event: the first, retries, duplicates

ASSUME IngestionAssumption ==
    /\ NoCampaign \notin Campaigns
    /\ NoFile \notin Files
    /\ \A file \in Files : file.lines \in Seq(RawLines)
    /\ MaxUploads \in Nat /\ MaxTries \in Nat

VARIABLES
    campaignStatus,     \* campaigns.status, "none" while there is no such row
    counterRows,        \* campaigns with a row in campaign_concurrency
    object,             \* the contacts.csv of each campaign in S3
    events,             \* one record per upload
    contacts,           \* committed rows of contacts, by campaign
    callTasks,          \* the contacts that have a row in call_tasks, by campaign
    handler             \* the invocation each lambda instance is running

intakeVars == <<campaignStatus, counterRows, object, events, contacts, callTasks, handler>>

\* todo: rows the INSERT has not come to; mine: rows it has inserted; tasks: the
\* contacts it has made call tasks for; left: what is still open of an event's
\* deliveries; done: an invocation for it has returned. An event does not say
\* what was put; its file is kept to say what was ingested.
NoHandler == [pc |-> "free", campaign |-> NoCampaign, event |-> 0,
              todo |-> {}, mine |-> {}, tasks |-> {}]

Invocations ==
    [pc       : {"free", "insert", "commit"},
     campaign : Campaigns \cup {NoCampaign},
     event    : Nat,
     todo     : SUBSET ContactRows,
     mine     : SUBSET ContactRows,
     tasks    : SUBSET Phones]

UploadEvents ==
    [campaign : Campaigns, file : Files, left : 0..MaxTries, done : BOOLEAN]

IntakeTypeOK ==
    /\ campaignStatus \in [Campaigns -> {"none", "created", "ready"}]
    /\ counterRows \subseteq Campaigns
    /\ object \in [Campaigns -> Files \cup {NoFile}]
    /\ events \in Seq(UploadEvents)
    /\ contacts \in [Campaigns -> SUBSET ContactRows]
    /\ callTasks \in [Campaigns -> SUBSET Phones]
    /\ handler \in [Lambdas -> Invocations]

IntakeInit ==
    /\ campaignStatus = [c \in Campaigns |-> "none"]
    /\ counterRows = {}
    /\ object = [c \in Campaigns |-> NoFile]
    /\ events = <<>>
    /\ contacts = [c \in Campaigns |-> {}]
    /\ callTasks = [c \in Campaigns |-> {}]
    /\ handler = [l \in Lambdas |-> NoHandler]

PhonesOf(rows) == {r.phone : r \in rows}
-----------------------------------------------------------------------------
(* The Campaign API and its clients. *)

\* create_campaign; it needs max_concurrency > 0.
CreateCampaign(c) ==
    /\ campaignStatus[c] = "none"
    /\ campaignStatus' = [campaignStatus EXCEPT ![c] = "created"]
    /\ counterRows' = counterRows \cup {c}
    /\ UNCHANGED <<object, events, contacts, callTasks, handler>>

\* The client puts a file to the URL it was given; S3 notifies the lambda.
Upload(c, file) ==
    /\ campaignStatus[c] # "none"
    /\ Len(events) < MaxUploads
    /\ object' = [object EXCEPT ![c] = file]
    /\ events' = Append(events, [campaign |-> c, file |-> file, left |-> MaxTries, done |-> FALSE])
    /\ UNCHANGED <<campaignStatus, counterRows, contacts, callTasks, handler>>
-----------------------------------------------------------------------------
(* One invocation, on instance l. *)

\* SELECT DISTINCT ON (phone) from the staging table: one of the rows of each
\* phone.
DistinctOn(rows) ==
    {picked \in SUBSET rows : /\ PhonesOf(picked) = PhonesOf(rows)
                              /\ \A r, other \in picked : r.phone = other.phone => r = other}

\* The invocation for the n-th event reads what the object holds by now and
\* stages its contacts; an unreadable file ends it.
Invoke(l, n) ==
    /\ handler[l].pc = "free"
    /\ events[n].left > 0
    /\ events' = [events EXCEPT ![n].left = @ - 1]
    /\ LET c == events[n].campaign
           file == object[c]
       IN  IF Readable(file)
             THEN \E rows \in DistinctOn(IterValidContacts(file)) :
                    handler' = [handler EXCEPT ![l] =
                                  [NoHandler EXCEPT !.pc = "insert", !.campaign = c,
                                                    !.event = n, !.todo = rows]]
             ELSE UNCHANGED handler
    /\ UNCHANGED <<campaignStatus, counterRows, object, contacts, callTasks>>

\* Without ORDER BY phone.
NextRowsInAnyOrder(l) == handler[l].todo

NextRows(l) ==
    {r \in handler[l].todo : \A other \in handler[l].todo : r.phone <= other.phone}

\* ON CONFLICT does not look at rows that are not committed.
HoldersIgnored(l, phone) == {}

\* The other open transactions that have inserted the phone for the campaign:
\* the unique index makes l wait for them.
HoldersOf(l, phone) ==
    {k \in Lambdas \ {l} : /\ handler[k].campaign = handler[l].campaign
                           /\ phone \in PhonesOf(handler[k].mine)}

\* The row goes in, or does nothing where a contact has its phone.
Insert(l, r) ==
    /\ handler[l].pc = "insert"
    /\ r \in NextRows(l)
    /\ HoldersOf(l, r.phone) = {}
    /\ LET conflict == r.phone \in PhonesOf(contacts[handler[l].campaign]) IN
         handler' = [handler EXCEPT
             ![l] = [handler[l] EXCEPT !.todo = handler[l].todo \ {r},
                                       !.mine = handler[l].mine
                                                \cup (IF conflict THEN {} ELSE {r})]]
    /\ UNCHANGED <<campaignStatus, counterRows, object, events, contacts, callTasks>>

\* What the other connections see.
VisibleContactsCommittedOnly(l) == contacts[handler[l].campaign]

\* The contacts the transaction of l sees: the committed ones and its own.
VisibleContacts(l) == contacts[handler[l].campaign] \cup handler[l].mine

\* create_call_tasks
CreateTasks(l) ==
    /\ handler[l].pc = "insert"
    /\ handler[l].todo = {}
    /\ handler' = [handler EXCEPT
           ![l] = [handler[l] EXCEPT !.pc = "commit",
                                     !.tasks = PhonesOf(VisibleContacts(l))
                                               \ callTasks[handler[l].campaign]]]
    /\ UNCHANGED <<campaignStatus, counterRows, object, events, contacts, callTasks>>

\* mark_campaign_ready and the commit; the event is dealt with.
Commit(l) ==
    /\ handler[l].pc = "commit"
    /\ LET c == handler[l].campaign IN
         /\ contacts' = [contacts EXCEPT ![c] = contacts[c] \cup handler[l].mine]
         /\ callTasks' = [callTasks EXCEPT ![c] = callTasks[c] \cup handler[l].tasks]
         /\ campaignStatus' = [campaignStatus EXCEPT ![c] = "ready"]
    /\ events' = [events EXCEPT ![handler[l].event].done = TRUE]
    /\ handler' = [handler EXCEPT ![l] = NoHandler]
    /\ UNCHANGED <<counterRows, object>>

\* handler would log an error and return.
AbortQuietly(l) ==
    /\ handler[l].pc # "free"
    /\ events' = [events EXCEPT ![handler[l].event].done = TRUE]
    /\ handler' = [handler EXCEPT ![l] = NoHandler]
    /\ UNCHANGED <<campaignStatus, counterRows, object, contacts, callTasks>>

\* The invocation fails or times out and its transaction rolls back; Lambda
\* may try the event again.
Abort(l) ==
    /\ handler[l].pc # "free"
    /\ handler' = [handler EXCEPT ![l] = NoHandler]
    /\ UNCHANGED <<campaignStatus, counterRows, object, events, contacts, callTasks>>

IntakeNext ==
    \/ \E c \in Campaigns : CreateCampaign(c) \/ \E file \in Files : Upload(c, file)
    \/ \E l \in Lambdas :
          \/ \E n \in 1..Len(events) : Invoke(l, n)
          \/ \E r \in ContactRows : Insert(l, r)
          \/ CreateTasks(l)
          \/ Commit(l)
          \/ Abort(l)

IntakeSpec == IntakeInit /\ [][IntakeNext]_intakeVars
-----------------------------------------------------------------------------
(* Properties. *)

\* However often and however concurrently a file is ingested, a campaign has
\* each phone once, so nobody is called twice for it (db.py:51-60).
OneContactPerPhone ==
    \A c \in Campaigns : \A r, s \in contacts[c] : r.phone = s.phone => r = s

\* No contact is left without its call task, no task without its contact, and
\* a campaign with contacts is ready and has the counter without which a task
\* could never be claimed (handler.py:37-41, campaign_api/main.py:27-29).
ContactsAreCallable ==
    \A c \in Campaigns :
        /\ PhonesOf(contacts[c]) = callTasks[c]
        /\ contacts[c] # {} => campaignStatus[c] = "ready" /\ c \in counterRows

IsLastUpload(n) == \A k \in (n + 1)..Len(events) : events[k].campaign # events[n].campaign

\* Once the event of a campaign's last upload is dealt with, all the callable
\* phones of the file are contacts, whatever became of earlier uploads and of
\* the invocations that ran at the same time (handler.py:33-41).
UploadsAreIngested ==
    \A n \in 1..Len(events) :
        events[n].done /\ IsLastUpload(n) =>
            LET c == events[n].campaign IN
              PhonesOf(IterValidContacts(object[c])) \subseteq PhonesOf(contacts[c])

\* What is ingested of an uploaded file is what the batch parser, which the
\* tests of the format are written against, calls valid (parser.py).
ParsersAgree ==
    \A c \in Campaigns : object[c] # NoFile /\ Readable(object[c]) => SameContacts(object[c])

WaitsFor(l) == UNION {HoldersOf(l, r.phone) : r \in NextRows(l)}

\* Invocations that each wait for another one of them.
Circle(S) ==
    /\ S # {}
    /\ \A l \in S : (\E k \in S : k \in WaitsFor(l)) /\ (\E k \in S : l \in WaitsFor(k))

\* Concurrent invocations for a campaign never deadlock, since all insert in
\* the order of the phones (db.py:57).
HandlersNeverDeadlock == \A S \in SUBSET Lambdas : ~Circle(S)

\* The files put up for c, and what the INSERT may take of a file.
Uploaded == [c \in Campaigns |-> {e.file : e \in {d \in ToSet(events) : d.campaign = c}}]

Picks == [file \in Files |-> IF Readable(file) THEN DistinctOn(IterValidContacts(file)) ELSE {}]

ReadyCampaigns == {c \in Campaigns : campaignStatus[c] = "ready"}

Intake == INSTANCE ContactIntake WITH
              uploaded <- Uploaded, tasks <- callTasks, ready <- ReadyCampaigns

\* Concurrent invocations, row by row and each seeing what the others have
\* committed, duplicated, retried and broken off anywhere, do what ingesting
\* uploaded files one after the other does (db.py:51-78, handler.py:37-41).
IngestsAtomically == Intake!Spec
=============================================================================
