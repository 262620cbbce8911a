----------------------------- MODULE EntitySync -----------------------------
(***************************************************************************)
(* What a sync brings besides the jobs themselves, and how the records     *)
(* find each other on the platform: runSync's fan-out over customers,      *)
(* contacts, locations, visits and comments, the pruning of deleted        *)
(* visits, and the passes of normalizeAll that resolve references          *)
(* (src/services/servicetrade-sync.js, src/db/servicetrade-sync.js,        *)
(* src/services/crm/servicetrade/provider.js).                             *)
(*                                                                         *)
(* A record is <<kind, id>>; its content is the set of records it refers   *)
(* to.  A run executes the statements of a program one at a time; another  *)
(* run or an edit in ServiceTrade may come between any two of them.  How   *)
(* lists, cursors and failing details are handled is CrmMirror's.          *)
(***************************************************************************)
EXTENDS Integers, Sequences, FiniteSets

CONSTANTS
  Entity,        \* records of ServiceTrade, <<kind, id>>
  Book,          \* what each of them refers to
  Loose,         \* kinds of record that dispatchers unassign and assign
  Inbox,         \* the e-mail address of a contact, or NoInbox
  NoInbox,
  Worker,        \* runs
  RunsOverlap,   \* may a run start while another is at work?
  MaxEdits,      \* bound: changes in ServiceTrade
  MaxEntityFaults \* bound: refused requests and runs that die

OfKind(X, kinds) == {e \in X : e[1] \in kinds}

ASSUME EntityAssumption ==
  /\ Book \in [Entity -> SUBSET Entity] /\ RunsOverlap \in BOOLEAN
  /\ MaxEdits \in Nat /\ MaxEntityFaults \in Nat

VARIABLES
  book,       \* what a record refers to in ServiceTrade now
  gone,       \* visits deleted there
  stored,     \* raw rows
  naming,     \* the references in the payload of a raw row
  fresh,      \* raw rows updated after last_normalized_at
  rawPhone,   \* customers whose raw row holds a phone number
  shown,      \* platform rows
  edge,       \* their foreign keys and junction rows
  phone,      \* customers whose platform row holds a phone number
  cancelled,  \* visits cancelled on the platform
  owed,       \* jobs a run gave up on, until a later one has them whole
  cut,        \* visits whose run died between the two statements of the prune
  at,         \* the statement a run is at, 0 when it is not at work
  task,       \* jobs it works on
  hand,       \* rows it has fetched or read
  view,       \* their references as it saw them
  whole,      \* customers whose record, then jobs whose visits arrived whole
  scope,      \* visits to cancel, then raw rows above the watermark it read
  late,       \* raw rows written since its runStartedAt
  newly,      \* jobs and contacts it read that are above the watermark
  edits, entityFaults

crmState  == <<book, gone>>
rawState  == <<stored, naming, fresh, rawPhone>>
platState == <<shown, edge, phone, cancelled>>
runState  == <<at, task, hand, view, whole, scope, late, newly>>
entityVars == <<crmState, rawState, platState, owed, cut, runState, edits, entityFaults>>

-----------------------------------------------------------------------------
(* The statements of a run.                                                *)

Do(what) == [do |-> what, kind |-> "none", to |-> {}, filtered |-> FALSE]

\* An upsert of raw rows, whose columns and payload keep references of these
\* kinds.
Put(kind, to) == [do |-> "put", kind |-> kind, to |-> to, filtered |-> FALSE]

\* A pass over raw rows, all of them or those above the watermark, that writes
\* rows with their foreign keys, or the junction rows of one kind.
RowPass(kind, to, filtered)  == [do |-> "rows", kind |-> kind, to |-> to, filtered |-> filtered]
LinkPass(kind, to, filtered) == [do |-> "links", kind |-> kind, to |-> to, filtered |-> filtered]

\* What a raw row keeps of the record ServiceTrade sent.
CustomerRow   == {}
LocationRow   == {"customer", "contact", "office", "tag"}
ContactRow    == {"customer", "location"}
UserRow       == {}
ProjectRow    == {}
OfficeRow     == {}
TagRow        == {}
JobRow        == {"customer", "location", "contact", "user", "project", "office", "tag",
                  "contract", "visit"}
VisitRow      == {"job", "technician", "office"}
TechnicianRow == {}
LineRow       == {}
RequestRow    == {"visit", "job", "line", "location", "contract", "technician"}
CommentRow    == {"job"}

PutCustomers   == <<Put("customer", CustomerRow)>>
PutJobs        == <<Put("job", JobRow)>>
PutVisits      == <<Put("visit", VisitRow)>>
PutTechnicians == <<Put("technician", TechnicianRow)>>
PutLocations   == <<Put("location", LocationRow)>>
PutContacts    == <<Put("contact", ContactRow)>>
PutOffices     == <<Put("office", OfficeRow)>>
PutTags        == <<Put("tag", TagRow)>>
PutLines       == <<Put("line", LineRow)>>
PutComments    == <<Put("comment", CommentRow)>>
PutRequests    == <<Put("request", RequestRow)>>
PutProjects    == <<Put("project", ProjectRow)>>
PutUsers       == <<Put("user", UserRow)>>

\* runSync, the order of its requests and upserts.
FanOut == PutCustomers \o PutLocations \o PutContacts \o PutUsers \o PutProjects \o PutOffices
          \o PutTags
VisitFanOut == PutVisits \o PutTechnicians \o PutOffices \o PutLines \o PutRequests
SyncProgram ==
  <<Do("details")>> \o PutJobs \o <<Do("people")>> \o FanOut
  \o <<Do("visits"), Do("prune"), Do("cancel")>> \o VisitFanOut
  \o <<Do("comments")>> \o PutComments

\* The foreign keys of a platform row.
CustomerRefs   == {}
ContactRefs    == {}
OfficeRefs     == {}
TagRefs        == {}
LocationRefs   == {"customer", "contact"}
TechnicianRefs == {}
UserRefs       == {}
ProjectRefs    == {}
JobRefs        == {"customer", "user", "project", "contract", "visit", "location", "contact"}
VisitRefs      == {"job"}
CommentRefs    == {"job"}
LineRefs       == {}
ContractRefs   == {}
RequestRefs    == {"job", "location", "line", "contract"}
ServiceRefs    == {"visit"}

\* normalizeAll, the order of its passes.
CustomerPass    == <<RowPass("customer", CustomerRefs, TRUE)>>
ContactPass     == <<RowPass("contact", ContactRefs, TRUE)>>
OfficePass      == <<RowPass("office", OfficeRefs, FALSE)>>
TagPass         == <<RowPass("tag", TagRefs, FALSE)>>
LocationPass    == <<RowPass("location", LocationRefs, TRUE)>>
LocationOffices == <<LinkPass("location", {"office"}, FALSE)>>
LocationTags    == <<LinkPass("location", {"tag"}, FALSE)>>
ContactLinks    == <<LinkPass("contact", {"location"}, FALSE),
                     LinkPass("contact", {"customer"}, FALSE)>>
TechnicianPass  == <<RowPass("technician", TechnicianRefs, FALSE)>>
UserPass        == <<RowPass("user", UserRefs, FALSE)>>
ProjectPass     == <<RowPass("project", ProjectRefs, FALSE)>>
JobPass         == <<RowPass("job", JobRefs, TRUE)>>
VisitPass       == <<RowPass("visit", VisitRefs, TRUE)>>
VisitTeams      == <<LinkPass("visit", {"technician"}, TRUE)>>
VisitOffices    == <<LinkPass("visit", {"office"}, TRUE)>>
JobOffices      == <<LinkPass("job", {"office"}, FALSE)>>
JobTags         == <<LinkPass("job", {"tag"}, FALSE)>>
CommentPass     == <<RowPass("comment", CommentRefs, TRUE)>>
LinePass        == <<RowPass("line", LineRefs, FALSE)>>
ContractPass    == <<RowPass("contract", ContractRefs, FALSE)>>
RequestPass     == <<RowPass("request", RequestRefs, TRUE)>>
RequestTechs    == <<LinkPass("request", {"technician"}, FALSE)>>
VisitServices   == <<LinkPass("request", ServiceRefs, FALSE)>>

NormalizeProgram ==
  <<Do("begin")>> \o CustomerPass \o <<Do("read")>> \o ContactPass \o OfficePass \o TagPass
  \o LocationPass \o LocationOffices \o LocationTags \o ContactLinks \o TechnicianPass
  \o UserPass \o ProjectPass \o JobPass \o <<Do("reread")>> \o VisitPass \o VisitTeams
  \o VisitOffices \o JobOffices \o JobTags \o CommentPass \o LinePass \o ContractPass
  \o JobPass \o RequestPass \o RequestTechs \o VisitServices \o <<Do("finish")>>

Program == SyncProgram \o NormalizeProgram

\* Kinds without a record have nothing to write: the run passes over them.
HasRows(i) == i.kind = "none" \/ \E e \in Entity : e[1] = i.kind
Statement == {n \in 1..Len(Program) : HasRows(Program[n])}
NextStatement ==
  [k \in 1..(Len(Program) - 1) |->
     CHOOSE n \in Statement : n > k /\ \A m \in Statement : m > k => m >= n]

AtWork == {w \in Worker : at[w] # 0}
At(w, what) == at[w] # 0 /\ Program[at[w]].do = what
Following(w) == at' = [at EXCEPT ![w] = NextStatement[@]]
Normalizes(w) == at[w] # 0 /\ \E i \in 1..(at[w] - 1) : Program[i].do = "begin"

-----------------------------------------------------------------------------
(* ServiceTrade.                                                           *)

Up(X, kinds)   == OfKind(UNION {book[e] : e \in X}, kinds)
Down(X, kinds) == {e \in OfKind(Entity \ gone, kinds) : book[e] \cap X # {}}

EntityInit ==
  /\ book = Book /\ gone = {}
  /\ stored = {} /\ naming = [e \in Entity |-> {}] /\ fresh = {} /\ rawPhone = {}
  /\ shown = {} /\ edge = {} /\ phone = {} /\ cancelled = {}
  /\ owed = {} /\ cut = {}
  /\ at = [w \in Worker |-> 0] /\ task = [w \in Worker |-> {}]
  /\ hand = [w \in Worker |-> {}] /\ view = [w \in Worker |-> [e \in Entity |-> {}]]
  /\ whole = [w \in Worker |-> {}] /\ scope = [w \in Worker |-> {}]
  /\ late = [w \in Worker |-> {}] /\ newly = [w \in Worker |-> {}]
  /\ edits = 0 /\ entityFaults = 0

Assign(e, t) ==
  /\ edits < MaxEdits /\ t \in Book[e] /\ t[1] \in Loose
  /\ book' = [book EXCEPT ![e] = IF t \in @ THEN @ \ {t} ELSE @ \cup {t}]
  /\ edits' = edits + 1
  /\ UNCHANGED <<gone, rawState, platState, owed, cut, runState, entityFaults>>

DeleteVisit(v) ==
  /\ edits < MaxEdits /\ v \notin gone
  /\ gone' = gone \cup {v} /\ edits' = edits + 1
  /\ UNCHANGED <<book, rawState, platState, owed, cut, runState, entityFaults>>

-----------------------------------------------------------------------------
(* runSync.                                                                *)

EntityFault == entityFaults < MaxEntityFaults /\ entityFaults' = entityFaults + 1

\* A poll takes the jobs it listed, a webhook's run the job it was told of.
Begin(w, J) ==
  /\ at[w] = 0 /\ (RunsOverlap \/ AtWork = {})
  /\ at' = [at EXCEPT ![w] = 1] /\ task' = [task EXCEPT ![w] = J]
  /\ UNCHANGED <<crmState, rawState, platState, owed, cut, hand, view, whole, scope, late,
                 newly, edits, entityFaults>>

\* A response with these records is in.
Receive(w, X) ==
  /\ hand' = [hand EXCEPT ![w] = @ \cup X]
  /\ view' = [view EXCEPT ![w] = [e \in Entity |-> IF e \in X THEN book[e] ELSE @[e]]]
  /\ Following(w)
  /\ UNCHANGED <<crmState, rawState, platState, owed, cut, task, late, newly, edits>>

\* GET /job/{id}: the job with its customer, users, project, offices, tags and
\* contact, and its location with offices, tags and contacts.
Detail(w) ==
  LET places == Up(task[w], {"location"})
  IN /\ At(w, "details")
     /\ Receive(w, task[w] \cup places \cup Up(places, {"office", "tag", "contact"})
                \cup Up(task[w], {"customer", "user", "project", "office", "tag", "contact"}))
     /\ UNCHANGED <<whole, scope, entityFaults>>

\* linkContact: a contact seen on a job is linked to the job's customer and
\* location.
Embedded(w, c) ==
  UNION {LET places == OfKind(view[w][j], {"location"})
         IN  IF c \in view[w][j] \cup UNION {view[w][p] : p \in places}
             THEN places \cup OfKind(view[w][j], {"customer"}) ELSE {} : j \in task[w]}

\* GET /company/{id} and GET /contact?companyId= for every customer seen.  A
\* refused company leaves the stub, which has no phone number; a roster that
\* did not arrive to the last page is only logged.
People(w) ==
  LET customers == OfKind(hand[w], {"customer"})
      embedded  == OfKind(hand[w], {"contact"})
  IN /\ At(w, "people")
     /\ \E known \in SUBSET customers : \E listed \in SUBSET customers :
          LET roster == Down(listed, {"contact"})
          IN /\ IF known = customers /\ listed = customers THEN UNCHANGED entityFaults
                ELSE EntityFault
             /\ whole' = [whole EXCEPT ![w] = known]
             /\ hand' = [hand EXCEPT ![w] = @ \cup roster]
             /\ view' = [view EXCEPT ![w] = [e \in Entity |->
                           IF e \in embedded \cup roster
                           THEN Embedded(w, e) \cup (IF e \in roster THEN book[e] ELSE {})
                           ELSE @[e]]]
     /\ Following(w)
     /\ UNCHANGED <<crmState, rawState, platState, owed, cut, task, scope, late, newly, edits>>

\* GET /appointment?jobId= for every job: a page that is refused leaves some of
\* the visits, and complete = false.
VisitList(w) ==
  /\ At(w, "visits")
  /\ \E full \in SUBSET task[w] : \E some \in SUBSET Down(task[w] \ full, {"visit"}) :
       LET V == Down(full, {"visit"}) \cup some
           Q == Down(V, {"request"})
       IN /\ IF full = task[w] THEN UNCHANGED entityFaults ELSE EntityFault
          /\ whole' = [whole EXCEPT ![w] = full]
          /\ Receive(w, V \cup Up(V, {"technician", "office"}) \cup Q \cup Up(Q, {"line"}))
  /\ UNCHANGED scope

\* reconcileAppointmentsForJob, first statement: raw visits of a job that its
\* whole list does not contain are deleted.
Missing_AnyList(w) ==               \* mutant: also from lists that broke off
  {v \in OfKind(stored, {"visit"}) : naming[v] \cap task[w] # {} /\ v \notin hand[w]}
Missing(w) ==
  {v \in OfKind(stored, {"visit"}) : naming[v] \cap whole[w] # {} /\ v \notin hand[w]}

Prune(w) ==
  /\ At(w, "prune")
  /\ stored' = stored \ Missing(w) /\ fresh' = fresh \ Missing(w)
  /\ scope' = [scope EXCEPT ![w] = Missing(w)]
  /\ Following(w)
  /\ UNCHANGED <<crmState, naming, rawPhone, platState, owed, cut, task, hand, view, whole,
                 late, newly, edits, entityFaults>>

\* Second statement: their platform rows are cancelled.
CancelMissing(w) ==
  /\ At(w, "cancel")
  /\ cancelled' = cancelled \cup (scope[w] \cap shown)
  /\ Following(w)
  /\ UNCHANGED <<crmState, rawState, shown, edge, phone, owed, cut, task, hand, view, whole,
                 scope, late, newly, edits, entityFaults>>

\* GET /comment for every job.
Comments(w) ==
  /\ At(w, "comments")
  /\ Receive(w, Down(task[w], {"comment"}))
  /\ UNCHANGED <<whole, scope, entityFaults>>

\* One upsert...Batch: the rows are overwritten, updated_at is now.
Upserted(w) == OfKind(hand[w], {Program[at[w]].kind})

UpsertBatch(w) ==
  /\ At(w, "put")
  /\ stored' = stored \cup Upserted(w)
  /\ naming' = [e \in Entity |-> IF e \in Upserted(w)
                                  THEN OfKind(view[w][e], Program[at[w]].to) ELSE naming[e]]
  /\ fresh' = fresh \cup Upserted(w)
  /\ late' = [x \in Worker |-> IF Normalizes(x) THEN late[x] \cup Upserted(w) ELSE {}]
  /\ rawPhone' = (rawPhone \ Upserted(w)) \cup (Upserted(w) \cap whole[w])
  /\ Following(w)
  /\ UNCHANGED <<crmState, platState, owed, cut, task, hand, view, whole, scope, newly, edits,
                 entityFaults>>

-----------------------------------------------------------------------------
(* normalizeAll.                                                           *)

\* _countStrandedRefs: a visit without its job, although the job is there.
\* (Comments without their job are not written at all.)
Stranded ==
  \E v \in OfKind(shown \cap stored, {"visit"}) :
    /\ OfKind(naming[v], {"job"}) \cap shown # {}
    /\ ~\E x \in edge : x[1] = v /\ x[2][1] = "job"

\* The watermark is read; stranded rows make the run a full one.
BeginNormalize(w) ==
  /\ At(w, "begin")
  /\ scope' = [scope EXCEPT ![w] = IF Stranded THEN Entity ELSE fresh]
  /\ late' = [late EXCEPT ![w] = {}] /\ newly' = [newly EXCEPT ![w] = {}]
  /\ hand' = [hand EXCEPT ![w] = {}] /\ whole' = [whole EXCEPT ![w] = {}]
  /\ view' = [view EXCEPT ![w] = [e \in Entity |-> {}]]
  /\ owed' = owed \ whole[w]
  /\ Following(w)
  /\ UNCHANGED <<crmState, rawState, platState, cut, task, edits, entityFaults>>

Above(w) == scope[w] \cup late[w]

\* Jobs and contacts are read once, all of them; visits once, those above the
\* watermark.
Load(w, X) ==
  /\ hand' = [hand EXCEPT ![w] = @ \cup X]
  /\ view' = [view EXCEPT ![w] = [e \in Entity |-> IF e \in X THEN naming[e] ELSE @[e]]]
  /\ newly' = [newly EXCEPT ![w] = @ \cup (X \cap Above(w))]
  /\ Following(w)
  /\ UNCHANGED <<crmState, rawState, platState, owed, cut, task, whole, scope, late, edits,
                 entityFaults>>

ReadJobs(w)   == At(w, "read") /\ Load(w, OfKind(stored, {"job", "contact"}))
ReadVisits(w) == At(w, "reread") /\ Load(w, OfKind(stored, {"visit"}) \cap Above(w))

\* dedupeContactsByEmail: contacts with one e-mail address are one person, the
\* one with the lowest id; without an address everybody is somebody else.
Survivor(X, c) ==
  LET same == {d \in X : d = c \/ (Inbox[d] = Inbox[c] /\ Inbox[c] # NoInbox)}
  IN  CHOOSE d \in same : \A x \in same : d[2] <= x[2]

Canon(w, e) ==
  LET known == OfKind(hand[w], {"contact"}) IN IF e \in known THEN Survivor(known, e) ELSE e

\* The raw rows of the pass, and their payload.
Buffered(i) == i.kind \in {"job", "visit"} \/ (i.kind = "contact" /\ i.do = "rows")
RowsOf(w, i) ==
  LET all == OfKind(IF Buffered(i) THEN hand[w] ELSE stored, {i.kind})
  IN  IF ~i.filtered THEN all
      ELSE all \cap (IF Buffered(i) THEN newly[w] ELSE Above(w))
Payload(w, i, e) == OfKind(IF Buffered(i) THEN view[w][e] ELSE naming[e], i.to)
Resolved(w, i, e) == {Canon(w, t) : t \in Payload(w, i, e)} \cap shown

\* phone = COALESCE(EXCLUDED.phone, customers.phone).
PhoneKnown_Overwritten(X) == (phone \ X) \cup (rawPhone \cap X)   \* mutant: phone = EXCLUDED.phone
PhoneKnown(X) == phone \cup (rawPhone \cap X)

\* A row pass: rows and foreign keys are overwritten, a reference to nobody is
\* NULL; a comment without its job is skipped.  Contacts that were merged away
\* are deleted, references to them with them.
WriteRows(w) ==
  LET i == Program[at[w]]
      rows == {e \in RowsOf(w, i) : /\ Canon(w, e) = e
                                    /\ i.kind = "comment" => Resolved(w, i, e) # {}}
      dropped == {c \in OfKind(hand[w], {"contact"}) : i.kind = "contact" /\ Canon(w, c) # c}
  IN /\ At(w, "rows")
     /\ shown' = (shown \cup rows) \ dropped
     /\ edge' = {x \in edge : /\ x[1] \notin dropped /\ x[2] \notin dropped
                              /\ ~(x[1] \in rows /\ x[2][1] \in i.to)}
                \cup UNION {{<<e, t>> : t \in Resolved(w, i, e)} : e \in rows}
     /\ phone' = PhoneKnown(rows)
     /\ cancelled' = cancelled \ rows
     /\ Following(w)
     /\ UNCHANGED <<crmState, rawState, owed, cut, task, hand, view, whole, scope, late, newly,
                    edits, entityFaults>>

\* replaceJunction's scope: every parent of the pass, a contact only if its
\* payload names somebody.
Parents_Paired(w, i) == {Canon(w, e) : e \in {d \in RowsOf(w, i) : Resolved(w, i, d) # {}}} \cap shown
                                    \* mutant: the parents that have a pair
Parents(w, i) ==
  {Canon(w, e) : e \in {d \in RowsOf(w, i) : i.kind = "contact" => Payload(w, i, d) # {}}}
  \cap shown

WriteLinks(w) ==
  LET i == Program[at[w]]
      pairs == UNION {{<<Canon(w, e), t>> : t \in Resolved(w, i, e)} : e \in RowsOf(w, i)}
  IN /\ At(w, "links")
     /\ edge' = {x \in edge : ~(x[1] \in Parents(w, i) /\ x[2][1] \in i.to)}
                \cup {x \in pairs : x[1] \in shown}
     /\ Following(w)
     /\ UNCHANGED <<crmState, rawState, shown, phone, cancelled, owed, cut, task, hand, view,
                    whole, scope, late, newly, edits, entityFaults>>

Rest(w) ==
  /\ at' = [at EXCEPT ![w] = 0] /\ task' = [task EXCEPT ![w] = {}]
  /\ hand' = [hand EXCEPT ![w] = {}] /\ view' = [view EXCEPT ![w] = [e \in Entity |-> {}]]
  /\ whole' = [whole EXCEPT ![w] = {}] /\ scope' = [scope EXCEPT ![w] = {}]
  /\ late' = [late EXCEPT ![w] = {}] /\ newly' = [newly EXCEPT ![w] = {}]

\* The watermark becomes runStartedAt.
FinishNormalize(w) ==
  /\ At(w, "finish")
  /\ fresh' = late[w]
  /\ Rest(w)
  /\ UNCHANGED <<crmState, stored, naming, rawPhone, platState, owed, cut, edits, entityFaults>>

\* A statement throws or the instance dies.  The jobs of a sync that did not
\* get through are fetched again.
RunDies(w) ==
  /\ at[w] # 0 /\ EntityFault
  /\ owed' = IF Normalizes(w) THEN owed ELSE owed \cup task[w]
  /\ cut' = IF At(w, "cancel") THEN cut \cup scope[w] ELSE cut
  /\ Rest(w)
  /\ UNCHANGED <<crmState, rawState, platState, edits>>

-----------------------------------------------------------------------------

FanOutStep(w) ==
  \/ Detail(w) \/ People(w) \/ VisitList(w) \/ Prune(w) \/ CancelMissing(w) \/ Comments(w)
  \/ UpsertBatch(w)
NormalizeStep(w) ==
  \/ BeginNormalize(w) \/ ReadJobs(w) \/ ReadVisits(w) \/ WriteRows(w) \/ WriteLinks(w)
  \/ FinishNormalize(w)

EntityNext ==
  \/ \E e \in Entity : \E t \in Book[e] : Assign(e, t)
  \/ \E v \in OfKind(Entity, {"visit"}) : DeleteVisit(v)
  \/ \E w \in Worker :
       \/ \E J \in SUBSET OfKind(Entity, {"job"}) \ {{}} : Begin(w, J)
       \/ FanOutStep(w) \/ NormalizeStep(w) \/ RunDies(w)

EntitySpec == EntityInit /\ [][EntityNext]_entityVars

-----------------------------------------------------------------------------
(* Properties.                                                             *)

\* Every variable has its type.
EntityTypeOK ==
  /\ book \in [Entity -> SUBSET Entity] /\ gone \subseteq OfKind(Entity, {"visit"})
  /\ stored \subseteq Entity /\ fresh \subseteq stored
  /\ naming \in [Entity -> SUBSET Entity]
  /\ rawPhone \subseteq OfKind(stored, {"customer"})
  /\ shown \subseteq Entity /\ edge \subseteq shown \X shown
  /\ phone \subseteq shown /\ cancelled \subseteq OfKind(shown, {"visit"})
  /\ owed \subseteq OfKind(Entity, {"job"}) /\ cut \subseteq OfKind(Entity, {"visit"})
  /\ at \in [Worker -> 0..Len(Program)]
  /\ task \in [Worker -> SUBSET Entity] /\ hand \in [Worker -> SUBSET Entity]
  /\ edits \in 0..MaxEdits /\ entityFaults \in 0..MaxEntityFaults

\* What filtered passes resolve, and what they should: the references in the
\* payload, to the surviving contacts, as far as the platform has them.
Refers(kind) ==
  UNION {Program[n].to : n \in {m \in 1..Len(Program) : Program[m].kind = kind
                                                         /\ Program[m].filtered}}
Known(e) == {t[2] : t \in {x \in edge : x[1] = e /\ x[2][1] \in Refers(e[1])}}
Survives(t) == IF t[1] = "contact" THEN Survivor(OfKind(stored, {"contact"}) \cup {t}, t) ELSE t
Due(e) == {Survives(t) : t \in OfKind(naming[e], Refers(e[1]))} \cap shown

\* A visit or comment is about one job; the customer of a job's location is the
\* job's customer; a job's visit names the job; and a service request is about
\* the job and the location of its visit.
JobsOf(e) == OfKind(Book[e], {"job"})
WellBooked ==
  LET jobs == OfKind(Entity, {"job"})
  IN /\ \A e \in OfKind(Entity, {"visit", "comment"}) : \E j \in jobs : JobsOf(e) = {j}
     /\ \A j \in jobs :
          /\ \A p \in OfKind(Book[j], {"location"}) : OfKind(Book[p], {"customer"}) \subseteq Book[j]
          /\ \A v \in OfKind(Book[j], {"visit"}) : j \in Book[v]
     /\ \A q \in OfKind(Entity, {"request"}) : \A v \in OfKind(Book[q], {"visit"}) :
          /\ JobsOf(q) \subseteq Book[v]
          /\ \A j \in JobsOf(v) : OfKind(Book[q], {"location"}) \subseteq Book[j]

\* Dispatchers assign technicians, offices and people; what a record is about
\* stays.
Fixed == Loose \cap {"job", "customer", "location"} = {}

\* Everybody has an e-mail address of their own.
OwnInboxes ==
  \A c \in OfKind(Entity, {"contact"}) :
    c[2] \in Nat /\ \A d \in OfKind(Entity, {"contact"}) :
                      Inbox[c] = Inbox[d] /\ Inbox[c] # NoInbox => c = d

\* Comments: incremental normalizing is safe because rows with a reference that
\* could not be resolved are found and repaired, and references to merged
\* contacts are repointed.  At rest, a raw row below the watermark has a
\* platform row with the references its payload names, unless a full run is
\* about to come; jobs of runs that died come back.
RefsHeal ==
  AtWork = {} /\ owed = {} /\ ~Stranded =>
    \A e \in stored \ fresh : Survives(e) = e => e \in shown /\ Known(e) = Due(e)

\* Comment: a visit deleted in the CRM would sit in the platform as scheduled
\* forever, and a truncated list must not cancel live visits.  At rest, a visit
\* is cancelled exactly if its raw row was pruned, which only happens to visits
\* deleted in ServiceTrade; an exception is the visit whose run died between
\* the two statements.
VisitsPruned ==
  AtWork = {} =>
    \A v \in OfKind(shown, {"visit"}) :
      /\ v \in cancelled => v \in gone
      /\ v \notin stored => v \in cancelled \/ v \in cut

\* Comment: a failed lookup just keeps the lightweight stub.  It never takes
\* the phone number from a customer who had one.
PhoneKept == [][phone \subseteq phone']_entityVars
=============================================================================
