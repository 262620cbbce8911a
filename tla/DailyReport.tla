----------------------------- MODULE DailyReport -----------------------------
(***************************************************************************)
(* The daily operations report: who gets it and when (report_recipients,   *)
(* routes/reports.js), and the sweep a cron starts every fifteen minutes   *)
(* (services/daily-report).  A recipient's edition is that of the last     *)
(* business day over at the chosen hour; last_sent_for_date is all that    *)
(* keeps the sweep from sending it again.                                  *)
(*                                                                         *)
(* A day has the moments 0 .. Midnight in the company's time zone, and an  *)
(* edition is the number of the day it covers.  Sending one by hand        *)
(* (send-now) changes no row and is left out.                              *)
(***************************************************************************)
EXTENDS Integers, FiniteSets

CONSTANTS
  Reader,          \* rows of report_recipients
  Sweeper,         \* sweeps
  Midnight,        \* the last moment of a day
  SendHour,        \* the moments a reader may choose
  Close,           \* business_hours_end
  Weekend,         \* days
  IncludeWeekends, \* call_settings.include_weekends
  SweepsOverlap,   \* may a sweep begin while another runs
  LastDay,         \* bound: days
  MaxReportEvents  \* bound: changes by staff, failures and deaths

ASSUME ReportAssumption ==
  /\ IsFiniteSet(Reader) /\ "none" \notin Reader /\ Midnight \in Nat
  /\ LastDay \in Nat \ {0} /\ MaxReportEvents \in Nat
  /\ SendHour \subseteq 0 .. Midnight /\ SendHour # {} /\ Close \in 0 .. Midnight
  /\ IncludeWeekends \in BOOLEAN /\ SweepsOverlap \in BOOLEAN

VARIABLES
  day, hour,
  reader,       \* the rows
  sweeper,      \* its moment, the rows it has still to look at, its mail
  editions,     \* how often a sweep mailed an edition to a reader
  excuse,       \* history: what may make an edition go out again
  dealt,        \* history: readers the last moment's sweep is done with
  reportEvents

clock == <<day, hour>>
reportVars == <<clock, reader, sweeper, editions, excuse, dealt, reportEvents>>

Never   == -1
NoMail  == [id |-> "none", edition |-> Never]
NoSweep == [on |-> FALSE, day |-> 1, hour |-> 0, left |-> {}, mail |-> NoMail]
NoRow   == [row |-> "none", enabled |-> FALSE, at |-> CHOOSE h \in SendHour : TRUE,
            last |-> Never]

ReportEvent == reportEvents < MaxReportEvents /\ reportEvents' = reportEvents + 1

ReportInit == /\ day = 1 /\ hour = 0
              /\ reader = [r \in Reader |-> NoRow]
              /\ sweeper = [s \in Sweeper |-> NoSweep]
              /\ editions = [r \in Reader |-> [d \in 0 .. LastDay |-> 0]]
              /\ excuse = [r \in Reader |-> 0]
              /\ dealt = {} /\ reportEvents = 0

Tick ==
  /\ \/ hour < Midnight /\ hour' = hour + 1 /\ UNCHANGED day
     \/ hour = Midnight /\ day < LastDay /\ hour' = 0 /\ day' = day + 1
  /\ dealt' = {}
  /\ UNCHANGED <<reader, sweeper, editions, excuse, reportEvents>>

-----------------------------------------------------------------------------
(* Staff.                                                                  *)

\* An hour after closing time means today's edition, one before yesterday's.
Target(at, today) == IF at >= Close THEN today ELSE today - 1

Excused(r) == excuse' = [excuse EXCEPT ![r] = @ + 1]

\* POST /recipients: not enabled, whatever was asked for.
AddReader(r) ==
  /\ reader[r].row = "none"
  /\ \E at \in SendHour : reader' = [reader EXCEPT ![r].row = "kept", ![r].at = at]
  /\ UNCHANGED <<clock, sweeper, editions, excuse, dealt, reportEvents>>

\* PATCH of a row nobody has looked at yet.
EnableReader(r) ==
  /\ reader[r].row = "kept" /\ ~reader[r].enabled /\ reader[r].last = Never
  /\ reader' = [reader EXCEPT ![r].enabled = TRUE]
  /\ UNCHANGED <<clock, sweeper, editions, excuse, dealt, reportEvents>>

\* PATCH /recipients/:id.
EditReader(r) ==
  /\ reader[r].row = "kept" /\ ReportEvent
  /\ \E on \in BOOLEAN, at \in SendHour :
       /\ reader' = [reader EXCEPT ![r].enabled = on, ![r].at = at]
       /\ IF Target(at, day) = Target(reader[r].at, day) THEN UNCHANGED excuse ELSE Excused(r)
  /\ dealt' = dealt \ {r}
  /\ UNCHANGED <<clock, sweeper, editions>>

\* DELETE /recipients/:id.
RemoveReader(r) ==
  /\ reader[r].row = "kept" /\ ReportEvent
  /\ reader' = [reader EXCEPT ![r].row = "gone", ![r].enabled = FALSE]
  /\ dealt' = dealt \ {r}
  /\ UNCHANGED <<clock, sweeper, editions, excuse>>

-----------------------------------------------------------------------------
(* The sweep.                                                              *)

\* listAllEnabledForSweep, with "now" taken once.
StartSweep(s) ==
  /\ ~sweeper[s].on
  /\ SweepsOverlap \/ \A x \in Sweeper : ~sweeper[x].on
  /\ sweeper' = [sweeper EXCEPT ![s] = [NoSweep EXCEPT !.on = TRUE, !.day = day, !.hour = hour,
       !.left = {[id |-> r, at |-> reader[r].at, last |-> reader[r].last] :
                 r \in {x \in Reader : reader[x].enabled}}]]
  /\ UNCHANGED <<clock, reader, editions, excuse, dealt, reportEvents>>

\* resolveDue, for a row as it was listed: the day it would cover is compared.
Edition(s, row) == Target(row.at, sweeper[s].day)
Due_ByDay(s, row) ==  \* mutant: compared with the day of the sweep
  /\ IncludeWeekends \/ Edition(s, row) \notin Weekend
  /\ sweeper[s].hour >= row.at
  /\ row.last # sweeper[s].day
Due(s, row) ==
  /\ IncludeWeekends \/ Edition(s, row) \notin Weekend
  /\ sweeper[s].hour >= row.at
  /\ row.last # Edition(s, row)

\* The sweep of the day's last moment is done with a row as it still stands.
Dealt(s, row) ==
  IF /\ <<sweeper[s].day, sweeper[s].hour>> = <<day, Midnight>>
     /\ reader[row.id].enabled /\ reader[row.id].at = row.at
  THEN dealt \cup {row.id}
  ELSE dealt

PassOver(s, row) ==
  /\ row \in sweeper[s].left /\ sweeper[s].mail = NoMail /\ ~Due(s, row)
  /\ sweeper' = [sweeper EXCEPT ![s].left = @ \ {row}]
  /\ dealt' = Dealt(s, row)
  /\ UNCHANGED <<clock, reader, editions, excuse, reportEvents>>

\* sendForRecipient: the mail ...
MailReport(s, row) ==
  /\ row \in sweeper[s].left /\ sweeper[s].mail = NoMail /\ Due(s, row)
  /\ editions' = [editions EXCEPT ![row.id][Edition(s, row)] = @ + 1]
  /\ sweeper' = [sweeper EXCEPT ![s].mail = [id |-> row.id, edition |-> Edition(s, row)]]
  /\ UNCHANGED <<clock, reader, excuse, dealt, reportEvents>>

\* ... then the stamp, by id.
Stamp_Today(s) == sweeper[s].day  \* mutant: the day of the sweep is stamped
Stamp(s) == sweeper[s].mail.edition

StampReport(s) ==
  LET r == sweeper[s].mail.id
  IN  /\ sweeper[s].mail # NoMail
      /\ reader' = IF reader[r].row = "kept" THEN [reader EXCEPT ![r].last = Stamp(s)] ELSE reader
      /\ \E row \in sweeper[s].left :
           /\ row.id = r
           /\ sweeper' = [sweeper EXCEPT ![s].mail = NoMail, ![s].left = @ \ {row}]
           /\ dealt' = Dealt(s, row)
      /\ UNCHANGED <<clock, editions, excuse, reportEvents>>

\* The workbook, the mail or the stamp fails: the next reader's turn.
ReportFails(s, row) ==
  /\ row \in sweeper[s].left /\ ReportEvent
  /\ \/ sweeper[s].mail = NoMail /\ Due(s, row) /\ UNCHANGED excuse
     \/ sweeper[s].mail.id = row.id /\ Excused(row.id)
  /\ sweeper' = [sweeper EXCEPT ![s].mail = NoMail, ![s].left = @ \ {row}]
  /\ UNCHANGED <<clock, reader, editions, dealt>>

SweeperDies(s) ==
  /\ sweeper[s].on /\ ReportEvent
  /\ IF sweeper[s].mail = NoMail THEN UNCHANGED excuse ELSE Excused(sweeper[s].mail.id)
  /\ sweeper' = [sweeper EXCEPT ![s] = NoSweep]
  /\ UNCHANGED <<clock, reader, editions, dealt>>

EndSweep(s) ==
  /\ sweeper[s].on /\ sweeper[s].left = {}
  /\ sweeper' = [sweeper EXCEPT ![s] = NoSweep]
  /\ UNCHANGED <<clock, reader, editions, excuse, dealt, reportEvents>>

-----------------------------------------------------------------------------
ReportNext ==
  \/ Tick
  \/ \E r \in Reader : AddReader(r) \/ EnableReader(r) \/ EditReader(r) \/ RemoveReader(r)
  \/ \E s \in Sweeper :
       \/ StartSweep(s) \/ StampReport(s) \/ SweeperDies(s) \/ EndSweep(s)
       \/ \E row \in sweeper[s].left :
            PassOver(s, row) \/ MailReport(s, row) \/ ReportFails(s, row)

ReportSpec == ReportInit /\ [][ReportNext]_reportVars

-----------------------------------------------------------------------------
\* Every variable has its type.
ReportTypeOK ==
  /\ day \in 1 .. LastDay /\ hour \in 0 .. Midnight
  /\ reader \in [Reader -> [row : {"none", "kept", "gone"}, enabled : BOOLEAN, at : SendHour,
                            last : {Never} \cup 0 .. LastDay]]
  /\ \A s \in Sweeper : /\ sweeper[s].on \in BOOLEAN
                        /\ \A row \in sweeper[s].left : row.id \in Reader
                        /\ sweeper[s].mail.id \in Reader \cup {"none"}
  /\ editions \in [Reader -> [0 .. LastDay -> Nat]]
  /\ excuse \in [Reader -> Nat] /\ dealt \subseteq Reader
  /\ reportEvents \in 0 .. MaxReportEvents

\* A late catch-up sweep still sends exactly once (schedule.js): a reader gets
\* no edition twice, however many sweeps run on however many days, except when
\* a stamp was lost after its mail or the hour was moved across closing time.
SentOnce == \A r \in Reader, d \in 0 .. LastDay : editions[r][d] <= 1 + excuse[r]

\* No working day is skipped: once the sweep of the day's last moment is done
\* with a reader, the edition due on that day has gone out, by this sweep or an
\* earlier one, also when earlier ones failed or did not run (resolveDue: the
\* condition stays true until it is acted on).
DayReported ==
  \A r \in dealt :
    LET edition == Target(reader[r].at, day)
    IN  IncludeWeekends \/ edition \notin Weekend => editions[r][edition] > 0
=============================================================================
