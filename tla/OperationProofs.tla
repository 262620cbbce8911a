--------------------------- MODULE OperationProofs ---------------------------
(***************************************************************************)
(* Theorems about DailyReport for every set of readers and sweeps, every   *)
(* calendar and every number of days; about LinkDelivery for every set of  *)
(* rows, requests of staff and short URLs; and, from the theorems about    *)
(* its parts, about what MCOperations composes.                            *)
(***************************************************************************)
EXTENDS MCOperations, CallQueueProofs, EngineRunProofs, TLAPS

-----------------------------------------------------------------------------
(* The daily report: types.                                                *)

Days       == 0 .. LastDay
Stamps     == {Never} \cup Days
ReaderType == [row : {"none", "kept", "gone"}, enabled : BOOLEAN, at : SendHour, last : Stamps]
ListedType == [id : Reader, at : SendHour, last : Stamps]
MailType   == [id : Reader \cup {"none"}, edition : Stamps]
SweepType  == [on : BOOLEAN, day : 1 .. LastDay, hour : 0 .. Midnight,
               left : SUBSET ListedType, mail : MailType]

ReportTypes ==
  /\ day \in 1 .. LastDay /\ hour \in 0 .. Midnight
  /\ reader \in [Reader -> ReaderType]
  /\ sweeper \in [Sweeper -> SweepType]
  /\ editions \in [Reader -> [Days -> Nat]]
  /\ excuse \in [Reader -> Nat] /\ dealt \subseteq Reader

\* A step of one sweep, and a change of one row, leave the others alone.
OnlySweep(s)  == \A x \in Sweeper \ {s} : sweeper'[x] = sweeper[x]
OnlyReader(r) == \A q \in Reader \ {r} : reader'[q] = reader[q]

LEMMA TargetTyped == \A at \in SendHour, d \in 1 .. LastDay : Target(at, d) \in Days
BY ReportAssumption DEF Target, Days

LEMMA EditionTyped ==
  ASSUME ReportTypes, NEW s \in Sweeper, NEW row \in sweeper[s].left
  PROVE  row \in ListedType /\ Edition(s, row) \in Days
<1>1. sweeper[s].day \in 1 .. LastDay /\ row \in ListedType BY DEF ReportTypes, SweepType
<1> QED BY <1>1, TargetTyped DEF Edition, ListedType

LEMMA ResetTyped == NoMail \in MailType /\ NoSweep \in SweepType
BY ReportAssumption DEF NoMail, NoSweep, MailType, SweepType, Stamps, Never

\* One reader's row is written.
LEMMA ReaderWritten ==
  ASSUME ReportTypes, NEW r \in Reader, NEW new \in ReaderType, reader' = [reader EXCEPT ![r] = new]
  PROVE  reader' \in [Reader -> ReaderType] /\ reader'[r] = new /\ OnlyReader(r)
BY DEF ReportTypes, OnlyReader

\* One sweep moves on.
LEMMA SweepMoved ==
  ASSUME ReportTypes, NEW s \in Sweeper, NEW new \in SweepType, sweeper' = [sweeper EXCEPT ![s] = new]
  PROVE  sweeper' \in [Sweeper -> SweepType] /\ sweeper'[s] = new /\ OnlySweep(s)
BY DEF ReportTypes, OnlySweep

\* Staff.
LEMMA StaffStep ==
  ASSUME ReportTypes, NEW r \in Reader,
         AddReader(r) \/ EnableReader(r) \/ EditReader(r) \/ RemoveReader(r)
  PROVE  /\ UNCHANGED <<clock, sweeper, editions>>
         /\ reader' \in [Reader -> ReaderType] /\ OnlyReader(r)
         /\ reader'[r].row \in {"kept", "gone"} /\ reader'[r].last = reader[r].last
         /\ reader'[r].enabled => reader'[r].row = "kept" \/ (reader[r].enabled /\ reader[r].row = "none")
         /\ reader'[r].row = "kept" => reader[r].row \in {"none", "kept"}
         /\ dealt' \subseteq dealt
         /\ r \in dealt' => /\ reader[r].row \in {"none", "kept"} /\ UNCHANGED excuse
                            /\ reader[r].row = "kept" => reader'[r].row = "kept" /\ reader'[r].at = reader[r].at
         /\ \/ UNCHANGED excuse
            \/ excuse' = [excuse EXCEPT ![r] = @ + 1]
         /\ reader[r].row # "none" /\ reader'[r].row = "kept" /\ UNCHANGED excuse =>
              Target(reader'[r].at, day) = Target(reader[r].at, day)
<1>0. reader[r] \in ReaderType BY DEF ReportTypes
<1>1. CASE AddReader(r)
  <2>1. PICK at \in SendHour : reader' = [reader EXCEPT ![r].row = "kept", ![r].at = at]
    BY <1>1 DEF AddReader
  <2> DEFINE new == [reader[r] EXCEPT !.row = "kept", !.at = at]
  <2>2. /\ new \in ReaderType /\ new.row = "kept" /\ new.last = reader[r].last
    BY <1>0 DEF ReaderType
  <2>3. reader' = [reader EXCEPT ![r] = new] BY <2>1
  <2> HIDE DEF new
  <2>4. reader' \in [Reader -> ReaderType] /\ reader'[r] = new /\ OnlyReader(r)
    BY <2>2, <2>3, ReaderWritten
  <2> QED BY <1>1, <2>2, <2>4 DEF AddReader
<1>2. CASE EnableReader(r)
  <2> DEFINE new == [reader[r] EXCEPT !.enabled = TRUE]
  <2>2. /\ new \in ReaderType /\ new.row = reader[r].row /\ new.last = reader[r].last
        /\ new.at = reader[r].at
    BY <1>0 DEF ReaderType
  <2>3. reader' = [reader EXCEPT ![r] = new] BY <1>2 DEF EnableReader
  <2> HIDE DEF new
  <2>4. reader' \in [Reader -> ReaderType] /\ reader'[r] = new /\ OnlyReader(r)
    BY <2>2, <2>3, ReaderWritten
  <2> QED BY <1>2, <2>2, <2>4 DEF EnableReader
<1>3. CASE EditReader(r)
  <2>1. PICK on \in BOOLEAN, at \in SendHour :
          /\ reader' = [reader EXCEPT ![r].enabled = on, ![r].at = at]
          /\ IF Target(at, day) = Target(reader[r].at, day) THEN UNCHANGED excuse ELSE Excused(r)
    BY <1>3 DEF EditReader
  <2> DEFINE new == [reader[r] EXCEPT !.enabled = on, !.at = at]
  <2>2. /\ new \in ReaderType /\ new.row = reader[r].row /\ new.last = reader[r].last
        /\ new.at = at
    BY <1>0 DEF ReaderType
  <2>3. reader' = [reader EXCEPT ![r] = new] BY <2>1
  <2> HIDE DEF new
  <2>4. reader' \in [Reader -> ReaderType] /\ reader'[r] = new /\ OnlyReader(r)
    BY <2>2, <2>3, ReaderWritten
  <2>5. Excused(r) => excuse' = [excuse EXCEPT ![r] = @ + 1] /\ ~UNCHANGED excuse
    BY DEF Excused, ReportTypes
  <2> QED BY <1>3, <2>1, <2>2, <2>4, <2>5 DEF EditReader
<1>4. CASE RemoveReader(r)
  <2> DEFINE new == [reader[r] EXCEPT !.row = "gone", !.enabled = FALSE]
  <2>2. /\ new \in ReaderType /\ new.row = "gone" /\ new.last = reader[r].last
        /\ ~new.enabled
    BY <1>0 DEF ReaderType
  <2>3. reader' = [reader EXCEPT ![r] = new] BY <1>4 DEF RemoveReader
  <2> HIDE DEF new
  <2>4. reader' \in [Reader -> ReaderType] /\ reader'[r] = new /\ OnlyReader(r)
    BY <2>2, <2>3, ReaderWritten
  <2> QED BY <1>4, <2>2, <2>4 DEF RemoveReader
<1> QED BY <1>1, <1>2, <1>3, <1>4

-----------------------------------------------------------------------------
(* What the steps of a sweep write.                                        *)

\* A sweep is done with a row, or is over, mailed an edition, began.
RowDone(s, row) ==
  /\ sweeper' \in [Sweeper -> SweepType] /\ OnlySweep(s)
  /\ sweeper'[s].on = sweeper[s].on /\ sweeper'[s].day = sweeper[s].day
  /\ sweeper'[s].hour = sweeper[s].hour
  /\ sweeper'[s].left = sweeper[s].left \ {row} /\ sweeper'[s].mail = NoMail
SweepOver(s) ==
  sweeper' \in [Sweeper -> SweepType] /\ OnlySweep(s) /\ sweeper'[s] = NoSweep
Mailed(r, e) ==
  /\ editions' \in [Reader -> [Days -> Nat]] /\ editions'[r][e] = editions[r][e] + 1
  /\ \A q \in Reader, d \in Days : q # r \/ d # e => editions'[q][d] = editions[q][d]
Forgiven(r) ==
  /\ excuse' \in [Reader -> Nat] /\ excuse'[r] = excuse[r] + 1
  /\ \A q \in Reader \ {r} : excuse'[q] = excuse[q]

LEMMA EditionMailed ==
  ASSUME ReportTypes, NEW r \in Reader, NEW e \in Days,
         editions' = [editions EXCEPT ![r][e] = @ + 1]
  PROVE  Mailed(r, e)
<1> DEFINE new == [editions[r] EXCEPT ![e] = @ + 1]
<1>1. editions[r] \in [Days -> Nat] BY DEF ReportTypes
<1>2. /\ new \in [Days -> Nat] /\ new[e] = editions[r][e] + 1
      /\ \A d \in Days : d # e => new[d] = editions[r][d]
  BY <1>1
<1>3. editions' = [editions EXCEPT ![r] = new] OBVIOUS
<1> HIDE DEF new
<1> QED BY <1>2, <1>3 DEF Mailed, ReportTypes

LEMMA ReaderForgiven ==
  ASSUME ReportTypes, NEW r \in Reader, excuse' = [excuse EXCEPT ![r] = @ + 1]
  PROVE  Forgiven(r)
BY DEF ReportTypes, Forgiven

LEMMA RowTakenOff ==
  ASSUME ReportTypes, NEW s \in Sweeper, NEW row \in sweeper[s].left,
         \/ sweeper' = [sweeper EXCEPT ![s].mail = NoMail, ![s].left = @ \ {row}]
         \/ sweeper' = [sweeper EXCEPT ![s].left = @ \ {row}] /\ sweeper[s].mail = NoMail
  PROVE  RowDone(s, row)
<1> DEFINE new == [sweeper[s] EXCEPT !.mail = NoMail, !.left = @ \ {row}]
<1>1. sweeper[s] \in SweepType BY DEF ReportTypes
<1>2. /\ new \in SweepType /\ new.on = sweeper[s].on /\ new.day = sweeper[s].day
      /\ new.hour = sweeper[s].hour /\ new.left = sweeper[s].left \ {row} /\ new.mail = NoMail
  BY <1>1, ResetTyped DEF SweepType
<1>3. sweeper' = [sweeper EXCEPT ![s] = new]
  <2>1. CASE sweeper' = [sweeper EXCEPT ![s].mail = NoMail, ![s].left = @ \ {row}]
    BY <2>1, <1>1 DEF SweepType, ReportTypes
  <2>2. CASE sweeper' = [sweeper EXCEPT ![s].left = @ \ {row}] /\ sweeper[s].mail = NoMail
    <3>1. [sweeper[s] EXCEPT !.left = @ \ {row}] = new BY <2>2, <1>1 DEF SweepType
    <3> QED BY <2>2, <3>1
  <2> QED BY <2>1, <2>2
<1> HIDE DEF new
<1> QED BY <1>2, <1>3, SweepMoved DEF RowDone

LEMMA PassStep ==
  ASSUME ReportTypes, NEW s \in Sweeper, NEW row \in sweeper[s].left, PassOver(s, row)
  PROVE  /\ RowDone(s, row) /\ ~Due(s, row) /\ sweeper[s].mail = NoMail
         /\ dealt' = Dealt(s, row)
         /\ UNCHANGED <<clock, reader, editions, excuse>>
BY RowTakenOff DEF PassOver

LEMMA MailStep ==
  ASSUME ReportTypes, NEW s \in Sweeper, NEW row \in sweeper[s].left, MailReport(s, row)
  PROVE  /\ Mailed(row.id, Edition(s, row)) /\ Due(s, row) /\ sweeper[s].mail = NoMail
         /\ sweeper' \in [Sweeper -> SweepType] /\ OnlySweep(s)
         /\ sweeper'[s].on = sweeper[s].on /\ sweeper'[s].day = sweeper[s].day
         /\ sweeper'[s].hour = sweeper[s].hour /\ sweeper'[s].left = sweeper[s].left
         /\ sweeper'[s].mail = [id |-> row.id, edition |-> Edition(s, row)]
         /\ UNCHANGED <<clock, reader, excuse, dealt>>
<1> DEFINE letter == [id |-> row.id, edition |-> Edition(s, row)]
<1> DEFINE new == [sweeper[s] EXCEPT !.mail = letter]
<1>1. sweeper[s] \in SweepType BY DEF ReportTypes
<1>2. row.id \in Reader /\ Edition(s, row) \in Days BY EditionTyped DEF ListedType
<1>3. letter \in MailType BY <1>2 DEF MailType, Stamps
<1>4. sweeper' = [sweeper EXCEPT ![s] = new] BY DEF MailReport
<1>5. Mailed(row.id, Edition(s, row)) BY <1>2, EditionMailed DEF MailReport
<1>6. letter = [id |-> row.id, edition |-> Edition(s, row)] OBVIOUS
<1> HIDE DEF letter
<1>7. /\ new \in SweepType /\ new.on = sweeper[s].on /\ new.day = sweeper[s].day
      /\ new.hour = sweeper[s].hour /\ new.left = sweeper[s].left /\ new.mail = letter
  BY <1>1, <1>3 DEF SweepType
<1> HIDE DEF new
<1>8. sweeper' \in [Sweeper -> SweepType] /\ sweeper'[s] = new /\ OnlySweep(s)
  BY <1>4, <1>7, SweepMoved
<1> QED BY <1>5, <1>6, <1>7, <1>8 DEF MailReport

LEMMA StampStep ==
  ASSUME ReportTypes, NEW s \in Sweeper, StampReport(s)
  PROVE  /\ sweeper[s].mail # NoMail
         /\ \E row \in sweeper[s].left :
              row.id = sweeper[s].mail.id /\ RowDone(s, row) /\ dealt' = Dealt(s, row)
         /\ reader' \in [Reader -> ReaderType] /\ OnlyReader(sweeper[s].mail.id)
         /\ \A q \in Reader : /\ reader'[q].row = reader[q].row /\ reader'[q].at = reader[q].at
                              /\ reader'[q].enabled = reader[q].enabled
         /\ sweeper[s].mail.id \in Reader =>
              reader'[sweeper[s].mail.id].last =
                IF reader[sweeper[s].mail.id].row = "kept" THEN sweeper[s].mail.edition
                                                           ELSE reader[sweeper[s].mail.id].last
         /\ UNCHANGED <<clock, editions, excuse>>
<1> DEFINE r == sweeper[s].mail.id
<1>1. PICK row \in sweeper[s].left :
        /\ row.id = r
        /\ sweeper' = [sweeper EXCEPT ![s].mail = NoMail, ![s].left = @ \ {row}]
        /\ dealt' = Dealt(s, row)
  BY DEF StampReport
<1>2. RowDone(s, row) BY <1>1, RowTakenOff
<1>3. r \in Reader /\ sweeper[s].mail.edition \in Stamps
  BY <1>1, EditionTyped DEF ListedType, ReportTypes, SweepType, MailType
<1>4. /\ reader' = IF reader[r].row = "kept" THEN [reader EXCEPT ![r].last = Stamp(s)] ELSE reader
      /\ sweeper[s].mail # NoMail /\ UNCHANGED <<clock, editions, excuse>>
  BY DEF StampReport
<1>5. Stamp(s) = sweeper[s].mail.edition BY DEF Stamp
<1>6. reader[r] \in ReaderType BY <1>3 DEF ReportTypes
<1> DEFINE new == [reader[r] EXCEPT !.last = Stamp(s)]
<1>7. /\ new \in ReaderType /\ new.row = reader[r].row /\ new.at = reader[r].at
      /\ new.enabled = reader[r].enabled /\ new.last = Stamp(s)
  BY <1>3, <1>5, <1>6 DEF ReaderType
<1>8. reader[r].row = "kept" => reader' = [reader EXCEPT ![r] = new] BY <1>4
<1>9. reader[r].row # "kept" => reader' = reader BY <1>4
<1> HIDE DEF new, r
<1>10. CASE reader[r].row = "kept"
  <2>1. reader' \in [Reader -> ReaderType] /\ reader'[r] = new /\ OnlyReader(r)
    BY <1>3, <1>7, <1>8, <1>10, ReaderWritten
  <2>2. \A q \in Reader : /\ reader'[q].row = reader[q].row /\ reader'[q].at = reader[q].at
                          /\ reader'[q].enabled = reader[q].enabled
    BY <1>3, <1>7, <2>1 DEF OnlyReader
  <2> QED BY <1>1, <1>2, <1>4, <1>5, <1>7, <1>10, <2>1, <2>2 DEF r
<1>11. CASE reader[r].row # "kept"
  <2>1. reader' \in [Reader -> ReaderType] /\ OnlyReader(r) BY <1>9, <1>11 DEF ReportTypes, OnlyReader
  <2> QED BY <1>1, <1>2, <1>4, <1>9, <1>11, <2>1 DEF r
<1> QED BY <1>10, <1>11

LEMMA FailStep ==
  ASSUME ReportTypes, NEW s \in Sweeper, NEW row \in sweeper[s].left, ReportFails(s, row)
  PROVE  /\ RowDone(s, row)
         /\ \/ sweeper[s].mail = NoMail /\ UNCHANGED excuse
            \/ sweeper[s].mail.id = row.id /\ sweeper[s].mail # NoMail /\ Forgiven(row.id)
         /\ UNCHANGED <<clock, reader, editions, dealt>>
<1>1. row.id \in Reader BY EditionTyped DEF ListedType
<1>2. NoMail.id \notin Reader BY ReportAssumption DEF NoMail
<1>3. sweeper[s].mail.id = row.id => sweeper[s].mail # NoMail BY <1>1, <1>2
<1>4. RowDone(s, row) BY RowTakenOff DEF ReportFails
<1>5. Excused(row.id) => Forgiven(row.id) BY <1>1, ReaderForgiven DEF Excused
<1> QED BY <1>3, <1>4, <1>5 DEF ReportFails

LEMMA DieStep ==
  ASSUME ReportTypes, NEW s \in Sweeper, SweeperDies(s),
         sweeper[s].mail # NoMail => sweeper[s].mail.id \in Reader
  PROVE  /\ SweepOver(s)
         /\ \/ sweeper[s].mail = NoMail /\ UNCHANGED excuse
            \/ sweeper[s].mail # NoMail /\ Forgiven(sweeper[s].mail.id)
         /\ UNCHANGED <<clock, reader, editions, dealt>>
<1>1. SweepOver(s) BY ResetTyped, SweepMoved DEF SweeperDies, SweepOver
<1>2. sweeper[s].mail # NoMail => Forgiven(sweeper[s].mail.id)
  BY ReaderForgiven DEF SweeperDies, Excused
<1> QED BY <1>1, <1>2 DEF SweeperDies

LEMMA EndStep ==
  ASSUME ReportTypes, NEW s \in Sweeper, EndSweep(s)
  PROVE  SweepOver(s) /\ UNCHANGED <<clock, reader, editions, excuse, dealt>>
BY ResetTyped, SweepMoved DEF EndSweep, SweepOver

LEMMA StartStep ==
  ASSUME ReportTypes, NEW s \in Sweeper, StartSweep(s)
  PROVE  /\ sweeper' \in [Sweeper -> SweepType] /\ OnlySweep(s)
         /\ SweepsOverlap \/ \A x \in Sweeper : ~sweeper[x].on
         /\ sweeper'[s].on /\ sweeper'[s].day = day /\ sweeper'[s].mail = NoMail
         /\ \A row \in sweeper'[s].left :
              /\ row.id \in Reader /\ reader[row.id].enabled
              /\ row.at = reader[row.id].at /\ row.last = reader[row.id].last
         /\ \A x, y \in sweeper'[s].left : x.id = y.id => x = y
         /\ UNCHANGED <<clock, reader, editions, excuse, dealt>>
<1> DEFINE listed == {[id |-> r, at |-> reader[r].at, last |-> reader[r].last] :
                        r \in {x \in Reader : reader[x].enabled}}
<1> DEFINE new == [NoSweep EXCEPT !.on = TRUE, !.day = day, !.hour = hour, !.left = listed]
<1>1. \A r \in Reader : reader[r].at \in SendHour /\ reader[r].last \in Stamps
  BY DEF ReportTypes, ReaderType
<1>2. listed \subseteq ListedType BY <1>1 DEF ListedType
<1>3. /\ \A row \in listed : /\ row.id \in Reader /\ reader[row.id].enabled
                             /\ row.at = reader[row.id].at /\ row.last = reader[row.id].last
      /\ \A x, y \in listed : x.id = y.id => x = y
  OBVIOUS
<1>4. sweeper' = [sweeper EXCEPT ![s] = new] BY DEF StartSweep
<1> HIDE DEF listed
<1>5. /\ new \in SweepType /\ new.on /\ new.day = day /\ new.mail = NoMail /\ new.left = listed
  BY <1>2, ResetTyped DEF NoSweep, SweepType, ReportTypes
<1> HIDE DEF new
<1>6. sweeper' \in [Sweeper -> SweepType] /\ sweeper'[s] = new /\ OnlySweep(s)
  BY <1>4, <1>5, SweepMoved
<1> QED BY <1>3, <1>5, <1>6 DEF StartSweep

LEMMA TickStep ==
  ASSUME ReportTypes, Tick
  PROVE  /\ day' \in 1 .. LastDay /\ hour' \in 0 .. Midnight /\ dealt' = {}
         /\ day' = day \/ day' = day + 1
         /\ UNCHANGED <<reader, sweeper, editions, excuse>>
BY ReportAssumption DEF Tick, ReportTypes

-----------------------------------------------------------------------------
(* No edition is missed.                                                   *)

\* A row: what staff have not added got nothing, only what they keep is
\* enabled, and a stamp stands for an edition that went out.
RowOK(r) ==
  /\ reader[r].row = "none" => \A d \in Days : editions[r][d] = 0
  /\ reader[r].enabled => reader[r].row = "kept"
  /\ reader[r].last # Never => editions[r][reader[r].last] > 0

\* A sweep's list: one row of a reader, whose stamp stands for an edition that
\* went out; and its letter is the edition of a row it has not finished.
ListOK(s) ==
  /\ \A x, y \in sweeper[s].left : x.id = y.id => x = y
  /\ \A x \in sweeper[s].left : /\ x.last # Never => editions[x.id][x.last] > 0
                                /\ reader[x.id].row # "none"
  /\ ~sweeper[s].on => sweeper[s].left = {} /\ sweeper[s].mail = NoMail
  /\ sweeper[s].day <= day
LetterOK(s) ==
  sweeper[s].mail # NoMail =>
    \E row \in sweeper[s].left :
      /\ row.id = sweeper[s].mail.id /\ row.last # Edition(s, row)
      /\ sweeper[s].mail.edition = Edition(s, row)
      /\ editions[row.id][Edition(s, row)] > 0

\* What DayReported says of a reader, who is on the list still.
DealtOK(r) ==
  /\ reader[r].row = "kept"
  /\ LET edition == Target(reader[r].at, day)
     IN  IncludeWeekends \/ edition \notin Weekend => editions[r][edition] > 0

ReportBase ==
  /\ ReportTypes
  /\ \A r \in Reader : RowOK(r)
  /\ \A s \in Sweeper : ListOK(s) /\ LetterOK(s)
  /\ \A r \in dealt : DealtOK(r)

\* What every step leaves of the rows and of the editions that went out.
Grown == /\ \A q \in Reader, d \in Days : editions'[q][d] >= editions[q][d]
         /\ \A q \in Reader : reader[q].row # "none" => reader'[q].row # "none"
         /\ day <= day'

\* A sweep that takes no part in a step.
LEMMA OtherSweep ==
  ASSUME ReportTypes, ReportTypes', NEW x \in Sweeper, ListOK(x), LetterOK(x),
         sweeper'[x] = sweeper[x], Grown
  PROVE  ListOK(x)' /\ LetterOK(x)'
<1>1. sweeper[x].day \in 1 .. LastDay /\ sweeper[x].left \subseteq ListedType
  BY DEF ReportTypes, SweepType
<1>2. \A row \in sweeper[x].left :
        /\ row.id \in Reader /\ Edition(x, row) \in Days /\ row.last \in Stamps
        /\ Edition(x, row)' = Edition(x, row)
  <2> TAKE row \in sweeper[x].left
  <2>1. row \in ListedType /\ Edition(x, row) \in Days BY EditionTyped
  <2> QED BY <2>1 DEF ListedType, Edition
<1>3. editions \in [Reader -> [Days -> Nat]] /\ editions' \in [Reader -> [Days -> Nat]]
      /\ day \in Nat /\ day' \in Nat
  BY ReportAssumption DEF ReportTypes
<1>4. \A q \in Reader, d \in Days : editions[q][d] > 0 => editions'[q][d] > 0
  BY <1>3 DEF Grown
<1>5. ListOK(x)' BY <1>1, <1>2, <1>3, <1>4 DEF ListOK, Grown, Stamps
<1>6. LetterOK(x)'
  <2> SUFFICES ASSUME sweeper[x].mail # NoMail
               PROVE  \E row \in sweeper[x].left :
                        /\ row.id = sweeper[x].mail.id /\ row.last # Edition(x, row)
                        /\ sweeper[x].mail.edition = Edition(x, row)
                        /\ editions'[row.id][Edition(x, row)] > 0
    BY <1>2 DEF LetterOK
  <2> QED BY <1>2, <1>4 DEF LetterOK
<1> QED BY <1>5, <1>6

\* A sweep that is done with a row, or over.
LEMMA DoneSweep ==
  ASSUME ReportTypes, ReportTypes', NEW s \in Sweeper, NEW row \in sweeper[s].left,
         RowDone(s, row), ListOK(s), Grown
  PROVE  ListOK(s)' /\ LetterOK(s)'
<1>1. sweeper[s].day \in 1 .. LastDay /\ sweeper[s].left \subseteq ListedType
  BY DEF ReportTypes, SweepType
<1>2. \A x \in sweeper[s].left : x.id \in Reader /\ x.last \in Stamps BY <1>1 DEF ListedType
<1>3. editions \in [Reader -> [Days -> Nat]] /\ editions' \in [Reader -> [Days -> Nat]]
      /\ day \in Nat /\ day' \in Nat
  BY ReportAssumption DEF ReportTypes
<1>4. \A q \in Reader, d \in Days : editions[q][d] > 0 => editions'[q][d] > 0
  BY <1>3 DEF Grown
<1>5. ListOK(s)' BY <1>1, <1>2, <1>3, <1>4 DEF ListOK, Grown, Stamps, RowDone
<1> QED BY <1>5 DEF LetterOK, RowDone

LEMMA OverSweep ==
  ASSUME ReportTypes', NEW s \in Sweeper, SweepOver(s)
  PROVE  ListOK(s)' /\ LetterOK(s)'
BY DEF SweepOver, NoSweep, ListOK, LetterOK, ReportTypes

\* A reader the sweep of the last moment is done with.
LEMMA DealtRow ==
  ASSUME ReportBase, NEW s \in Sweeper, NEW row \in sweeper[s].left, NEW r \in Dealt(s, row),
         sweeper[s].hour >= row.at /\ (IncludeWeekends \/ Edition(s, row) \notin Weekend)
           => editions[row.id][Edition(s, row)] > 0
  PROVE  r \in Reader /\ DealtOK(r)
<1>1. row \in ListedType BY EditionTyped DEF ReportBase
<1>2. CASE r \in dealt BY <1>2 DEF ReportBase, ReportTypes
<1>3. CASE r \notin dealt
  <2>1. /\ r = row.id /\ sweeper[s].day = day /\ sweeper[s].hour = Midnight
        /\ reader[r].enabled /\ reader[r].at = row.at
    BY <1>3 DEF Dealt
  <2>2. r \in Reader /\ row.at \in 0 .. Midnight BY <1>1, <2>1, ReportAssumption DEF ListedType
  <2>3. Edition(s, row) = Target(reader[r].at, day) BY <2>1 DEF Edition
  <2>4. sweeper[s].hour >= row.at BY <2>1, <2>2, ReportAssumption
  <2>5. reader[r].row = "kept" BY <2>1, <2>2 DEF ReportBase, RowOK
  <2> QED BY <2>1, <2>2, <2>3, <2>4, <2>5 DEF DealtOK
<1> QED BY <1>2, <1>3

\* An edition's row is not written by anything but a sweep's stamp and staff.
LEMMA SameRow ==
  ASSUME ReportTypes, ReportTypes', NEW q \in Reader, RowOK(q), reader'[q] = reader[q],
         reader[q].row # "none" \/ UNCHANGED editions, Grown
  PROVE  RowOK(q)'
<1>1. reader[q].last \in Stamps BY DEF ReportTypes, ReaderType
<1>2. \A d \in Days : editions[q][d] \in Nat /\ editions'[q][d] \in Nat BY DEF ReportTypes
<1> QED BY <1>1, <1>2 DEF RowOK, Grown, Stamps

LEMMA BaseInit == ReportInit => ReportBase
<1> SUFFICES ASSUME ReportInit PROVE ReportBase OBVIOUS
<1>1. NoRow \in ReaderType /\ NoRow.row = "none" /\ ~NoRow.enabled /\ NoRow.last = Never
  BY ReportAssumption DEF NoRow, ReaderType, Stamps, Never
<1> HIDE DEF NoRow
<1>2. ReportTypes
  BY <1>1, ResetTyped, ReportAssumption DEF ReportTypes, ReportInit, Days
<1>3. \A r \in Reader : RowOK(r) BY <1>1 DEF ReportInit, RowOK, Days
<1>4. \A s \in Sweeper : ListOK(s) /\ LetterOK(s)
  BY DEF ReportInit, ListOK, LetterOK, NoSweep
<1> QED BY <1>2, <1>3, <1>4 DEF ReportBase, ReportInit

LEMMA BaseTick == ASSUME ReportBase, Tick PROVE ReportBase'
<1>1. /\ day' \in 1 .. LastDay /\ hour' \in 0 .. Midnight /\ dealt' = {}
      /\ day' = day \/ day' = day + 1
      /\ UNCHANGED <<reader, sweeper, editions, excuse>>
  BY TickStep DEF ReportBase
<1>2. ReportTypes /\ ReportTypes' BY <1>1 DEF ReportBase, ReportTypes
<1>3. Grown BY <1>1, ReportAssumption DEF Grown, ReportBase, ReportTypes
<1>4. \A r \in Reader : RowOK(r)' BY <1>1 DEF ReportBase, RowOK
<1>5. \A s \in Sweeper : ListOK(s)' /\ LetterOK(s)' BY <1>1, <1>2, <1>3, OtherSweep DEF ReportBase
<1> QED BY <1>1, <1>2, <1>4, <1>5 DEF ReportBase

LEMMA BaseStaff ==
  ASSUME ReportBase, NEW r \in Reader,
         AddReader(r) \/ EnableReader(r) \/ EditReader(r) \/ RemoveReader(r)
  PROVE  ReportBase'
<1>0. ReportTypes BY DEF ReportBase
<1>1. /\ UNCHANGED <<clock, sweeper, editions>>
      /\ reader' \in [Reader -> ReaderType] /\ OnlyReader(r)
      /\ reader'[r].row \in {"kept", "gone"} /\ reader'[r].last = reader[r].last
      /\ reader'[r].enabled => reader'[r].row = "kept" \/ (reader[r].enabled /\ reader[r].row = "none")
      /\ dealt' \subseteq dealt
      /\ r \in dealt' => /\ reader[r].row \in {"none", "kept"} /\ UNCHANGED excuse
                         /\ reader[r].row = "kept" => reader'[r].row = "kept" /\ reader'[r].at = reader[r].at
      /\ \/ UNCHANGED excuse
         \/ excuse' = [excuse EXCEPT ![r] = @ + 1]
  BY <1>0, StaffStep
<1>2. excuse' \in [Reader -> Nat] BY <1>0, <1>1 DEF ReportTypes
<1>3. ReportTypes' BY <1>0, <1>1, <1>2 DEF ReportTypes, clock
<1>4. Grown BY <1>0, <1>1, ReportAssumption DEF Grown, OnlyReader, ReportTypes, clock
<1>5. \A q \in Reader : RowOK(q)'
  <2>1. RowOK(r)' BY <1>1 DEF RowOK, ReportBase
  <2>2. \A q \in Reader \ {r} : RowOK(q)'
    BY <1>0, <1>1, <1>3, <1>4, SameRow DEF OnlyReader, ReportBase
  <2> QED BY <2>1, <2>2
<1>6. \A s \in Sweeper : ListOK(s)' /\ LetterOK(s)'
  BY <1>0, <1>1, <1>3, <1>4, OtherSweep DEF ReportBase
<1>7. \A q \in dealt' : DealtOK(q)'
  BY <1>0, <1>1 DEF ReportBase, DealtOK, OnlyReader, clock, ReportTypes
<1> QED BY <1>3, <1>5, <1>6, <1>7 DEF ReportBase

\* A sweep goes on to the next row: what is written is its list and the set dealt.
LEMMA BaseDone ==
  ASSUME ReportBase, NEW s \in Sweeper, NEW row \in sweeper[s].left, RowDone(s, row),
         excuse' \in [Reader -> Nat], UNCHANGED <<clock, editions>>,
         reader' \in [Reader -> ReaderType],
         \A q \in Reader : /\ RowOK(q)'
                           /\ reader'[q].row = reader[q].row /\ reader'[q].at = reader[q].at,
         \A r \in dealt' : r \in Reader /\ DealtOK(r)
  PROVE  ReportBase'
<1>0. ReportTypes BY DEF ReportBase
<1>1. ReportTypes' BY <1>0 DEF ReportTypes, clock, RowDone
<1>2. Grown BY <1>0, ReportAssumption DEF Grown, ReportTypes, clock
<1>3. \A x \in Sweeper : ListOK(x)' /\ LetterOK(x)'
  <2>1. ListOK(s)' /\ LetterOK(s)' BY <1>0, <1>1, <1>2, DoneSweep DEF ReportBase
  <2>2. \A x \in Sweeper \ {s} : ListOK(x)' /\ LetterOK(x)'
    BY <1>0, <1>1, <1>2, OtherSweep DEF ReportBase, RowDone, OnlySweep
  <2> QED BY <2>1, <2>2
<1>4. \A r \in dealt' : DealtOK(r)' BY DEF DealtOK, clock
<1> QED BY <1>1, <1>3, <1>4 DEF ReportBase

LEMMA BaseOver ==
  ASSUME ReportBase, NEW s \in Sweeper, SweepOver(s), excuse' \in [Reader -> Nat],
         UNCHANGED <<clock, editions, reader, dealt>>
  PROVE  ReportBase'
<1>0. ReportTypes BY DEF ReportBase
<1>1. ReportTypes' BY <1>0 DEF ReportTypes, clock, SweepOver
<1>2. Grown BY <1>0, ReportAssumption DEF Grown, ReportTypes, clock
<1>3. \A x \in Sweeper : ListOK(x)' /\ LetterOK(x)'
  <2>1. ListOK(s)' /\ LetterOK(s)' BY <1>1, OverSweep
  <2>2. \A x \in Sweeper \ {s} : ListOK(x)' /\ LetterOK(x)'
    BY <1>0, <1>1, <1>2, OtherSweep DEF ReportBase, SweepOver, OnlySweep
  <2> QED BY <2>1, <2>2
<1>4. \A q \in Reader : RowOK(q)' BY DEF ReportBase, RowOK
<1> QED BY <1>1, <1>3, <1>4 DEF ReportBase, DealtOK, clock

LEMMA BasePass ==
  ASSUME ReportBase, NEW s \in Sweeper, NEW row \in sweeper[s].left, PassOver(s, row)
  PROVE  ReportBase'
<1>0. ReportTypes BY DEF ReportBase
<1>1. /\ RowDone(s, row) /\ ~Due(s, row) /\ dealt' = Dealt(s, row)
      /\ UNCHANGED <<clock, reader, editions, excuse>>
  BY <1>0, PassStep
<1>2. row \in ListedType /\ Edition(s, row) \in Days BY <1>0, EditionTyped
<1>3. Edition(s, row) # Never BY <1>2 DEF Days, Never
<1>4. row.last = Edition(s, row) => editions[row.id][Edition(s, row)] > 0
  BY <1>3 DEF ReportBase, ListOK
<1>5. \A r \in dealt' : r \in Reader /\ DealtOK(r) BY <1>1, <1>4, DealtRow DEF Due
<1>6. \A q \in Reader : RowOK(q)' BY <1>1 DEF ReportBase, RowOK
<1>7. excuse' \in [Reader -> Nat] /\ reader' \in [Reader -> ReaderType] BY <1>0, <1>1 DEF ReportTypes
<1> QED BY <1>1, <1>5, <1>6, <1>7, BaseDone

LEMMA BaseMail ==
  ASSUME ReportBase, NEW s \in Sweeper, NEW row \in sweeper[s].left, MailReport(s, row)
  PROVE  ReportBase'
<1>0. ReportTypes BY DEF ReportBase
<1>1. /\ Mailed(row.id, Edition(s, row)) /\ Due(s, row) /\ sweeper[s].mail = NoMail
      /\ sweeper' \in [Sweeper -> SweepType] /\ OnlySweep(s)
      /\ sweeper'[s].on = sweeper[s].on /\ sweeper'[s].day = sweeper[s].day
      /\ sweeper'[s].left = sweeper[s].left
      /\ sweeper'[s].mail = [id |-> row.id, edition |-> Edition(s, row)]
      /\ UNCHANGED <<clock, reader, excuse, dealt>>
  BY <1>0, MailStep
<1>2. row.id \in Reader /\ Edition(s, row) \in Days BY <1>0, EditionTyped DEF ListedType
<1>3. ReportTypes' BY <1>0, <1>1 DEF ReportTypes, clock, Mailed
<1>4. \A q \in Reader, d \in Days :
        editions[q][d] \in Nat /\ editions'[q][d] \in Nat /\ editions'[q][d] >= editions[q][d]
  <2>1. \A q \in Reader, d \in Days : editions[q][d] \in Nat BY <1>0 DEF ReportTypes
  <2> QED BY <1>1, <1>2, <2>1 DEF Mailed
<1>5. Grown BY <1>0, <1>1, <1>4, ReportAssumption DEF Grown, ReportTypes, clock
<1>6. \A q \in Reader : RowOK(q)'
  <2>1. reader[row.id].row # "none" BY DEF ReportBase, ListOK
  <2>2. RowOK(row.id)' BY <1>0, <1>1, <1>2, <1>3, <1>5, <2>1, SameRow DEF ReportBase
  <2>3. ASSUME NEW q \in Reader \ {row.id} PROVE RowOK(q)'
    <3>1. \A d \in Days : editions'[q][d] = editions[q][d] BY <1>1 DEF Mailed
    <3>2. reader[q].last \in Stamps BY <1>0 DEF ReportTypes, ReaderType
    <3> QED BY <1>1, <3>1, <3>2 DEF ReportBase, RowOK, Stamps
  <2> QED BY <2>2, <2>3
<1>7. \A x \in Sweeper : ListOK(x)' /\ LetterOK(x)'
  <2>1. \A x \in Sweeper \ {s} : ListOK(x)' /\ LetterOK(x)'
    BY <1>0, <1>1, <1>3, <1>5, OtherSweep DEF ReportBase, OnlySweep
  <2>2. sweeper[s].left \subseteq ListedType /\ sweeper[s].left # {} BY <1>0 DEF ReportTypes, SweepType
  <2>3. \A x \in sweeper[s].left : x.id \in Reader /\ x.last \in Stamps BY <2>2 DEF ListedType
  <2>4. \A q \in Reader, d \in Days : editions[q][d] > 0 => editions'[q][d] > 0 BY <1>4
  <2>5. ListOK(s)' BY <1>1, <2>2, <2>3, <2>4 DEF ReportBase, ListOK, Stamps, clock
  <2>6. Edition(s, row)' = Edition(s, row) BY <1>1 DEF Edition
  <2>7. editions'[row.id][Edition(s, row)] > 0 BY <1>1, <1>2, <1>4 DEF Mailed
  <2>8. row.last # Edition(s, row) BY <1>1 DEF Due
  <2>9. LetterOK(s)'
    <3>1. /\ row.id = sweeper'[s].mail.id /\ row.last # Edition(s, row)'
          /\ sweeper'[s].mail.edition = Edition(s, row)'
          /\ editions'[row.id][Edition(s, row)'] > 0 /\ row \in sweeper'[s].left
      BY <1>1, <2>6, <2>7, <2>8
    <3> QED BY <3>1 DEF LetterOK
  <2> QED BY <2>1, <2>5, <2>9
<1>8. \A r \in dealt' : DealtOK(r)'
  <2> TAKE r \in dealt'
  <2>1. r \in Reader /\ DealtOK(r) BY <1>0, <1>1 DEF ReportBase, ReportTypes
  <2>2. Target(reader[r].at, day) \in Days BY <1>0, <2>1, TargetTyped DEF ReportTypes, ReaderType
  <2>3. editions[r][Target(reader[r].at, day)] > 0 => editions'[r][Target(reader[r].at, day)] > 0
    BY <1>4, <2>1, <2>2
  <2> QED BY <1>1, <2>1, <2>3 DEF DealtOK, clock
<1> QED BY <1>3, <1>6, <1>7, <1>8 DEF ReportBase

\* The letter is the one row's.
LEMMA LetterRow ==
  ASSUME ReportBase, NEW s \in Sweeper, NEW row \in sweeper[s].left,
         row.id = sweeper[s].mail.id, sweeper[s].mail # NoMail
  PROVE  /\ row.last # Edition(s, row) /\ sweeper[s].mail.edition = Edition(s, row)
         /\ editions[row.id][Edition(s, row)] > 0
<1>1. PICK own \in sweeper[s].left :
        /\ own.id = sweeper[s].mail.id /\ own.last # Edition(s, own)
        /\ sweeper[s].mail.edition = Edition(s, own)
        /\ editions[own.id][Edition(s, own)] > 0
  BY DEF ReportBase, LetterOK
<1>2. own = row BY <1>1 DEF ReportBase, ListOK
<1> QED BY <1>1, <1>2

LEMMA BaseStamp == ASSUME ReportBase, NEW s \in Sweeper, StampReport(s) PROVE ReportBase'
<1>0. ReportTypes BY DEF ReportBase
<1> DEFINE r == sweeper[s].mail.id
<1>1. /\ sweeper[s].mail # NoMail
      /\ \E row \in sweeper[s].left : row.id = r /\ RowDone(s, row) /\ dealt' = Dealt(s, row)
      /\ reader' \in [Reader -> ReaderType] /\ OnlyReader(r)
      /\ \A q \in Reader : /\ reader'[q].row = reader[q].row /\ reader'[q].at = reader[q].at
                           /\ reader'[q].enabled = reader[q].enabled
      /\ r \in Reader => reader'[r].last = IF reader[r].row = "kept" THEN sweeper[s].mail.edition
                                                                     ELSE reader[r].last
      /\ UNCHANGED <<clock, editions, excuse>>
  BY <1>0, StampStep
<1>2. PICK row \in sweeper[s].left : row.id = r /\ RowDone(s, row) /\ dealt' = Dealt(s, row)
  BY <1>1
<1>3. r \in Reader /\ Edition(s, row) \in Days BY <1>0, <1>2, EditionTyped DEF ListedType
<1>4. sweeper[s].mail.edition = Edition(s, row) /\ editions[r][Edition(s, row)] > 0
  BY <1>1, <1>2, LetterRow
<1>5. \A q \in dealt' : q \in Reader /\ DealtOK(q) BY <1>2, <1>4, DealtRow
<1>6. \A q \in Reader : RowOK(q)'
  <2>1. RowOK(row.id)' BY <1>1, <1>2, <1>3, <1>4 DEF ReportBase, RowOK
  <2>2. \A q \in Reader \ {row.id} : RowOK(q)' BY <1>1, <1>2 DEF ReportBase, RowOK, OnlyReader
  <2> QED BY <2>1, <2>2
<1>7. excuse' \in [Reader -> Nat] BY <1>0, <1>1 DEF ReportTypes
<1> QED BY <1>1, <1>2, <1>5, <1>6, <1>7, BaseDone

LEMMA BaseStart == ASSUME ReportBase, NEW s \in Sweeper, StartSweep(s) PROVE ReportBase'
<1>0. ReportTypes BY DEF ReportBase
<1>1. /\ sweeper' \in [Sweeper -> SweepType] /\ OnlySweep(s)
      /\ sweeper'[s].on /\ sweeper'[s].day = day /\ sweeper'[s].mail = NoMail
      /\ \A row \in sweeper'[s].left :
           /\ row.id \in Reader /\ reader[row.id].enabled
           /\ row.at = reader[row.id].at /\ row.last = reader[row.id].last
      /\ \A x, y \in sweeper'[s].left : x.id = y.id => x = y
      /\ UNCHANGED <<clock, reader, editions, excuse, dealt>>
  BY <1>0, StartStep
<1>2. ReportTypes' BY <1>0, <1>1 DEF ReportTypes, clock
<1>3. Grown BY <1>0, <1>1, ReportAssumption DEF Grown, ReportTypes, clock
<1>4. \A x \in Sweeper : ListOK(x)' /\ LetterOK(x)'
  <2>1. \A x \in Sweeper \ {s} : ListOK(x)' /\ LetterOK(x)'
    BY <1>0, <1>1, <1>2, <1>3, OtherSweep DEF ReportBase, OnlySweep
  <2>2. \A row \in sweeper'[s].left :
          /\ row.last # Never => editions[row.id][row.last] > 0
          /\ reader[row.id].row # "none"
    BY <1>1 DEF ReportBase, RowOK
  <2>3. day \in Nat BY <1>0, ReportAssumption DEF ReportTypes
  <2>4. ListOK(s)' BY <1>1, <2>2, <2>3 DEF ListOK, clock
  <2>5. LetterOK(s)' BY <1>1 DEF LetterOK
  <2> QED BY <2>1, <2>4, <2>5
<1>5. \A q \in Reader : RowOK(q)' BY <1>1 DEF ReportBase, RowOK
<1> QED BY <1>1, <1>2, <1>4, <1>5 DEF ReportBase, DealtOK, clock

LEMMA LetterToReader ==
  ASSUME ReportBase, NEW s \in Sweeper, sweeper[s].mail # NoMail
  PROVE  sweeper[s].mail.id \in Reader
BY EditionTyped DEF ReportBase, LetterOK, ListedType

LEMMA BaseEnd ==
  ASSUME ReportBase, NEW s \in Sweeper, SweeperDies(s) \/ EndSweep(s)
  PROVE  ReportBase'
<1>0. ReportTypes BY DEF ReportBase
<1>1. CASE SweeperDies(s)
  <2>1. SweepOver(s) /\ UNCHANGED <<clock, reader, editions, dealt>> /\ excuse' \in [Reader -> Nat]
    BY <1>0, <1>1, LetterToReader, DieStep DEF Forgiven, ReportTypes
  <2> QED BY <2>1, BaseOver
<1>2. CASE EndSweep(s)
  <2>1. SweepOver(s) /\ UNCHANGED <<clock, reader, editions, dealt, excuse>> BY <1>0, <1>2, EndStep
  <2>2. excuse' \in [Reader -> Nat] BY <1>0, <2>1 DEF ReportTypes
  <2> QED BY <2>1, <2>2, BaseOver
<1> QED BY <1>1, <1>2

LEMMA BaseFails ==
  ASSUME ReportBase, NEW s \in Sweeper, NEW row \in sweeper[s].left, ReportFails(s, row)
  PROVE  ReportBase'
<1>0. ReportTypes BY DEF ReportBase
<1>1. /\ RowDone(s, row) /\ excuse' \in [Reader -> Nat]
      /\ UNCHANGED <<clock, reader, editions, dealt>>
  BY <1>0, FailStep DEF Forgiven, ReportTypes
<1>2. \A q \in Reader : RowOK(q)' BY <1>1 DEF ReportBase, RowOK
<1>3. reader' \in [Reader -> ReaderType] BY <1>0, <1>1 DEF ReportTypes
<1>4. \A r \in dealt' : r \in Reader /\ DealtOK(r) BY <1>0, <1>1 DEF ReportBase, ReportTypes
<1> QED BY <1>1, <1>2, <1>3, <1>4, BaseDone

LEMMA BaseStutter == ASSUME ReportBase, UNCHANGED reportVars PROVE ReportBase'
BY DEF ReportBase, ReportTypes, RowOK, ListOK, LetterOK, DealtOK, Edition, reportVars, clock

LEMMA BaseStep == ReportBase /\ [ReportNext]_reportVars => ReportBase'
<1> SUFFICES ASSUME ReportBase, [ReportNext]_reportVars PROVE ReportBase' OBVIOUS
<1>1. CASE Tick BY <1>1, BaseTick
<1>2. ASSUME NEW r \in Reader,
             AddReader(r) \/ EnableReader(r) \/ EditReader(r) \/ RemoveReader(r)
      PROVE  ReportBase'
  BY <1>2, BaseStaff
<1>3. ASSUME NEW s \in Sweeper, StartSweep(s) \/ StampReport(s) \/ SweeperDies(s) \/ EndSweep(s)
      PROVE  ReportBase'
  BY <1>3, BaseStart, BaseStamp, BaseEnd
<1>4. ASSUME NEW s \in Sweeper, NEW row \in sweeper[s].left,
             PassOver(s, row) \/ MailReport(s, row) \/ ReportFails(s, row)
      PROVE  ReportBase'
  BY <1>4, BasePass, BaseMail, BaseFails
<1>5. CASE UNCHANGED reportVars BY <1>5, BaseStutter
<1> QED BY <1>1, <1>2, <1>3, <1>4, <1>5 DEF ReportNext

\* No working day is skipped: once the sweep of the day's last moment is done
\* with a reader, the edition due that day has gone out, whichever sweeps ran,
\* failed or died before it and however many ran at once.
THEOREM NoDaySkipped == ReportSpec => []DayReported
<1>1. ReportBase => DayReported BY DEF ReportBase, DealtOK, DayReported
<1> QED BY <1>1, BaseInit, BaseStep, PTL DEF ReportSpec

LEMMA EventsCounted ==
  ASSUME reportEvents \in 0 .. MaxReportEvents, [ReportNext]_reportVars
  PROVE  reportEvents' \in 0 .. MaxReportEvents
<1>1. ReportEvent => reportEvents' \in 0 .. MaxReportEvents
  BY ReportAssumption DEF ReportEvent
<1>2. ReportEvent \/ UNCHANGED reportEvents
  BY DEF ReportNext, reportVars, Tick, AddReader, EnableReader, EditReader, RemoveReader, StartSweep,
         StampReport, SweeperDies, EndSweep, PassOver, MailReport, ReportFails
<1> QED BY <1>1, <1>2

\* Every variable of the report has its type.
THEOREM ReportTyped == ReportSpec => []ReportTypeOK
<1> DEFINE Counted == reportEvents \in 0 .. MaxReportEvents
<1>1. ReportInit => Counted BY ReportAssumption DEF ReportInit
<1>2. Counted /\ [ReportNext]_reportVars => Counted' BY EventsCounted
<1>3. ReportBase /\ Counted => ReportTypeOK
  <2> SUFFICES ASSUME ReportBase, Counted PROVE ReportTypeOK OBVIOUS
  <2>1. ReportTypes BY DEF ReportBase
  <2>2. ASSUME NEW s \in Sweeper
        PROVE  /\ sweeper[s].on \in BOOLEAN /\ \A row \in sweeper[s].left : row.id \in Reader
               /\ sweeper[s].mail.id \in Reader \cup {"none"}
    <3>1. sweeper[s] \in SweepType BY <2>1 DEF ReportTypes
    <3> QED BY <3>1 DEF SweepType, ListedType, MailType
  <2>3. reader \in [Reader -> [row : {"none", "kept", "gone"}, enabled : BOOLEAN, at : SendHour,
                               last : {Never} \cup 0 .. LastDay]]
    BY <2>1 DEF ReportTypes, ReaderType, Stamps, Days
  <2>4. /\ day \in 1 .. LastDay /\ hour \in 0 .. Midnight
        /\ editions \in [Reader -> [0 .. LastDay -> Nat]]
        /\ excuse \in [Reader -> Nat] /\ dealt \subseteq Reader
    BY <2>1 DEF ReportTypes, Days
  <2> QED BY <2>2, <2>3, <2>4 DEF ReportTypeOK
<1> QED BY <1>1, <1>2, <1>3, BaseInit, BaseStep, PTL DEF ReportSpec

-----------------------------------------------------------------------------
(* No edition goes out twice, when one sweep runs at a time.  The argument  *)
(* is about what a mail still owed to a reader would find: the edition a    *)
(* listed row leads to is paid for, that is, went out only as often as      *)
(* there were excuses.                                                      *)

Current(r)   == Target(reader[r].at, day)
Paid(r, d)   == editions[r][d] <= excuse[r]
Flying(r, d) == \E s \in Sweeper : sweeper[s].mail.id = r /\ sweeper[s].mail.edition = d

OneSweep == \A s, x \in Sweeper : sweeper[s].on /\ sweeper[x].on => s = x
RowPaid(r) ==
  reader[r].row = "kept" =>
    \A d \in Days : d >= Current(r) =>
      Paid(r, d) \/ (d = Current(r) /\ (reader[r].last = d \/ Flying(r, d)))
ListPaid(s) ==
  \A row \in sweeper[s].left :
    row.last # Edition(s, row) =>
      /\ sweeper[s].mail.id # row.id =>
           /\ Paid(row.id, Edition(s, row))
           /\ reader[row.id].row = "kept" /\ Edition(s, row) > Current(row.id) =>
                editions[row.id][Edition(s, row)] + 1 <= excuse[row.id]
      /\ reader[row.id].row = "kept" =>
           Paid(row.id, Current(row.id)) \/ Flying(row.id, Current(row.id))
OnceInv ==
  /\ OneSweep /\ SentOnce
  /\ \A r \in Reader : RowPaid(r)
  /\ \A s \in Sweeper : ListPaid(s)

\* The values the argument compares.
LEMMA Counts ==
  ASSUME ReportTypes
  PROVE  /\ \A r \in Reader : /\ Current(r) \in Days /\ excuse[r] \in Nat
                              /\ \A d \in Days : editions[r][d] \in Nat
         /\ \A s \in Sweeper : \A row \in sweeper[s].left :
              row.id \in Reader /\ row.last \in Stamps /\ Edition(s, row) \in Days
<1>1. \A r \in Reader : reader[r].at \in SendHour BY DEF ReportTypes, ReaderType
<1> QED BY <1>1, TargetTyped, EditionTyped DEF ReportTypes, Current, ListedType

LEMMA CountsNext ==
  ASSUME ReportTypes'
  PROVE  \A r \in Reader : /\ Current(r)' \in Days /\ excuse'[r] \in Nat
                           /\ \A d \in Days : editions'[r][d] \in Nat
<1>1. \A r \in Reader : reader'[r].at \in SendHour BY DEF ReportTypes, ReaderType
<1> QED BY <1>1, TargetTyped DEF ReportTypes, Current

\* Another excuse pays for every edition of a reader.
LEMMA ForgivenPays ==
  ASSUME ReportTypes, SentOnce, NEW r \in Reader, Forgiven(r), UNCHANGED editions
  PROVE  \A d \in Days : Paid(r, d)'
BY Counts DEF SentOnce, Forgiven, Paid, Days

\* While a sweep runs, the others have no list and no letter.
LEMMA Alone ==
  ASSUME ReportBase, OneSweep, NEW s \in Sweeper, sweeper[s].on
  PROVE  /\ \A x \in Sweeper \ {s} : sweeper[x].left = {} /\ sweeper[x].mail = NoMail
         /\ \A r \in Reader, d \in Days :
              Flying(r, d) <=> sweeper[s].mail.id = r /\ sweeper[s].mail.edition = d
<1>1. \A x \in Sweeper \ {s} : sweeper[x].left = {} /\ sweeper[x].mail = NoMail
  BY DEF ReportBase, ListOK, OneSweep
<1>2. NoMail.id \notin Reader BY ReportAssumption DEF NoMail
<1> QED BY <1>1, <1>2 DEF Flying

LEMMA OnceInit == ReportInit => OnceInv
<1> SUFFICES ASSUME ReportInit PROVE OnceInv OBVIOUS
<1>1. \A r \in Reader, d \in Days : editions[r][d] = 0 /\ excuse[r] = 0 BY DEF ReportInit, Days
<1>2. \A s \in Sweeper : sweeper[s].left = {} /\ ~sweeper[s].on BY DEF ReportInit, NoSweep
<1> QED BY <1>1, <1>2 DEF OnceInv, OneSweep, SentOnce, RowPaid, ListPaid, Paid, Days

LEMMA OnceTick == ASSUME ReportBase, OnceInv, Tick PROVE OnceInv'
<1>0. ReportTypes /\ ReportTypes' BY BaseTick DEF ReportBase
<1>1. (day' = day \/ day' = day + 1) /\ UNCHANGED <<reader, sweeper, editions, excuse>>
  BY <1>0, TickStep
<1>2. \A r \in Reader : /\ Current(r) \in Days /\ Current(r)' \in Days
                        /\ Current(r)' = Current(r) \/ Current(r)' = Current(r) + 1
  <2>1. day \in Int /\ day' \in Int BY <1>0, ReportAssumption DEF ReportTypes
  <2>2. \A r \in Reader : Current(r)' = Current(r) \/ Current(r)' = Current(r) + 1
    <3> SUFFICES ASSUME NEW r \in Reader
                 PROVE  Current(r)' = Current(r) \/ Current(r)' = Current(r) + 1
      OBVIOUS
    <3>1. Current(r) \in Int /\ Current(r)' \in Int
      BY <1>0, ReportAssumption, Counts, CountsNext DEF Days
    <3>2. CASE reader[r].at >= Close
      <4>1. Current(r)' = day' /\ Current(r) = day BY <1>1, <3>2 DEF Current, Target
      <4> QED BY <1>1, <4>1
    <3>3. CASE ~(reader[r].at >= Close)
      <4>1. Current(r)' = day' - 1 /\ Current(r) = day - 1 BY <1>1, <3>3 DEF Current, Target
      <4>2. \A a, b, x, y \in Int : /\ a = x - 1 /\ b = y - 1 /\ (y = x \/ y = x + 1)
                                     => b = a \/ b = a + 1
        OBVIOUS
      <4> QED BY <1>1, <2>1, <3>1, <4>1, <4>2
    <3> QED BY <3>2, <3>3
  <2> QED BY <1>0, <2>2, Counts, CountsNext
<1>3. \A r \in Reader, d \in Days : Flying(r, d)' <=> Flying(r, d) BY <1>1 DEF Flying
<1>4. \A r \in Reader, d \in Days : Paid(r, d)' <=> Paid(r, d) BY <1>1 DEF Paid
<1>5. \A r \in Reader : reader[r].row = "kept" /\ Current(r)' # Current(r) => Paid(r, Current(r)')
  BY <1>2 DEF OnceInv, RowPaid, Days
<1>6. \A r \in Reader : RowPaid(r)' BY <1>1, <1>2, <1>3, <1>4 DEF OnceInv, RowPaid, Days
<1>7. \A s \in Sweeper : ListPaid(s)'
  <2> SUFFICES ASSUME NEW s \in Sweeper, NEW row \in sweeper[s].left, row.last # Edition(s, row)
               PROVE  /\ sweeper[s].mail.id # row.id =>
                           /\ Paid(row.id, Edition(s, row))
                           /\ reader[row.id].row = "kept" /\ Edition(s, row) > Current(row.id)' =>
                                editions[row.id][Edition(s, row)] + 1 <= excuse[row.id]
                      /\ reader[row.id].row = "kept" =>
                           Paid(row.id, Current(row.id)') \/ Flying(row.id, Current(row.id)')
    BY <1>1 DEF ListPaid, Edition, Paid, Flying
  <2>1. row.id \in Reader /\ Edition(s, row) \in Days BY <1>0, Counts
  <2>2. /\ sweeper[s].mail.id # row.id =>
             /\ Paid(row.id, Edition(s, row))
             /\ reader[row.id].row = "kept" /\ Edition(s, row) > Current(row.id) =>
                  editions[row.id][Edition(s, row)] + 1 <= excuse[row.id]
        /\ reader[row.id].row = "kept" =>
             Paid(row.id, Current(row.id)) \/ Flying(row.id, Current(row.id))
    BY DEF OnceInv, ListPaid
  <2>3. Edition(s, row) > Current(row.id)' => Edition(s, row) > Current(row.id)
    BY <1>2, <2>1 DEF Days
  <2> QED BY <1>2, <1>5, <2>1, <2>2, <2>3
<1> QED BY <1>1, <1>6, <1>7 DEF OnceInv, OneSweep, SentOnce

\* Staff: a row that stays on the list keeps its edition, or it is excused.
LEMMA OnceStaff ==
  ASSUME ReportBase, OnceInv, NEW r \in Reader,
         AddReader(r) \/ EnableReader(r) \/ EditReader(r) \/ RemoveReader(r)
  PROVE  OnceInv'
<1>0. ReportTypes /\ ReportTypes' BY BaseStaff DEF ReportBase
<1>1. /\ UNCHANGED <<clock, sweeper, editions>> /\ OnlyReader(r)
      /\ reader'[r].last = reader[r].last
      /\ reader'[r].row = "kept" => reader[r].row \in {"none", "kept"}
      /\ \/ UNCHANGED excuse
         \/ excuse' = [excuse EXCEPT ![r] = @ + 1]
      /\ reader[r].row # "none" /\ reader'[r].row = "kept" /\ UNCHANGED excuse =>
           Target(reader'[r].at, day) = Target(reader[r].at, day)
  BY <1>0, StaffStep
<1>2. \A q \in Reader, d \in Days : Flying(q, d)' <=> Flying(q, d) BY <1>1 DEF Flying
<1>3. \A s \in Sweeper : \A row \in sweeper[s].left : Edition(s, row)' = Edition(s, row)
  BY <1>1 DEF Edition
<1>4. \A q \in Reader \ {r} : reader'[q] = reader[q] /\ excuse'[q] = excuse[q] /\ Current(q)' = Current(q)
  BY <1>0, <1>1 DEF OnlyReader, Current, clock, ReportTypes
<1>5. excuse'[r] = excuse[r] \/ (Forgiven(r) /\ excuse'[r] = excuse[r] + 1)
  BY <1>0, <1>1, ReaderForgiven DEF Forgiven
<1>6. CASE UNCHANGED excuse
  <2>1. reader'[r].row = "kept" /\ reader[r].row # "none" =>
          reader[r].row = "kept" /\ Current(r)' = Current(r)
    BY <1>1, <1>6 DEF Current, clock
  <2>2. reader[r].row = "none" => \A d \in Days : Paid(r, d)
    BY <1>0, Counts DEF ReportBase, RowOK, Paid
  <2>3. \A q \in Reader, d \in Days : Paid(q, d)' <=> Paid(q, d) BY <1>1, <1>6 DEF Paid
  <2>4. RowPaid(r)' BY <1>1, <1>2, <2>1, <2>2, <2>3 DEF OnceInv, RowPaid
  <2>5. \A q \in Reader \ {r} : RowPaid(q)' BY <1>2, <1>4, <2>3 DEF OnceInv, RowPaid
  <2>6. \A s \in Sweeper : ListPaid(s)'
    <3> SUFFICES ASSUME NEW s \in Sweeper, NEW row \in sweeper[s].left, row.last # Edition(s, row)
                 PROVE  /\ sweeper[s].mail.id # row.id =>
                             /\ Paid(row.id, Edition(s, row))
                             /\ reader'[row.id].row = "kept" /\ Edition(s, row) > Current(row.id)' =>
                                  editions[row.id][Edition(s, row)] + 1 <= excuse[row.id]
                        /\ reader'[row.id].row = "kept" =>
                             Paid(row.id, Current(row.id)') \/ Flying(row.id, Current(row.id)')
      BY <1>1, <1>3, <1>6 DEF ListPaid, Paid, Flying
    <3>1. row.id \in Reader /\ reader[row.id].row # "none"
      BY <1>0, Counts DEF ReportBase, ListOK
    <3>2. reader'[row.id].row = "kept" => reader[row.id].row = "kept" /\ Current(row.id)' = Current(row.id)
      BY <1>4, <2>1, <3>1
    <3> QED BY <3>1, <3>2 DEF OnceInv, ListPaid
  <2> QED BY <1>1, <1>6, <2>4, <2>5, <2>6 DEF OnceInv, OneSweep, SentOnce
<1>7. CASE Forgiven(r) /\ excuse' = [excuse EXCEPT ![r] = @ + 1]
  <2>1. \A d \in Days : Paid(r, d)' BY <1>0, <1>1, <1>7, ForgivenPays DEF OnceInv
  <2>2. \A q \in Reader \ {r}, d \in Days : Paid(q, d)' <=> Paid(q, d) BY <1>1, <1>4 DEF Paid
  <2>3. \A q \in Reader : RowPaid(q)' BY <1>2, <1>4, <2>1, <2>2 DEF OnceInv, RowPaid
  <2>4. \A s \in Sweeper : ListPaid(s)'
    <3> SUFFICES ASSUME NEW s \in Sweeper, NEW row \in sweeper[s].left, row.last # Edition(s, row)
                 PROVE  /\ sweeper[s].mail.id # row.id =>
                             /\ Paid(row.id, Edition(s, row))'
                             /\ reader'[row.id].row = "kept" /\ Edition(s, row) > Current(row.id)' =>
                                  editions[row.id][Edition(s, row)] + 1 <= excuse'[row.id]
                        /\ reader'[row.id].row = "kept" =>
                             Paid(row.id, Current(row.id))' \/ Flying(row.id, Current(row.id))'
      BY <1>1, <1>3 DEF ListPaid
    <3>1. row.id \in Reader /\ Edition(s, row) \in Days /\ Edition(s, row)' = Edition(s, row)
      BY <1>0, <1>3, Counts
    <3>2. Current(row.id)' \in Days BY <1>0, <3>1, CountsNext
    <3>3. CASE row.id = r
      <4>1. Paid(r, Edition(s, row))' /\ Paid(r, Current(r))' BY <2>1, <3>1, <3>2, <3>3
      <4>2. sweeper[s].mail.id # r => editions[r][Edition(s, row)] + 1 <= excuse'[r]
        BY <1>0, <1>7, <3>1, <3>3, Counts DEF OnceInv, ListPaid, Paid, Forgiven
      <4> QED BY <3>3, <4>1, <4>2
    <3>4. CASE row.id # r
      <4>1. /\ reader'[row.id] = reader[row.id] /\ excuse'[row.id] = excuse[row.id]
            /\ Current(row.id)' = Current(row.id)
        BY <1>4, <3>1, <3>4
      <4>2. Current(row.id) \in Days BY <3>2, <4>1
      <4> QED BY <1>1, <1>2, <2>2, <3>1, <3>4, <4>1, <4>2 DEF OnceInv, ListPaid, Paid, Flying
    <3> QED BY <3>3, <3>4
  <2>5. SentOnce'
    <3>1. \A d \in Days : editions'[r][d] <= 1 + excuse'[r]
      BY <1>0, <2>1, CountsNext DEF Paid
    <3>2. \A q \in Reader \ {r}, d \in Days : editions'[q][d] <= 1 + excuse'[q]
      BY <1>1, <1>4 DEF OnceInv, SentOnce, Days
    <3> QED BY <3>1, <3>2 DEF SentOnce, Days
  <2> QED BY <1>1, <2>3, <2>4, <2>5 DEF OnceInv, OneSweep
<1> QED BY <1>0, <1>1, <1>6, <1>7, ReaderForgiven

LEMMA OnceStart ==
  ASSUME ReportBase, OnceInv, ~SweepsOverlap, NEW s \in Sweeper, StartSweep(s)
  PROVE  OnceInv'
<1>0. ReportTypes /\ ReportTypes' BY BaseStart DEF ReportBase
<1>1. /\ OnlySweep(s) /\ \A x \in Sweeper : ~sweeper[x].on
      /\ sweeper'[s].on /\ sweeper'[s].day = day /\ sweeper'[s].mail = NoMail
      /\ \A row \in sweeper'[s].left :
           /\ row.id \in Reader /\ reader[row.id].enabled
           /\ row.at = reader[row.id].at /\ row.last = reader[row.id].last
      /\ UNCHANGED <<clock, reader, editions, excuse>>
  BY <1>0, StartStep
<1>2. \A x \in Sweeper : sweeper[x].left = {} /\ sweeper[x].mail = NoMail
  BY <1>1 DEF ReportBase, ListOK
<1>3. \A x \in Sweeper : sweeper'[x].mail = NoMail BY <1>1, <1>2 DEF OnlySweep
<1>4. \A r \in Reader, d \in Days : ~Flying(r, d) /\ ~Flying(r, d)'
  BY <1>2, <1>3, ReportAssumption DEF Flying, NoMail
<1>5. \A r \in Reader : Current(r)' = Current(r) BY <1>1 DEF Current, clock
<1>6. \A r \in Reader : RowPaid(r)' BY <1>1, <1>4, <1>5 DEF OnceInv, RowPaid, Paid
<1>7. ListPaid(s)'
  <2> SUFFICES ASSUME NEW row \in sweeper'[s].left, row.last # Edition(s, row)'
               PROVE  /\ Paid(row.id, Edition(s, row))'
                      /\ ~(Edition(s, row)' > Current(row.id)')
                      /\ Paid(row.id, Current(row.id))'
    BY DEF ListPaid
  <2>1. row.id \in Reader /\ Edition(s, row)' = Current(row.id) /\ row.last = reader[row.id].last
    BY <1>1 DEF Edition, Current
  <2>2. Current(row.id) \in Days BY <1>0, <2>1, Counts
  <2>3. reader[row.id].row = "kept" BY <1>1, <2>1 DEF ReportBase, RowOK
  <2>4. Paid(row.id, Current(row.id)) BY <1>4, <2>1, <2>2, <2>3 DEF OnceInv, RowPaid, Days
  <2> QED BY <1>1, <1>5, <2>1, <2>2, <2>4 DEF Paid, Days
<1>8. \A x \in Sweeper : ListPaid(x)'
  <2>1. \A x \in Sweeper \ {s} : sweeper'[x].left = {} BY <1>1, <1>2 DEF OnlySweep
  <2> QED BY <1>7, <2>1 DEF ListPaid
<1>9. OneSweep' BY <1>1 DEF OneSweep, OnlySweep
<1> QED BY <1>1, <1>6, <1>8, <1>9 DEF OnceInv, SentOnce

\* A sweep drops its letter, if it has one at the cost of an excuse, and the
\* letter's row with it.
LEMMA OnceDropped ==
  ASSUME ReportBase, ReportBase', OnceInv, NEW s \in Sweeper, sweeper[s].on, OnlySweep(s),
         sweeper'[s].mail = NoMail, UNCHANGED <<clock, reader, editions>>,
         \A row \in sweeper'[s].left : /\ row \in sweeper[s].left /\ row.id # sweeper[s].mail.id
                                       /\ Edition(s, row)' = Edition(s, row),
         \/ sweeper[s].mail = NoMail /\ UNCHANGED excuse
         \/ sweeper[s].mail # NoMail /\ Forgiven(sweeper[s].mail.id)
  PROVE  OnceInv'
<1>0. ReportTypes /\ ReportTypes' BY DEF ReportBase
<1>1. /\ \A x \in Sweeper \ {s} : sweeper[x].left = {} /\ sweeper[x].mail = NoMail
      /\ \A r \in Reader, d \in Days :
           Flying(r, d) <=> sweeper[s].mail.id = r /\ sweeper[s].mail.edition = d
  BY Alone DEF OnceInv
<1>2. sweeper[s].mail # NoMail => sweeper[s].mail.id \in Reader BY LetterToReader
<1>3. \A r \in Reader : r # sweeper[s].mail.id => excuse'[r] = excuse[r]
  BY <1>2 DEF Forgiven
<1>4. \A r \in Reader : r = sweeper[s].mail.id => Forgiven(r)
  BY ReportAssumption DEF NoMail
<1>5. \A r \in Reader : r = sweeper[s].mail.id => \A d \in Days : Paid(r, d)'
  BY <1>0, <1>4, ForgivenPays DEF OnceInv
<1>6. \A r \in Reader, d \in Days : r # sweeper[s].mail.id => (Paid(r, d)' <=> Paid(r, d))
  BY <1>3 DEF Paid
<1>7. \A r \in Reader : Current(r)' = Current(r) /\ Current(r) \in Days
  BY <1>0, Counts DEF Current, clock
<1>8. \A r \in Reader : RowPaid(r)' BY <1>1, <1>5, <1>6, <1>7 DEF OnceInv, RowPaid
<1>9. ListPaid(s)'
  <2> SUFFICES ASSUME NEW row \in sweeper'[s].left, row.last # Edition(s, row)'
               PROVE  /\ Paid(row.id, Edition(s, row))'
                      /\ reader'[row.id].row = "kept" /\ Edition(s, row)' > Current(row.id)' =>
                           editions'[row.id][Edition(s, row)'] + 1 <= excuse'[row.id]
                      /\ reader'[row.id].row = "kept" => Paid(row.id, Current(row.id))'
    BY DEF ListPaid
  <2>1. row.id \in Reader /\ Edition(s, row) \in Days BY <1>0, Counts
  <2>2. /\ Paid(row.id, Edition(s, row))
        /\ reader[row.id].row = "kept" /\ Edition(s, row) > Current(row.id) =>
             editions[row.id][Edition(s, row)] + 1 <= excuse[row.id]
        /\ reader[row.id].row = "kept" => Paid(row.id, Current(row.id))
    BY <1>1, <1>7, <2>1 DEF OnceInv, ListPaid
  <2> QED BY <1>3, <1>7, <2>1, <2>2 DEF Paid
<1>10. \A x \in Sweeper : ListPaid(x)' BY <1>1, <1>9 DEF ListPaid, OnlySweep
<1>11. SentOnce'
  <2>1. ASSUME NEW r \in Reader, NEW d \in Days PROVE editions'[r][d] <= 1 + excuse'[r]
    <3>1. CASE r = sweeper[s].mail.id BY <1>0, <1>5, <3>1, CountsNext DEF Paid
    <3>2. CASE r # sweeper[s].mail.id BY <1>3, <3>2 DEF OnceInv, SentOnce, Days
    <3> QED BY <3>1, <3>2
  <2> QED BY <2>1 DEF SentOnce, Days
<1>12. OneSweep'
  <2>1. \A x \in Sweeper \ {s} : ~sweeper'[x].on BY DEF OnceInv, OneSweep, OnlySweep
  <2> QED BY <2>1 DEF OneSweep
<1> QED BY <1>8, <1>10, <1>11, <1>12 DEF OnceInv

\* A sweep with a list is on.
LEMMA ListedOn ==
  ASSUME ReportBase, NEW s \in Sweeper, sweeper[s].left # {} \/ sweeper[s].mail # NoMail
  PROVE  sweeper[s].on
BY DEF ReportBase, ListOK

LEMMA OncePassOrFails ==
  ASSUME ReportBase, OnceInv, NEW s \in Sweeper, NEW row \in sweeper[s].left,
         PassOver(s, row) \/ ReportFails(s, row)
  PROVE  OnceInv'
<1>0. ReportBase' /\ ReportTypes BY BasePass, BaseFails DEF ReportBase
<1>1. /\ RowDone(s, row) /\ UNCHANGED <<clock, reader, editions>>
      /\ \/ sweeper[s].mail = NoMail /\ UNCHANGED excuse
         \/ sweeper[s].mail.id = row.id /\ sweeper[s].mail # NoMail /\ Forgiven(row.id)
  BY <1>0, PassStep, FailStep
<1>2. \A x \in sweeper'[s].left : /\ x \in sweeper[s].left /\ x.id # sweeper[s].mail.id
                                  /\ Edition(s, x)' = Edition(s, x)
  <2> TAKE x \in sweeper'[s].left
  <2>1. x \in sweeper[s].left /\ x # row BY <1>1 DEF RowDone
  <2>2. x.id \in Reader /\ x.id # row.id BY <1>0, <2>1, Counts DEF ReportBase, ListOK
  <2>3. NoMail.id # x.id BY <2>2, ReportAssumption DEF NoMail
  <2> QED BY <1>1, <2>1, <2>2, <2>3 DEF Edition, RowDone
<1>3. sweeper[s].on BY ListedOn
<1> QED BY <1>0, <1>1, <1>2, <1>3, OnceDropped DEF RowDone

LEMMA OnceEnd ==
  ASSUME ReportBase, OnceInv, NEW s \in Sweeper, SweeperDies(s) \/ EndSweep(s)
  PROVE  OnceInv'
<1>0. ReportBase' /\ ReportTypes BY BaseEnd DEF ReportBase
<1>1. /\ SweepOver(s) /\ UNCHANGED <<clock, reader, editions>> /\ sweeper[s].on
      /\ \/ sweeper[s].mail = NoMail /\ UNCHANGED excuse
         \/ sweeper[s].mail # NoMail /\ Forgiven(sweeper[s].mail.id)
  <2>1. CASE SweeperDies(s) BY <1>0, <2>1, DieStep, LetterToReader DEF SweeperDies
  <2>2. CASE EndSweep(s)
    <3>1. sweeper[s].mail = NoMail BY <2>2 DEF EndSweep, ReportBase, LetterOK
    <3> QED BY <1>0, <2>2, <3>1, EndStep DEF EndSweep
  <2> QED BY <2>1, <2>2
<1> QED BY <1>0, <1>1, OnceDropped DEF SweepOver, NoSweep

\* The mail: the edition the row leads to is paid for, so it is there once more
\* than there are excuses at most; and if it is not the current one, it was
\* paid for twice.
LEMMA OnceMail ==
  ASSUME ReportBase, OnceInv, NEW s \in Sweeper, NEW row \in sweeper[s].left, MailReport(s, row)
  PROVE  OnceInv'
<1>0. ReportTypes /\ ReportTypes' BY BaseMail DEF ReportBase
<1>e. PICK r \in Reader, e \in Days : r = row.id /\ e = Edition(s, row) BY <1>0, Counts
<1>1. /\ Mailed(r, e) /\ Due(s, row) /\ sweeper[s].mail = NoMail /\ OnlySweep(s)
      /\ sweeper'[s].on = sweeper[s].on /\ sweeper'[s].day = sweeper[s].day
      /\ sweeper'[s].left = sweeper[s].left
      /\ sweeper'[s].mail = [id |-> r, edition |-> e]
      /\ UNCHANGED <<clock, reader, excuse, dealt>>
  BY <1>0, <1>e, MailStep
<1>2. r \in Reader /\ e \in Days /\ row.last # e /\ r # NoMail.id
  BY <1>0, <1>1, <1>e, Counts, ReportAssumption DEF Due, NoMail
<1>3. sweeper[s].on /\ sweeper'[s].on BY <1>1, ListedOn
<1>4. /\ \A x \in Sweeper \ {s} : sweeper[x].left = {} /\ sweeper[x].mail = NoMail /\ ~sweeper[x].on
      /\ \A q \in Reader, d \in Days : ~Flying(q, d)
  <2>1. \A x \in Sweeper \ {s} : ~sweeper[x].on BY <1>3 DEF OnceInv, OneSweep
  <2> QED BY <1>1, <1>3, <2>1, Alone, ReportAssumption DEF OnceInv, NoMail
<1>5. Flying(r, e)'
  <2>1. sweeper'[s].mail.id = r /\ sweeper'[s].mail.edition = e BY <1>1
  <2> QED BY <2>1 DEF Flying
<1>6. /\ Paid(r, e)
      /\ reader[r].row = "kept" /\ e > Current(r) => editions[r][e] + 1 <= excuse[r]
  BY <1>1, <1>2, <1>e DEF OnceInv, ListPaid
<1>7. \A q \in Reader, d \in Days : q # r \/ d # e => (Paid(q, d)' <=> Paid(q, d))
  BY <1>1 DEF Mailed, Paid
<1>8. \A q \in Reader : Current(q)' = Current(q) /\ Current(q) \in Days
  BY <1>0, <1>1, Counts DEF Current, clock
<1>9. \A q \in Reader : RowPaid(q)'
  <2> SUFFICES ASSUME NEW q \in Reader, reader[q].row = "kept", NEW d \in Days, d >= Current(q)
               PROVE  Paid(q, d)' \/ (d = Current(q) /\ (reader[q].last = d \/ Flying(q, d)'))
    BY <1>1, <1>8 DEF RowPaid
  <2>1. CASE q = r /\ d = e
    <3>1. CASE e = Current(r) BY <1>5, <2>1, <3>1
    <3>2. CASE e > Current(r) BY <1>1, <1>2, <1>6, <2>1, <3>2 DEF Mailed, Paid
    <3> QED BY <1>2, <1>8, <2>1, <3>1, <3>2 DEF Days
  <2>2. CASE q # r \/ d # e BY <1>4, <1>7, <2>2 DEF OnceInv, RowPaid
  <2> QED BY <2>1, <2>2
<1>10. ListPaid(s)'
  <2> SUFFICES ASSUME NEW x \in sweeper[s].left, x.last # Edition(s, x)
               PROVE  /\ r # x.id =>
                           /\ Paid(x.id, Edition(s, x))'
                           /\ reader[x.id].row = "kept" /\ Edition(s, x) > Current(x.id) =>
                                editions'[x.id][Edition(s, x)] + 1 <= excuse[x.id]
                      /\ reader[x.id].row = "kept" =>
                           Paid(x.id, Current(x.id))' \/ Flying(x.id, Current(x.id))'
    <3>1. \A x \in sweeper[s].left : Edition(s, x)' = Edition(s, x) BY <1>1 DEF Edition
    <3>2. \A x \in sweeper[s].left : Current(x.id)' = Current(x.id) BY <1>0, <1>8, Counts
    <3> QED BY <1>1, <3>1, <3>2 DEF ListPaid
  <2>1. x.id \in Reader /\ Edition(s, x) \in Days /\ Current(x.id) \in Days
    BY <1>0, <1>8, Counts
  <2>2. NoMail.id # x.id BY <2>1, ReportAssumption DEF NoMail
  <2>3. /\ Paid(x.id, Edition(s, x))
        /\ reader[x.id].row = "kept" /\ Edition(s, x) > Current(x.id) =>
             editions[x.id][Edition(s, x)] + 1 <= excuse[x.id]
        /\ reader[x.id].row = "kept" => Paid(x.id, Current(x.id))
    BY <1>1, <1>4, <2>1, <2>2 DEF OnceInv, ListPaid
  <2>4. r # x.id => editions'[x.id][Edition(s, x)] = editions[x.id][Edition(s, x)]
    BY <1>1, <2>1 DEF Mailed
  <2>5. reader[x.id].row = "kept" => Paid(x.id, Current(x.id))' \/ Flying(x.id, Current(x.id))'
    <3>1. CASE x.id = r /\ Current(x.id) = e BY <1>5, <1>8, <2>1, <3>1
    <3>2. CASE x.id # r \/ Current(x.id) # e
      <4>1. Paid(x.id, Current(x.id))' <=> Paid(x.id, Current(x.id))
        BY <1>1, <1>8, <2>1, <3>2 DEF Mailed, Paid
      <4> QED BY <2>3, <4>1
    <3> QED BY <3>1, <3>2
  <2>6. Edition(s, x)' = Edition(s, x) BY <1>1 DEF Edition
  <2> QED BY <1>1, <1>8, <2>1, <2>3, <2>4, <2>5, <2>6 DEF Paid
<1>11. \A x \in Sweeper : ListPaid(x)' BY <1>1, <1>4, <1>10 DEF ListPaid, OnlySweep
<1>12. SentOnce'
  <2>1. ASSUME NEW q \in Reader, NEW d \in Days PROVE editions'[q][d] <= 1 + excuse'[q]
    <3>1. CASE q = r /\ d = e BY <1>0, <1>1, <1>2, <1>6, <3>1, Counts DEF Mailed, Paid
    <3>2. CASE q # r \/ d # e BY <1>1, <3>2 DEF Mailed, OnceInv, SentOnce, Days
    <3> QED BY <3>1, <3>2
  <2> QED BY <2>1 DEF SentOnce, Days
<1>13. OneSweep' BY <1>1, <1>4 DEF OneSweep, OnlySweep
<1> QED BY <1>9, <1>11, <1>12, <1>13 DEF OnceInv

\* The stamp: what was in flight is on the row.
LEMMA OnceStamp ==
  ASSUME ReportBase, OnceInv, NEW s \in Sweeper, StampReport(s)
  PROVE  OnceInv'
<1>0. ReportTypes /\ ReportTypes' BY BaseStamp DEF ReportBase
<1>1. /\ sweeper[s].mail # NoMail
      /\ \E row \in sweeper[s].left :
           row.id = sweeper[s].mail.id /\ RowDone(s, row) /\ dealt' = Dealt(s, row)
      /\ OnlyReader(sweeper[s].mail.id)
      /\ \A q \in Reader : /\ reader'[q].row = reader[q].row /\ reader'[q].at = reader[q].at
      /\ sweeper[s].mail.id \in Reader =>
           reader'[sweeper[s].mail.id].last =
             IF reader[sweeper[s].mail.id].row = "kept" THEN sweeper[s].mail.edition
                                                        ELSE reader[sweeper[s].mail.id].last
      /\ UNCHANGED <<clock, editions, excuse>>
  BY <1>0, StampStep
<1>2. PICK row \in sweeper[s].left : row.id = sweeper[s].mail.id /\ RowDone(s, row) BY <1>1
<1>3. /\ row.id \in Reader /\ Edition(s, row) \in Days
      /\ sweeper[s].mail.edition = Edition(s, row) /\ row.last # Edition(s, row)
  BY <1>0, <1>1, <1>2, Counts, LetterRow
<1>4. sweeper[s].on BY <1>1, ListedOn
<1>5. /\ \A x \in Sweeper \ {s} : sweeper[x].left = {} /\ sweeper[x].mail = NoMail /\ ~sweeper[x].on
      /\ \A q \in Reader, d \in Days : Flying(q, d) <=> row.id = q /\ Edition(s, row) = d
  <2>1. \A x \in Sweeper \ {s} : ~sweeper[x].on BY <1>4 DEF OnceInv, OneSweep
  <2> QED BY <1>2, <1>3, <1>4, <2>1, Alone DEF OnceInv
<1>6. \A q \in Reader : Current(q)' = Current(q) /\ Current(q) \in Days
  BY <1>0, <1>1, Counts DEF Current, clock
<1>7. \A q \in Reader, d \in Days : Paid(q, d)' <=> Paid(q, d) BY <1>1 DEF Paid
<1>8. \A q \in Reader : RowPaid(q)'
  <2> SUFFICES ASSUME NEW q \in Reader, reader[q].row = "kept", NEW d \in Days, d >= Current(q)
               PROVE  Paid(q, d) \/ (d = Current(q) /\ reader'[q].last = d)
    BY <1>1, <1>6, <1>7 DEF RowPaid
  <2>1. Paid(q, d) \/ (d = Current(q) /\ (reader[q].last = d \/ Flying(q, d)))
    BY DEF OnceInv, RowPaid
  <2>2. CASE q = row.id
    <3>1. reader'[q].last = Edition(s, row) BY <1>1, <1>2, <1>3, <2>2
    <3>2. Paid(q, Current(q)) \/ Flying(q, Current(q)) BY <1>3, <2>2 DEF OnceInv, ListPaid
    <3> QED BY <1>5, <1>6, <2>1, <2>2, <3>1, <3>2
  <2>3. CASE q # row.id
    <3>1. reader'[q] = reader[q] BY <1>1, <1>2, <2>3 DEF OnlyReader
    <3> QED BY <1>5, <2>1, <2>3, <3>1
  <2> QED BY <2>2, <2>3
<1>9. ListPaid(s)'
  <2> SUFFICES ASSUME NEW x \in sweeper'[s].left, x.last # Edition(s, x)'
               PROVE  /\ Paid(x.id, Edition(s, x))'
                      /\ reader'[x.id].row = "kept" /\ Edition(s, x)' > Current(x.id)' =>
                           editions'[x.id][Edition(s, x)'] + 1 <= excuse'[x.id]
                      /\ reader'[x.id].row = "kept" => Paid(x.id, Current(x.id))'
    BY DEF ListPaid
  <2>1. x \in sweeper[s].left /\ x # row /\ Edition(s, x)' = Edition(s, x)
    BY <1>2 DEF RowDone, Edition
  <2>2. x.id \in Reader /\ x.id # row.id /\ Edition(s, x) \in Days
    BY <1>0, <2>1, Counts DEF ReportBase, ListOK
  <2>3. /\ Paid(x.id, Edition(s, x))
        /\ reader[x.id].row = "kept" /\ Edition(s, x) > Current(x.id) =>
             editions[x.id][Edition(s, x)] + 1 <= excuse[x.id]
        /\ reader[x.id].row = "kept" => Paid(x.id, Current(x.id))
    BY <1>2, <1>5, <1>6, <2>1, <2>2 DEF OnceInv, ListPaid
  <2> QED BY <1>1, <1>6, <1>7, <2>1, <2>2, <2>3 DEF Paid
<1>10. \A x \in Sweeper : ListPaid(x)' BY <1>2, <1>5, <1>9 DEF ListPaid, OnlySweep, RowDone
<1>11. OneSweep' BY <1>2, <1>5 DEF OneSweep, OnlySweep, RowDone
<1> QED BY <1>1, <1>8, <1>10, <1>11 DEF OnceInv, SentOnce

LEMMA OnceStutter == ASSUME ReportBase, OnceInv, UNCHANGED reportVars PROVE OnceInv'
<1>1. UNCHANGED <<day, reader, sweeper, editions, excuse>> BY DEF reportVars, clock
<1>2. OneSweep' /\ SentOnce' BY <1>1 DEF OnceInv, OneSweep, SentOnce
<1>3. \A r \in Reader : RowPaid(r)' BY <1>1 DEF OnceInv, RowPaid, Paid, Flying, Current
<1>4. \A s \in Sweeper : ListPaid(s)' BY <1>1 DEF OnceInv, ListPaid, Paid, Flying, Current, Edition
<1> QED BY <1>2, <1>3, <1>4 DEF OnceInv

LEMMA OnceStep ==
  ASSUME ~SweepsOverlap
  PROVE  ReportBase /\ OnceInv /\ [ReportNext]_reportVars => OnceInv'
<1> SUFFICES ASSUME ReportBase, OnceInv, [ReportNext]_reportVars PROVE OnceInv' OBVIOUS
<1>1. CASE Tick BY <1>1, OnceTick
<1>2. ASSUME NEW r \in Reader,
             AddReader(r) \/ EnableReader(r) \/ EditReader(r) \/ RemoveReader(r)
      PROVE  OnceInv'
  BY <1>2, OnceStaff
<1>3. ASSUME NEW s \in Sweeper, StartSweep(s) \/ StampReport(s) \/ SweeperDies(s) \/ EndSweep(s)
      PROVE  OnceInv'
  BY <1>3, OnceStart, OnceStamp, OnceEnd
<1>4. ASSUME NEW s \in Sweeper, NEW row \in sweeper[s].left,
             PassOver(s, row) \/ MailReport(s, row) \/ ReportFails(s, row)
      PROVE  OnceInv'
  BY <1>4, OncePassOrFails, OnceMail
<1>5. CASE UNCHANGED reportVars BY <1>5, OnceStutter
<1> QED BY <1>1, <1>2, <1>3, <1>4, <1>5 DEF ReportNext

\* A catch-up sweep sends an edition once: when sweeps do not overlap, a reader
\* gets no edition twice, whatever failed, died or was edited in between, except
\* as often as a stamp was lost after its mail or the hour crossed closing time.
THEOREM EditionOnce == ASSUME ~SweepsOverlap PROVE ReportSpec => []SentOnce
<1>1. OnceInv => SentOnce BY DEF OnceInv
<1> QED BY <1>1, BaseInit, BaseStep, OnceInit, OnceStep, PTL DEF ReportSpec

-----------------------------------------------------------------------------
(* The delivery of links.                                                  *)

WorkType == [at : {"idle", "looking", "making", "sending", "checking", "minting",
                   "texting", "settling", "closing", "done"},
             link : 0 .. MaxLinks, legs : SUBSET Medium, tried : SUBSET Medium,
             out : SUBSET Medium, url : Short \cup {"none", "plain"}]
NoticeType == [status : {"absent", "pending", "in_progress", "completed", "failed"},
               channel : {"web_chat", "sms"}, tries : 1 .. MaxTries]
LinkType == [made : BOOLEAN, live : BOOLEAN,
             short : Short \cup {"none"}, sent : BOOLEAN, origin : {"scheduler", "manual"}]

\* Whoever sends, closes or has sent something has a link.
Linked(w) == \/ w.at \notin {"sending", "checking", "minting", "texting", "closing"} /\ w.out = {}
             \/ w.link \in 1 .. MaxLinks
HasLink(x) == Linked(work[x])
TypeInv == DeliveryTypeOK /\ \A x \in Sender : HasLink(x)

-----------------------------------------------------------------------------
(* The delivery: types.                                                    *)

LEMMA TypeStart == DeliveryInit => TypeInv
<1> SUFFICES ASSUME DeliveryInit PROVE TypeInv OBVIOUS
<1> USE DeliveryAssumption DEF DeliveryInit, Idle, NoLink
<1>1. Idle \in WorkType BY DEF WorkType, Medium
<1>2. [status |-> "absent", channel |-> "web_chat", tries |-> 1] \in NoticeType
  BY DEF NoticeType
<1>3. NoLink \in LinkType BY DEF LinkType
<1>4. DeliveryTypeOK
  BY <1>1, <1>2, <1>3 DEF DeliveryTypeOK, WorkType, NoticeType, LinkType, Medium
<1> QED BY <1>4 DEF TypeInv, HasLink, Linked

\* The sender moves on with a well-typed record of its work.
LEMMA WorkMoves ==
  ASSUME TypeInv, NEW x \in Sender, NEW new \in WorkType, work' = [work EXCEPT ![x] = new],
         Linked(new),
         notice' \in [Notice -> NoticeType], link' \in [1 .. MaxLinks -> LinkType],
         leads' \in [Short -> 0 .. MaxLinks], told' \in [Notice -> [Medium -> Nat]],
         slips' \in [Notice -> Nat], deliveryFaults' \in 0 .. MaxDeliveryFaults
  PROVE  TypeInv'
<1>1. work' \in [Sender -> WorkType] BY DEF TypeInv, DeliveryTypeOK, WorkType
<1>2. DeliveryTypeOK' BY <1>1 DEF DeliveryTypeOK, WorkType, NoticeType, LinkType
<1>3. work \in [Sender -> WorkType] BY DEF TypeInv, DeliveryTypeOK, WorkType
<1>4. ASSUME NEW y \in Sender PROVE HasLink(y)'
  <2>1. CASE y = x BY <2>1, <1>3 DEF HasLink
  <2>2. CASE y # x
    <3>1. work'[y] = work[y] BY <2>2, <1>3
    <3> QED BY <3>1 DEF HasLink, TypeInv
  <2> QED BY <2>1, <2>2
<1> QED BY <1>2, <1>4 DEF TypeInv

\* What the steps below take from the invariant.
LEMMA Typed ==
  ASSUME TypeInv
  PROVE  /\ work \in [Sender -> WorkType] /\ notice \in [Notice -> NoticeType]
         /\ link \in [1 .. MaxLinks -> LinkType] /\ leads \in [Short -> 0 .. MaxLinks]
         /\ told \in [Notice -> [Medium -> Nat]] /\ slips \in [Notice -> Nat]
         /\ deliveryFaults \in 0 .. MaxDeliveryFaults
BY DEF TypeInv, DeliveryTypeOK, WorkType, NoticeType, LinkType

\* A fault is counted.
LEMMA FaultCounted ==
  ASSUME TypeInv, DeliveryFault
  PROVE  deliveryFaults' \in 0 .. MaxDeliveryFaults
BY Typed, DeliveryAssumption DEF DeliveryFault

\* The row of a link that is there is replaced.
LEMMA RowWritten ==
  ASSUME TypeInv, NEW k \in 1 .. MaxLinks, NEW row \in LinkType, Writes(k, row)
  PROVE  link' \in [1 .. MaxLinks -> LinkType]
BY Typed DEF Writes

LEMMA ShortKept ==
  ASSUME TypeInv, NEW x \in Sender, work[x].link \in 1 .. MaxLinks,
         NEW s \in Short \cup {"none"}, Caches(x, s)
  PROVE  /\ link' \in [1 .. MaxLinks -> LinkType]
         /\ deliveryFaults' \in 0 .. MaxDeliveryFaults
<1>0. link[work[x].link] \in LinkType BY Typed
<1>1. [link[work[x].link] EXCEPT !.short = s] \in LinkType BY <1>0 DEF LinkType
<1>2. CASE Writes(work[x].link, [link[work[x].link] EXCEPT !.short = s]) /\ UNCHANGED deliveryFaults
  BY <1>1, <1>2, RowWritten, Typed
<1>3. CASE UNCHANGED link /\ DeliveryFault BY <1>3, FaultCounted, Typed
<1> QED BY <1>2, <1>3 DEF Caches

\* Whether accepted, refused or unheard, a leg keeps the types.
LEMMA LegTypes ==
  ASSUME TypeInv, NEW x \in Sender, NEW m \in Medium, TryLeg(x, m),
         work[x].link \in 1 .. MaxLinks, UNCHANGED <<notice, link, leads>>
  PROVE  TypeInv'
<1>1. PICK accepted \in BOOLEAN, heard \in BOOLEAN :
        LET tried == work[x].tried \cup {m}
            out   == IF accepted /\ heard THEN work[x].out \cup {m} ELSE work[x].out
        IN  /\ IF accepted /\ heard THEN UNCHANGED deliveryFaults ELSE DeliveryFault
            /\ work' = [work EXCEPT ![x].tried = tried, ![x].out = out,
                                    ![x].at = AfterLeg(x, tried, out)]
            /\ told' = IF accepted /\ x \in Notice THEN [told EXCEPT ![x][m] = @ + 1] ELSE told
            /\ slips' = IF accepted /\ ~heard /\ x \in Notice THEN [slips EXCEPT ![x] = @ + 1]
                        ELSE slips
  BY DEF TryLeg
<1> DEFINE tried == work[x].tried \cup {m}
           out == IF accepted /\ heard THEN work[x].out \cup {m} ELSE work[x].out
           new == [work[x] EXCEPT !.tried = tried, !.out = out, !.at = AfterLeg(x, tried, out)]
<1>2. AfterLeg(x, tried, out) \in {"done", "closing", "sending", "settling"}
  BY DEF AfterLeg
<1>3. work' = [work EXCEPT ![x] = new] BY <1>1, Typed
<1>4. work[x] \in WorkType BY Typed
<1>5. new \in WorkType /\ Linked(new) BY <1>2, <1>4 DEF WorkType, Linked
<1>6. told' \in [Notice -> [Medium -> Nat]] BY <1>1, Typed
<1>7. slips' \in [Notice -> Nat] BY <1>1, Typed
<1>8. deliveryFaults' \in 0 .. MaxDeliveryFaults BY <1>1, Typed, FaultCounted
<1> HIDE DEF new
<1> QED BY <1>3, <1>5, <1>6, <1>7, <1>8, Typed, WorkMoves

\* A retried row is pending or failed.
LEMMA AgainRow ==
  ASSUME TypeInv, NEW n \in Notice, Again(n)
  PROVE  /\ notice' \in [Notice -> NoticeType]
         /\ \A i \in Notice : i # n => notice'[i] = notice[i]
         /\ work' = [work EXCEPT ![n] = Idle]
<1> DEFINE row == IF notice[n].tries + 1 > MaxTries THEN [notice[n] EXCEPT !.status = "failed"]
                  ELSE [notice[n] EXCEPT !.status = "pending", !.tries = notice[n].tries + 1]
<1>1. notice' = [notice EXCEPT ![n] = row] BY DEF Again
<1>2. notice[n] \in NoticeType BY Typed
<1>3. row \in NoticeType
  <2>1. notice[n].tries \in 1 .. MaxTries BY <1>2 DEF NoticeType
  <2>2. CASE notice[n].tries + 1 > MaxTries BY <1>2, <2>2 DEF NoticeType
  <2>3. CASE ~(notice[n].tries + 1 > MaxTries)
    <3>1. notice[n].tries + 1 \in 1 .. MaxTries BY <2>1, <2>3, DeliveryAssumption
    <3>2. row = [notice[n] EXCEPT !.status = "pending", !.tries = notice[n].tries + 1]
      BY <2>3
    <3> QED BY <1>2, <3>1, <3>2 DEF NoticeType
  <2> QED BY <2>2, <2>3
<1> HIDE DEF row
<1> QED BY <1>1, <1>3, Typed DEF Again

LEMMA IdleTyped == Idle \in WorkType /\ Linked(Idle)
BY DeliveryAssumption DEF Idle, WorkType, Medium, Linked

LEMMA TypeStep == TypeInv /\ [DeliveryNext]_deliveryVars => TypeInv'
<1> SUFFICES ASSUME TypeInv, [DeliveryNext]_deliveryVars PROVE TypeInv' OBVIOUS
<1>1. ASSUME NEW n \in Notice, AddNotice(n) \/ RecoverNotice(n) PROVE TypeInv'
  <2>1. notice' \in [Notice -> NoticeType]
    <3>1. PICK place \in {"pending"}, channel \in {"web_chat", "sms"} :
            notice' = [notice EXCEPT ![n] = [notice[n] EXCEPT !.status = place, !.channel = channel]]
      <4>1. notice[n].channel \in {"web_chat", "sms"} /\ notice[n] \in NoticeType
        BY Typed DEF NoticeType
      <4>2. CASE AddNotice(n) BY <4>1, <4>2, Typed DEF AddNotice, NoticeType
      <4>3. CASE RecoverNotice(n) BY <4>1, <4>3, Typed DEF RecoverNotice, NoticeType
      <4> QED BY <1>1, <4>2, <4>3
    <3> QED BY <3>1, Typed DEF NoticeType
  <2>2. UNCHANGED <<link, leads, work, told, slips, deliveryFaults>>
    BY <1>1 DEF AddNotice, RecoverNotice
  <2> QED BY <2>1, <2>2 DEF TypeInv, DeliveryTypeOK, NoticeType, HasLink
<1>2. ASSUME NEW n \in Notice, NEW legs \in SUBSET Medium, BeginNotice(n, legs) PROVE TypeInv'
  <2> DEFINE new == [Idle EXCEPT !.legs = legs, !.at = IF legs = {} THEN "settling" ELSE "looking"]
  <2>1. /\ notice' = [notice EXCEPT ![n] = [notice[n] EXCEPT !.status = "in_progress"]]
        /\ work' = [work EXCEPT ![n] = new]
        /\ UNCHANGED <<link, leads, told, slips, deliveryFaults>>
    BY <1>2, Typed DEF BeginNotice
  <2>2. Idle \in WorkType /\ Linked(Idle) /\ Idle.out = {} BY IdleTyped DEF Idle
  <2>4. (IF legs = {} THEN "settling" ELSE "looking") \in {"settling", "looking"} OBVIOUS
  <2>5. new \in WorkType /\ Linked(new) BY <2>2, <2>4 DEF WorkType, Linked
  <2>3. notice' \in [Notice -> NoticeType] BY <2>1, Typed DEF NoticeType
  <2> HIDE DEF new
  <2> QED BY <2>1, <2>3, <2>5, Typed, WorkMoves DEF Sender
<1>3. ASSUME NEW c \in Clerk, NEW legs \in SUBSET Medium, BeginClerk(c, legs) PROVE TypeInv'
  <2> DEFINE new == [work[c] EXCEPT !.at = "looking", !.legs = legs]
  <2>1. /\ work' = [work EXCEPT ![c] = new]
        /\ UNCHANGED <<notice, link, leads, told, slips, deliveryFaults>>
    BY <1>3, Typed DEF BeginClerk, Sender
  <2>2. work[c] \in WorkType /\ Linked(work[c]) BY Typed DEF Sender, TypeInv, HasLink
  <2>3. new \in WorkType /\ Linked(new) BY <2>2 DEF WorkType, Linked
  <2> HIDE DEF new
  <2> QED BY <2>1, <2>3, Typed, WorkMoves DEF Sender
<1>4. ASSUME NEW n \in Notice, RetryNotice(n) \/ CompletionFails(n) \/ SenderDies(n) PROVE TypeInv'
  <2>1. /\ work' = [work EXCEPT ![n] = Idle] /\ UNCHANGED <<link, leads, told>>
        /\ notice' \in [Notice -> NoticeType]
    BY <1>4, AgainRow, Typed DEF RetryNotice, CompletionFails, SenderDies
  <2>2. slips' \in [Notice -> Nat]
    <3>1. slips' = slips \/ slips' = [slips EXCEPT ![n] = @ + 1]
      BY <1>4 DEF RetryNotice, CompletionFails, SenderDies
    <3> QED BY <3>1, Typed
  <2>3. deliveryFaults' \in 0 .. MaxDeliveryFaults
    BY <1>4, Typed, FaultCounted DEF RetryNotice, CompletionFails, SenderDies
  <2> QED BY <2>1, <2>2, <2>3, Typed, IdleTyped, WorkMoves DEF Sender
<1>5. ASSUME NEW n \in Notice, CompleteNotice(n) PROVE TypeInv'
  <2> DEFINE new == IF notice[n].channel = "sms" THEN Idle ELSE [work[n] EXCEPT !.at = "closing"]
  <2>1. /\ notice' = [notice EXCEPT ![n] = [notice[n] EXCEPT !.status = "completed"]]
        /\ work' = [work EXCEPT ![n] = new]
        /\ UNCHANGED <<link, leads, told, slips, deliveryFaults>>
    BY <1>5, Typed DEF CompleteNotice, Sender
  <2>2. notice' \in [Notice -> NoticeType] BY <2>1, Typed DEF NoticeType
  <2>3. work[n] \in WorkType /\ Linked(work[n]) /\ work[n].out # {}
    BY <1>5, Typed DEF CompleteNotice, Undelivered, Sender, TypeInv, HasLink
  <2>4. new \in WorkType /\ Linked(new) BY <2>3, IdleTyped DEF WorkType, Linked
  <2> HIDE DEF new
  <2> QED BY <2>1, <2>2, <2>4, Typed, WorkMoves DEF Sender
<1>6. ASSUME NEW x \in Sender, NEW new \in WorkType, Linked(new), work' = [work EXCEPT ![x] = new],
             link' \in [1 .. MaxLinks -> LinkType], leads' \in [Short -> 0 .. MaxLinks],
             deliveryFaults' \in 0 .. MaxDeliveryFaults, UNCHANGED <<notice, told, slips>>
      PROVE  TypeInv'
  BY <1>6, Typed, WorkMoves
<1>7. ASSUME NEW x \in Sender, FindLink(x) PROVE TypeInv'
  <2>0. work[x] \in WorkType /\ UNCHANGED <<notice, link, leads, told, slips, deliveryFaults>>
        /\ Linked(work[x]) /\ work[x].at = "looking"
    BY <1>7, Typed DEF FindLink, TypeInv, HasLink
  <2>1. CASE Moves(x, "making")
    <3> DEFINE new == [work[x] EXCEPT !.at = "making"]
    <3>1. work' = [work EXCEPT ![x] = new] BY <2>1, Typed DEF Moves
    <3>2. new \in WorkType /\ Linked(new) BY <2>0 DEF WorkType, Linked
    <3> HIDE DEF new
    <3> QED BY <2>0, <3>1, <3>2, <1>6, Typed
  <2>2. ASSUME NEW k \in LiveLinks, work' = [work EXCEPT ![x].at = WithLink(x), ![x].link = k]
        PROVE  TypeInv'
    <3> DEFINE new == [work[x] EXCEPT !.at = WithLink(x), !.link = k]
    <3>1. work' = [work EXCEPT ![x] = new] BY <2>2, Typed
    <3>2. WithLink(x) \in {"closing", "sending"} /\ k \in 1 .. MaxLinks
      BY DEF WithLink, LiveLinks
    <3>3. k \in 0 .. MaxLinks BY <3>2
    <3>4. new \in WorkType /\ Linked(new) BY <2>0, <3>2, <3>3 DEF WorkType, Linked
    <3> HIDE DEF new
    <3> QED BY <2>0, <3>1, <3>4, <1>6, Typed
  <2> QED BY <1>7, <2>1, <2>2 DEF FindLink
<1>8. ASSUME NEW x \in Sender, NEW k \in 1 .. MaxLinks, MakeLink(x, k) PROVE TypeInv'
  <2> DEFINE new == [work[x] EXCEPT !.at = WithLink(x), !.link = k]
             row == [NoLink EXCEPT !.made = TRUE, !.live = TRUE]
  <2>1. /\ work' = [work EXCEPT ![x] = new] /\ link' = [link EXCEPT ![k] = row]
        /\ UNCHANGED <<notice, leads, told, slips, deliveryFaults>>
    BY <1>8, Typed DEF MakeLink
  <2>4. /\ WithLink(x) \in {"closing", "sending"}
        /\ work[x] \in WorkType /\ k \in 0 .. MaxLinks
    BY Typed DEF WithLink
  <2>2. new \in WorkType /\ Linked(new) BY <2>4 DEF WorkType, Linked
  <2>3. row \in LinkType BY DEF NoLink, LinkType
  <2> HIDE DEF new, row
  <2> QED BY <2>1, <2>2, <2>3, <1>6, Typed
<1>9. ASSUME NEW x \in Sender, ReadShort(x) PROVE TypeInv'
  <2> DEFINE kept == IF link[work[x].link].live THEN link[work[x].link].short ELSE "none"
             new == [work[x] EXCEPT !.url = kept, !.at = IF kept = "none" THEN "minting" ELSE "checking"]
  <2>1. /\ work[x] \in WorkType /\ work[x].link \in 1 .. MaxLinks
        /\ UNCHANGED <<notice, link, leads, told, slips, deliveryFaults>>
        /\ work' = [work EXCEPT ![x] = new]
    BY <1>9, Typed DEF ReadShort, TypeInv, HasLink, Linked
  <2>2. kept \in Short \cup {"none"} BY <2>1, Typed DEF LinkType
  <2> HIDE DEF kept
  <2>3. new \in WorkType /\ Linked(new) BY <2>1, <2>2 DEF WorkType, Linked
  <2> HIDE DEF new
  <2> QED BY <2>1, <2>3, <1>6, Typed
<1>10. ASSUME NEW x \in Sender, CheckShort(x) \/ CheckFails(x) PROVE TypeInv'
  <2>0. work[x] \in WorkType /\ work[x].link \in 1 .. MaxLinks
    BY <1>10, Typed DEF CheckShort, CheckFails, TypeInv, HasLink, Linked
  <2>1. PICK point \in {"texting", "minting"}, url \in {work[x].url, "none"} :
          work' = [work EXCEPT ![x] = [work[x] EXCEPT !.at = point, !.url = url]]
    BY <1>10, <2>0, Typed DEF CheckShort, CheckFails, Moves, WorkType
  <2>2. UNCHANGED <<notice, leads, told, slips>> BY <1>10 DEF CheckShort, CheckFails
  <2>3. /\ link' \in [1 .. MaxLinks -> LinkType]
        /\ deliveryFaults' \in 0 .. MaxDeliveryFaults
    <3>1. CASE CheckShort(x) BY <3>1, <2>0, ShortKept, Typed DEF CheckShort
    <3>2. CASE CheckFails(x)
      <4>0. link[work[x].link] \in LinkType BY <2>0, Typed
      <4>1. [link[work[x].link] EXCEPT !.short = "none"] \in LinkType
        BY <4>0 DEF LinkType
      <4> QED BY <3>2, <4>1, <2>0, RowWritten, FaultCounted DEF CheckFails
    <3> QED BY <1>10, <3>1, <3>2
  <2> DEFINE new == [work[x] EXCEPT !.at = point, !.url = url]
  <2>4. new \in WorkType /\ Linked(new) BY <2>0 DEF WorkType, Linked
  <2>5. work' = [work EXCEPT ![x] = new] BY <2>1
  <2> HIDE DEF new
  <2> QED BY <2>2, <2>3, <2>4, <2>5, <1>6, Typed
<1>11. ASSUME NEW x \in Sender, MintShort(x) PROVE TypeInv'
  <2>0. work[x] \in WorkType /\ work[x].link \in 1 .. MaxLinks
    BY <1>11, Typed DEF MintShort, TypeInv, HasLink, Linked
  <2>1. UNCHANGED <<notice, told, slips>> BY <1>11 DEF MintShort
  <2>2. ASSUME NEW url \in Short \cup {"plain"},
               work' = [work EXCEPT ![x].at = "texting", ![x].url = url],
               link' \in [1 .. MaxLinks -> LinkType], leads' \in [Short -> 0 .. MaxLinks],
               deliveryFaults' \in 0 .. MaxDeliveryFaults
        PROVE  TypeInv'
    <3> DEFINE new == [work[x] EXCEPT !.at = "texting", !.url = url]
    <3>1. work' = [work EXCEPT ![x] = new] BY <2>2, Typed
    <3>2. new \in WorkType /\ Linked(new) BY <2>0 DEF WorkType, Linked
    <3> HIDE DEF new
    <3> QED BY <2>1, <2>2, <3>1, <3>2, <1>6
  <2>3. ASSUME NEW s \in Short, Caches(x, s), leads' = [leads EXCEPT ![s] = work[x].link]
        PROVE  /\ link' \in [1 .. MaxLinks -> LinkType] /\ leads' \in [Short -> 0 .. MaxLinks]
               /\ deliveryFaults' \in 0 .. MaxDeliveryFaults
    BY <2>0, <2>3, ShortKept, Typed
  <2> QED BY <1>11, <2>2, <2>3, Typed DEF MintShort
<1>12. ASSUME NEW x \in Sender, MailLink(x) \/ TextLink(x) PROVE TypeInv'
  BY <1>12, LegTypes DEF MailLink, TextLink, Medium, TypeInv, HasLink, Linked
<1>13. ASSUME NEW x \in Sender, CloseSend(x) PROVE TypeInv'
  <2> DEFINE new == [Idle EXCEPT !.at = IF x \in Clerk THEN "done" ELSE "idle"]
  <2>1. /\ work' = [work EXCEPT ![x] = new] /\ UNCHANGED <<notice, leads, told, slips>>
        /\ work[x].link \in 1 .. MaxLinks
    BY <1>13, Typed DEF CloseSend, TypeInv, HasLink, Linked
  <2>2. new \in WorkType /\ Linked(new)
    BY DeliveryAssumption DEF WorkType, Idle, Medium, Linked
  <2>3. Stamped(link[work[x].link], x) \in LinkType
    <3>1. link[work[x].link] \in LinkType BY <2>1, Typed
    <3> QED BY <3>1 DEF Stamped, LinkType
  <2>4. /\ link' \in [1 .. MaxLinks -> LinkType]
        /\ deliveryFaults' \in 0 .. MaxDeliveryFaults
    BY <1>13, <2>1, <2>3, RowWritten, FaultCounted, Typed DEF CloseSend
  <2> HIDE DEF new
  <2> QED BY <2>1, <2>2, <2>4, <1>6, Typed
<1>14. ASSUME NEW k \in 1 .. MaxLinks, ExpireLink(k) PROVE TypeInv'
  <2>1. link' = [link EXCEPT ![k] = [NoLink EXCEPT !.made = TRUE]]
        /\ UNCHANGED <<notice, leads, work, told, slips, deliveryFaults>>
    BY <1>14 DEF ExpireLink
  <2>2. [NoLink EXCEPT !.made = TRUE] \in LinkType BY DEF NoLink, LinkType
  <2>3. link' \in [1 .. MaxLinks -> LinkType] BY <2>1, <2>2, Typed
  <2> QED BY <2>1, <2>3 DEF TypeInv, DeliveryTypeOK, LinkType, HasLink
<1>15. ASSUME NEW s \in Short, Divert(s) PROVE TypeInv'
  <2>1. leads' = [leads EXCEPT ![s] = 0]
        /\ UNCHANGED <<notice, link, work, told, slips, deliveryFaults>>
    BY <1>15 DEF Divert
  <2>2. leads' \in [Short -> 0 .. MaxLinks] BY <2>1, Typed, DeliveryAssumption
  <2> QED BY <2>1, <2>2 DEF TypeInv, DeliveryTypeOK, HasLink
<1>16. CASE UNCHANGED deliveryVars
  BY <1>16 DEF TypeInv, DeliveryTypeOK, HasLink, deliveryVars
<1> QED BY <1>1, <1>2, <1>3, <1>4, <1>5, <1>7, <1>8, <1>9, <1>10, <1>11, <1>12, <1>13,
           <1>14, <1>15, <1>16 DEF DeliveryNext

(* Every variable of the delivery has its type.                             *)
THEOREM DeliveryTyped == DeliverySpec => []DeliveryTypeOK
<1>1. TypeInv => DeliveryTypeOK BY DEF TypeInv
<1> QED BY <1>1, TypeStart, TypeStep, PTL DEF DeliverySpec

-----------------------------------------------------------------------------
(* Legs.                                                                   *)

\* A row is worked on while it is in progress, and closed once it is completed;
\* what has been accepted was tried; and only a text is left to send when the
\* URL is looked for.
PlaceOf(n) ==
  /\ work[n].at = "idle" => work[n].out = {}
  /\ work[n].at \in {"looking", "making", "sending", "checking", "minting", "texting", "settling"}
       => notice[n].status = "in_progress"
  /\ work[n].at = "closing" => notice[n].status = "completed"
  /\ work[n].at # "done"
  /\ work[n].at \in {"looking", "making"} => work[n].legs # {}
  /\ work[n].at \in {"checking", "minting", "texting"} => work[n].legs \ work[n].tried = {"sms"}
  /\ work[n].out \subseteq work[n].tried
RowsPlaced == \A n \in Notice : PlaceOf(n)

\* A leg has gone out as often as its successes were lost, and once more when
\* the success is in the sender's hand or has completed the row.
Known(n, m) == IF m \in work[n].out \/ notice[n].status = "completed" THEN 1 ELSE 0
Ledger == \A n \in Notice, m \in Medium : told[n][m] <= slips[n] + Known(n, m)

LegInv == TypeInv /\ RowsPlaced /\ Ledger

LEMMA LegStart == DeliveryInit => LegInv
<1> SUFFICES ASSUME DeliveryInit PROVE LegInv OBVIOUS
<1> USE DEF DeliveryInit, Idle, Sender
<1>1. RowsPlaced BY DEF RowsPlaced, PlaceOf
<1>2. Ledger BY DEF Ledger, Known
<1> QED BY <1>1, <1>2, TypeStart DEF LegInv

LEMMA KnownBit == ASSUME NEW n, NEW m PROVE Known(n, m) \in {0, 1}
BY DEF Known

\* The sender moves on.
LEMMA MoveOn ==
  ASSUME LegInv, NEW x \in Sender, \A n \in Notice : n # x => work'[n] = work[n],
         UNCHANGED <<notice, told, slips>>,
         x \in Notice => /\ work'[x].out = work[x].out \/ notice[x].status = "completed"
                         /\ PlaceOf(x)'
  PROVE  RowsPlaced' /\ Ledger'
<1>1. ASSUME NEW n \in Notice PROVE PlaceOf(n)'
  BY DEF LegInv, RowsPlaced, PlaceOf
<1>2. ASSUME NEW n \in Notice, NEW m \in Medium PROVE Known(n, m)' = Known(n, m)
  BY DEF Known
<1> QED BY <1>1, <1>2 DEF LegInv, RowsPlaced, Ledger

\* A leg that is tried was not tried before, so the sender does not have it.
LEMMA LegTried ==
  ASSUME LegInv, NEW n \in Notice, NEW m \in Medium, TryLeg(n, m),
         m \in work[n].legs \ work[n].tried, notice[n].status = "in_progress",
         TypeInv', UNCHANGED notice
  PROVE  RowsPlaced' /\ Ledger'
<1> USE DEF LegInv
<1>0. n \in Sender /\ n \notin Clerk BY DeliveryAssumption DEF Sender
<1>1. PICK accepted \in BOOLEAN, heard \in BOOLEAN :
        LET tried == work[n].tried \cup {m}
            out   == IF accepted /\ heard THEN work[n].out \cup {m} ELSE work[n].out
        IN  /\ work' = [work EXCEPT ![n].tried = tried, ![n].out = out,
                                    ![n].at = AfterLeg(n, tried, out)]
            /\ told' = IF accepted THEN [told EXCEPT ![n][m] = @ + 1] ELSE told
            /\ slips' = IF accepted /\ ~heard THEN [slips EXCEPT ![n] = @ + 1] ELSE slips
  BY DEF TryLeg
<1> DEFINE tried == work[n].tried \cup {m}
           out == IF accepted /\ heard THEN work[n].out \cup {m} ELSE work[n].out
<1>2. AfterLeg(n, tried, out) \in {"sending", "settling"} BY <1>0 DEF AfterLeg
<1>3. /\ work'[n].out = out /\ work'[n].tried = tried /\ work'[n].at \in {"sending", "settling"}
      /\ \A i \in Notice : i # n => work'[i] = work[i]
  <2>1. work' = [work EXCEPT ![n] = [work[n] EXCEPT !.tried = tried, !.out = out,
                                                    !.at = AfterLeg(n, tried, out)]]
    BY <1>0, <1>1, Typed
  <2>2. work[n] \in WorkType BY <1>0, Typed
  <2> QED BY <1>0, <1>2, <2>1, <2>2, Typed DEF WorkType
<1>4. RowsPlaced'
  <2> SUFFICES ASSUME NEW i \in Notice PROVE PlaceOf(i)' BY DEF RowsPlaced
  <2>1. CASE i # n BY <1>3, <2>1 DEF RowsPlaced, PlaceOf
  <2>2. CASE i = n
    <3>1. work'[n].out \subseteq work'[n].tried BY <1>3 DEF RowsPlaced, PlaceOf
    <3> QED BY <1>3, <2>2, <3>1 DEF PlaceOf
  <2> QED BY <2>1, <2>2
<1>5. Ledger'
  <2> SUFFICES ASSUME NEW i \in Notice, NEW k \in Medium
               PROVE  told'[i][k] <= slips'[i] + Known(i, k)'
    BY DEF Ledger
  <2>1. told[i][k] <= slips[i] + Known(i, k) BY DEF Ledger
  <2>2. /\ told[i][k] \in Nat /\ slips[i] \in Nat
        /\ Known(i, k) \in {0, 1} /\ Known(i, k)' \in {0, 1}
    BY Typed DEF Known
  <2>3. CASE i # n
    <3>1. told'[i] = told[i] /\ slips'[i] = slips[i] BY <1>1, <2>3, Typed
    <3>2. Known(i, k)' = Known(i, k) BY <1>3, <2>3 DEF Known
    <3> QED BY <2>1, <3>1, <3>2
  <2>4. CASE i = n /\ k # m
    <3>1. told'[i][k] = told[i][k] /\ slips'[i] \in {slips[i], slips[i] + 1}
      BY <1>1, <2>4, Typed
    <3>2. Known(i, k)' = Known(i, k) BY <1>3, <2>4 DEF Known
    <3> QED BY <2>1, <2>2, <3>1, <3>2
  <2>5. CASE i = n /\ k = m
    <3>1. m \notin work[n].out BY DEF RowsPlaced, PlaceOf
    <3>2. Known(i, k) = 0 BY <3>1, <2>5 DEF Known
    <3>3. told[i][k] <= slips[i] BY <2>1, <2>2, <3>2
    <3>4. CASE accepted /\ heard
      <4>1. told'[i][k] = told[i][k] + 1 /\ slips'[i] = slips[i] BY <1>1, <2>5, <3>4, Typed
      <4>2. Known(i, k)' = 1 BY <1>3, <2>5, <3>4 DEF Known
      <4> QED BY <2>2, <3>3, <4>1, <4>2
    <3>5. CASE accepted /\ ~heard
      <4>1. told'[i][k] = told[i][k] + 1 /\ slips'[i] = slips[i] + 1 BY <1>1, <2>5, <3>5, Typed
      <4> QED BY <2>2, <3>3, <4>1
    <3>6. CASE ~accepted
      <4>1. told'[i][k] = told[i][k] /\ slips'[i] = slips[i] BY <1>1, <2>5, <3>6
      <4> QED BY <2>2, <3>3, <4>1
    <3> QED BY <3>4, <3>5, <3>6
  <2> QED BY <2>3, <2>4, <2>5
<1> QED BY <1>4, <1>5

\* A row is given up for now: the sender lets go of what it had, and a success
\* it had is lost.
LEMMA LetGo ==
  ASSUME LegInv, NEW n \in Notice, work' = [work EXCEPT ![n] = Idle], UNCHANGED told,
         \A i \in Notice : i # n => notice'[i] = notice[i],
         slips' = IF work[n].out = {} THEN slips ELSE [slips EXCEPT ![n] = @ + 1],
         notice[n].status = "completed" => notice'[n].status = "completed"
  PROVE  RowsPlaced' /\ Ledger'
<1> USE DEF LegInv
<1>1. /\ work'[n] = Idle
      /\ \A i \in Notice : i # n => work'[i] = work[i]
  BY Typed DEF Sender
<1>2. RowsPlaced' BY <1>1 DEF RowsPlaced, PlaceOf, Idle
<1>3. Ledger'
  <2> SUFFICES ASSUME NEW i \in Notice, NEW k \in Medium
               PROVE  told'[i][k] <= slips'[i] + Known(i, k)'
    BY DEF Ledger
  <2>1. told[i][k] <= slips[i] + Known(i, k) BY DEF Ledger
  <2>2. /\ told[i][k] \in Nat /\ slips[i] \in Nat
        /\ Known(i, k) \in {0, 1} /\ Known(i, k)' \in {0, 1}
    BY Typed DEF Known
  <2>3. CASE i # n
    <3>1. Known(i, k)' = Known(i, k) /\ slips'[i] = slips[i]
      BY <1>1, <2>3, Typed DEF Known
    <3> QED BY <2>1, <3>1
  <2>4. CASE i = n /\ notice[i].status = "completed"
    <3>1. Known(i, k)' = 1 BY <2>4 DEF Known
    <3>2. slips'[i] \in {slips[i], slips[i] + 1} BY Typed
    <3> QED BY <2>1, <2>2, <3>1, <3>2
  <2>5. CASE i = n /\ notice[i].status # "completed" /\ work[n].out = {}
    <3>1. Known(i, k) = 0 /\ slips'[i] = slips[i] BY <2>5 DEF Known
    <3> QED BY <2>1, <2>2, <3>1
  <2>6. CASE i = n /\ work[n].out # {}
    <3>1. slips'[i] = slips[i] + 1 BY <2>6, Typed
    <3> QED BY <2>1, <2>2, <3>1
  <2> QED BY <2>3, <2>4, <2>5, <2>6
<1> QED BY <1>2, <1>3

\* A row that nobody works on, and that is not completed, changes.
LEMMA RowMoves ==
  ASSUME LegInv, NEW n \in Notice, work[n].at = "idle",
         notice[n].status # "completed", notice'[n].status # "completed",
         \A i \in Notice : i # n => notice'[i] = notice[i],
         UNCHANGED <<work, told, slips>>
  PROVE  RowsPlaced' /\ Ledger'
<1>1. RowsPlaced' BY DEF LegInv, RowsPlaced, PlaceOf
<1>2. ASSUME NEW i \in Notice, NEW m \in Medium PROVE Known(i, m)' = Known(i, m)
  BY DEF Known
<1> QED BY <1>1, <1>2 DEF LegInv, Ledger

LEMMA LegStep == LegInv /\ [DeliveryNext]_deliveryVars => LegInv'
<1> SUFFICES ASSUME LegInv, [DeliveryNext]_deliveryVars PROVE LegInv' OBVIOUS
<1>0. TypeInv' BY TypeStep DEF LegInv
<1> DEFINE Goal == RowsPlaced' /\ Ledger'
<1> USE DEF LegInv
<1>1. ASSUME NEW n \in Notice, AddNotice(n) PROVE Goal
  <2>1. PICK channel \in {"web_chat", "sms"} :
          notice' = [notice EXCEPT ![n].status = "pending", ![n].channel = channel]
    BY <1>1 DEF AddNotice
  <2>2. notice[n] \in NoticeType /\ notice[n].status = "absent" BY <1>1, Typed DEF AddNotice
  <2>3. work[n].at \in {"idle", "looking", "making", "sending", "checking", "minting",
                       "texting", "settling", "closing", "done"}
    BY Typed DEF WorkType, Sender
  <2>4. work[n].at = "idle" BY <2>2, <2>3 DEF RowsPlaced, PlaceOf
  <2>5. /\ notice'[n].status = "pending"
        /\ \A i \in Notice : i # n => notice'[i] = notice[i]
    BY <2>1, <2>2, Typed DEF NoticeType
  <2>6. UNCHANGED <<work, told, slips>> BY <1>1 DEF AddNotice
  <2> QED BY <2>2, <2>4, <2>5, <2>6, RowMoves
<1>2. ASSUME NEW n \in Notice, RecoverNotice(n) PROVE Goal
  <2>1. /\ notice' = [notice EXCEPT ![n].status = "pending"]
        /\ notice[n].status = "in_progress" /\ work[n].at = "idle"
        /\ UNCHANGED <<work, told, slips>>
    BY <1>2 DEF RecoverNotice
  <2>2. notice[n] \in NoticeType BY Typed
  <2>3. /\ notice'[n].status = "pending"
        /\ \A i \in Notice : i # n => notice'[i] = notice[i]
    BY <2>1, <2>2, Typed DEF NoticeType
  <2> QED BY <2>1, <2>3, RowMoves
<1>3. ASSUME NEW n \in Notice, NEW legs \in SUBSET Medium, BeginNotice(n, legs) PROVE Goal
  <2> DEFINE new == [Idle EXCEPT !.legs = legs, !.at = IF legs = {} THEN "settling" ELSE "looking"]
  <2>1. /\ notice' = [notice EXCEPT ![n].status = "in_progress"]
        /\ work' = [work EXCEPT ![n] = new] /\ UNCHANGED <<told, slips>>
        /\ notice[n].status = "pending" /\ work[n].at = "idle"
    BY <1>3 DEF BeginNotice
  <2>2. notice[n] \in NoticeType BY Typed
  <2>3. /\ notice'[n].status = "in_progress"
        /\ \A i \in Notice : i # n => notice'[i] = notice[i]
    BY <2>1, <2>2, Typed DEF NoticeType
  <2>4. /\ work'[n] = new
        /\ \A i \in Notice : i # n => work'[i] = work[i]
    BY <2>1, Typed DEF Sender
  <2>5. /\ new.out = {} /\ new.legs = legs
        /\ (legs = {} /\ new.at = "settling") \/ (legs # {} /\ new.at = "looking")
    <3>1. Idle \in WorkType BY IdleTyped
    <3>2. new.legs = legs BY <3>1 DEF WorkType
    <3>3. new.at = IF legs = {} THEN "settling" ELSE "looking" BY <3>1 DEF WorkType
    <3>4. new.out = {} BY DEF Idle
    <3> QED BY <3>2, <3>3, <3>4
  <2> HIDE DEF new
  <2>6. RowsPlaced' BY <2>3, <2>4, <2>5 DEF RowsPlaced, PlaceOf
  <2>7. work[n].out = {} BY <2>1 DEF RowsPlaced, PlaceOf
  <2>8. ASSUME NEW i \in Notice, NEW m \in Medium PROVE Known(i, m)' = Known(i, m)
    BY <2>1, <2>3, <2>4, <2>5, <2>7 DEF Known
  <2> QED BY <2>1, <2>6, <2>8 DEF Ledger
<1>4. ASSUME NEW n \in Notice, RetryNotice(n) PROVE Goal
  <2>1. /\ Again(n) /\ work[n].out = {} /\ work[n].at = "settling" /\ UNCHANGED <<told, slips>>
    BY <1>4 DEF RetryNotice, Undelivered
  <2>2. notice[n].status = "in_progress" BY <2>1 DEF RowsPlaced, PlaceOf
  <2> QED BY <2>1, <2>2, AgainRow, LetGo
<1>5. ASSUME NEW n \in Notice, CompletionFails(n) PROVE Goal
  <2>1. /\ Again(n) /\ work[n].out # {} /\ work[n].at = "settling" /\ UNCHANGED told
        /\ slips' = [slips EXCEPT ![n] = @ + 1]
    BY <1>5 DEF CompletionFails, Undelivered
  <2>2. notice[n].status = "in_progress" BY <2>1 DEF RowsPlaced, PlaceOf
  <2> QED BY <2>1, <2>2, AgainRow, LetGo
<1>6. ASSUME NEW n \in Notice, SenderDies(n) PROVE Goal
  BY <1>6, LetGo DEF SenderDies
<1>7. ASSUME NEW n \in Notice, CompleteNotice(n) PROVE Goal
  <2> DEFINE new == IF notice[n].channel = "sms" THEN Idle ELSE [work[n] EXCEPT !.at = "closing"]
  <2>1. /\ notice' = [notice EXCEPT ![n].status = "completed"]
        /\ work' = [work EXCEPT ![n] = new]
        /\ work[n].at = "settling" /\ UNCHANGED <<told, slips>>
    BY <1>7 DEF CompleteNotice
  <2>2. notice[n] \in NoticeType /\ work[n] \in WorkType BY Typed DEF Sender
  <2>3. /\ notice'[n].status = "completed"
        /\ \A i \in Notice : i # n => notice'[i] = notice[i]
    BY <2>1, <2>2, Typed DEF NoticeType
  <2>4. /\ work'[n] = new
        /\ \A i \in Notice : i # n => work'[i] = work[i]
    BY <2>1, Typed DEF Sender
  <2>5. /\ new.at \in {"idle", "closing"} /\ new.out \subseteq new.tried
        /\ new.at = "idle" => new.out = {}
    BY <2>2 DEF Idle, WorkType, RowsPlaced, PlaceOf
  <2> HIDE DEF new
  <2>6. RowsPlaced' BY <2>3, <2>4, <2>5 DEF RowsPlaced, PlaceOf
  <2>7. ASSUME NEW i \in Notice, NEW m \in Medium
        PROVE  told'[i][m] <= slips'[i] + Known(i, m)'
    <3>1. told[i][m] <= slips[i] + Known(i, m) BY DEF Ledger
    <3>2. told[i][m] \in Nat /\ slips[i] \in Nat /\ Known(i, m) \in {0, 1}
      BY Typed DEF Known
    <3>3. CASE i = n
      <4>1. Known(i, m)' = 1 BY <3>3, <2>3 DEF Known
      <4> QED BY <2>1, <3>1, <3>2, <4>1
    <3>4. CASE i # n
      <4>1. Known(i, m)' = Known(i, m) BY <3>4, <2>3, <2>4 DEF Known
      <4> QED BY <2>1, <3>1, <4>1
    <3> QED BY <3>3, <3>4
  <2> QED BY <2>6, <2>7 DEF Ledger
<1>8. ASSUME NEW c \in Clerk, NEW legs \in SUBSET Medium, BeginClerk(c, legs) PROVE Goal
  <2>1. /\ \A n \in Notice : n # c => work'[n] = work[n]
        /\ UNCHANGED <<notice, told, slips>>
    BY <1>8, Typed DEF BeginClerk, Sender
  <2>2. c \in Sender /\ c \notin Notice BY DeliveryAssumption DEF Sender
  <2> QED BY <2>1, <2>2, MoveOn
<1>9. ASSUME NEW x \in Sender, \A n \in Notice : n # x => work'[n] = work[n],
             work'[x].out = work[x].out, work'[x].legs = work[x].legs,
             work'[x].tried = work[x].tried, UNCHANGED <<notice, told, slips>>,
             \/ work[x].at = "looking" /\ work'[x].at = "making"
             \/ /\ work[x].at \in {"looking", "making"}
                /\ work'[x].at = IF work[x].legs = {} THEN "closing" ELSE "sending"
             \/ /\ work[x].at = "sending" /\ work[x].legs \ work[x].tried = {"sms"}
                /\ work'[x].at \in {"minting", "checking"}
             \/ work[x].at \in {"checking", "minting"} /\ work'[x].at \in {"minting", "texting"}
      PROVE  Goal
  <2>1. x \in Notice => PlaceOf(x)' BY <1>9 DEF RowsPlaced, PlaceOf
  <2> QED BY <1>9, <2>1, MoveOn
<1>10. ASSUME NEW x \in Sender, FindLink(x) PROVE Goal
  <2>1. work[x] \in WorkType /\ UNCHANGED <<notice, told, slips>> /\ work[x].at = "looking"
    BY <1>10, Typed DEF FindLink
  <2>2. /\ \A n \in Notice : n # x => work'[n] = work[n]
        /\ work'[x].out = work[x].out /\ work'[x].legs = work[x].legs
        /\ work'[x].tried = work[x].tried /\ work'[x].at \in {"making", WithLink(x)}
    BY <1>10, <2>1, Typed DEF FindLink, Moves, WorkType, Sender
  <2> QED BY <1>9, <2>1, <2>2 DEF WithLink
<1>11. ASSUME NEW x \in Sender, NEW k \in 1 .. MaxLinks, MakeLink(x, k) PROVE Goal
  <2>1. work[x] \in WorkType /\ UNCHANGED <<notice, told, slips>> /\ work[x].at = "making"
    BY <1>11, Typed DEF MakeLink
  <2>2. /\ \A n \in Notice : n # x => work'[n] = work[n]
        /\ work'[x].out = work[x].out /\ work'[x].legs = work[x].legs
        /\ work'[x].tried = work[x].tried /\ work'[x].at = WithLink(x)
    BY <1>11, <2>1, Typed DEF MakeLink, WorkType, Sender
  <2> QED BY <1>9, <2>1, <2>2 DEF WithLink
<1>12. ASSUME NEW x \in Sender,
              ReadShort(x) \/ CheckShort(x) \/ CheckFails(x) \/ MintShort(x)
       PROVE  Goal
  <2>1. work[x] \in WorkType /\ UNCHANGED <<notice, told, slips>>
    BY <1>12, Typed DEF ReadShort, CheckShort, CheckFails, MintShort
  <2>2. CASE ReadShort(x)
    <3>1. /\ \A n \in Notice : n # x => work'[n] = work[n]
          /\ work'[x].out = work[x].out /\ work'[x].legs = work[x].legs
          /\ work'[x].tried = work[x].tried /\ work'[x].at \in {"minting", "checking"}
      BY <2>1, <2>2, Typed DEF ReadShort, WorkType, Sender
    <3> QED BY <1>9, <2>1, <2>2, <3>1 DEF ReadShort
  <2>3. CASE CheckShort(x) \/ CheckFails(x)
    <3>1. /\ \A n \in Notice : n # x => work'[n] = work[n]
          /\ work'[x].out = work[x].out /\ work'[x].legs = work[x].legs
          /\ work'[x].tried = work[x].tried /\ work'[x].at \in {"minting", "texting"}
      BY <2>1, <2>3, Typed DEF CheckShort, CheckFails, Moves, WorkType, Sender
    <3> QED BY <1>9, <2>1, <2>3, <3>1 DEF CheckShort, CheckFails
  <2>4. CASE MintShort(x)
    <3>1. /\ \A n \in Notice : n # x => work'[n] = work[n]
          /\ work'[x].out = work[x].out /\ work'[x].legs = work[x].legs
          /\ work'[x].tried = work[x].tried /\ work'[x].at = "texting"
      BY <2>1, <2>4, Typed DEF MintShort, WorkType, Sender
    <3> QED BY <1>9, <2>1, <2>4, <3>1 DEF MintShort
  <2> QED BY <1>12, <2>2, <2>3, <2>4
<1>13. ASSUME NEW x \in Sender, MailLink(x) \/ TextLink(x) PROVE Goal
  <2>1. CASE x \in Notice
    <3>1. PICK m \in Medium : TryLeg(x, m) /\ m \in work[x].legs \ work[x].tried
      BY <1>13, <2>1 DEF MailLink, TextLink, Medium, RowsPlaced, PlaceOf
    <3>2. notice[x].status = "in_progress" /\ UNCHANGED notice
      BY <1>13, <2>1 DEF MailLink, TextLink, RowsPlaced, PlaceOf
    <3> QED BY <1>0, <2>1, <3>1, <3>2, LegTried
  <2>2. CASE x \notin Notice
    <3>1. UNCHANGED <<notice, told, slips>>
      BY <1>13, <2>2 DEF MailLink, TextLink, TryLeg
    <3>2. \A n \in Notice : n # x => work'[n] = work[n]
      BY <1>13, Typed DEF MailLink, TextLink, TryLeg, Sender
    <3> QED BY <2>2, <3>1, <3>2, MoveOn
  <2> QED BY <2>1, <2>2
<1>14. ASSUME NEW x \in Sender, CloseSend(x) PROVE Goal
  <2> DEFINE new == [Idle EXCEPT !.at = IF x \in Clerk THEN "done" ELSE "idle"]
  <2>1. /\ work' = [work EXCEPT ![x] = new] /\ UNCHANGED <<notice, told, slips>>
        /\ work[x].at = "closing"
    BY <1>14 DEF CloseSend
  <2>2. work'[x] = new /\ \A n \in Notice : n # x => work'[n] = work[n]
    BY <2>1, Typed DEF Sender
  <2>3. x \in Notice => new = Idle BY DeliveryAssumption DEF Idle
  <2> HIDE DEF new
  <2>4. x \in Notice => notice[x].status = "completed" /\ PlaceOf(x)'
    BY <2>1, <2>2, <2>3 DEF RowsPlaced, PlaceOf, Idle
  <2> QED BY <2>1, <2>2, <2>4, MoveOn
<1>15. CASE (\E k \in 1 .. MaxLinks : ExpireLink(k)) \/ (\E s \in Short : Divert(s))
            \/ UNCHANGED deliveryVars
  <2>1. UNCHANGED <<notice, work, told, slips>>
    BY <1>15 DEF ExpireLink, Divert, deliveryVars
  <2>2. RowsPlaced' BY <2>1 DEF RowsPlaced, PlaceOf
  <2>3. \A n \in Notice, m \in Medium : Known(n, m)' = Known(n, m) BY <2>1 DEF Known
  <2>4. Ledger' BY <2>1, <2>3 DEF Ledger
  <2> QED BY <1>0, <2>2, <2>4
<1>16. Goal
  BY <1>0, <1>1, <1>2, <1>3, <1>4, <1>5, <1>6, <1>7, <1>8, <1>10, <1>11, <1>12, <1>13, <1>14, <1>15
  DEF DeliveryNext
<1> QED BY <1>0, <1>16

(* A row repeats a leg that has gone out only when the success was lost:    *)
(* a retry of the failed leg of a row sent by e-mail and text never sends   *)
(* the other one again, however many rows, links, retries and requests of   *)
(* staff there are.                                                         *)
THEOREM LegsOnce == DeliverySpec => []LegOnce
<1>1. LegInv => LegOnce
  <2> SUFFICES ASSUME LegInv, NEW n \in Notice, NEW m \in Medium
               PROVE  told[n][m] <= 1 + slips[n]
    BY DEF LegOnce
  <2>1. /\ told[n][m] <= slips[n] + Known(n, m) /\ Known(n, m) \in {0, 1}
        /\ told[n][m] \in Nat /\ slips[n] \in Nat
    BY Typed DEF LegInv, Ledger, Known
  <2> QED BY <2>1
<1> QED BY <1>1, LegStart, LegStep, PTL DEF DeliverySpec

-----------------------------------------------------------------------------
(* All parts.                                                              *)

\* A behaviour of the parts together is one of each.
LEMMA OperationParts == OperationSpec => Spec /\ EngineSpec /\ ReportSpec /\ DeliverySpec
<1>1. OperationInit => Init /\ EngineInit /\ ReportInit /\ DeliveryInit BY DEF OperationInit
<1>2. [OperationNext]_operationVars =>
        [Next]_vars /\ [EngineNext]_engineVars /\ [ReportNext]_reportVars
        /\ [DeliveryNext]_deliveryVars
  BY DEF OperationNext, operationVars
<1> QED BY <1>1, <1>2, PTL DEF OperationSpec, Spec, EngineSpec, ReportSpec, DeliverySpec

\* Every variable of the parts keeps its type.
THEOREM OperationTyped == OperationSpec => []OperationTypeOK
<1>1. TypeOK /\ EngineTypeOK /\ ReportTypeOK /\ DeliveryTypeOK => OperationTypeOK
  BY DEF OperationTypeOK
<1> QED BY <1>1, OperationParts, TypeCorrect, EngineTyped, ReportTyped, DeliveryTyped, PTL
=============================================================================
