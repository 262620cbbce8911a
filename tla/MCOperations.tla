----------------------------- MODULE MCOperations -----------------------------
(* The queue of calls, the delivery of links, the workflow engine and the    *)
(* daily report, checked by one run: a behaviour is of one of the parts.     *)
EXTENDS MCCallQueue, EngineRun, DailyReport, LinkDelivery

VARIABLE part
operationVars == <<vars, engineVars, reportVars, deliveryVars, part>>

OperationInit == /\ Init /\ EngineInit /\ ReportInit /\ DeliveryInit
                 /\ part \in {"queue", "engine", "report", "delivery"}
OperationNext ==
  \/ part = "queue" /\ Next /\ UNCHANGED <<engineVars, reportVars, deliveryVars, part>>
  \/ part = "engine" /\ EngineNext /\ UNCHANGED <<vars, reportVars, deliveryVars, part>>
  \/ part = "report" /\ ReportNext /\ UNCHANGED <<vars, engineVars, deliveryVars, part>>
  \/ part = "delivery" /\ DeliveryNext /\ UNCHANGED <<vars, engineVars, reportVars, part>>

Reaping(A) == part = "engine" /\ A /\ UNCHANGED <<vars, reportVars, deliveryVars, part>>
OperationSpec ==
  /\ OperationInit /\ [][OperationNext]_operationVars
  /\ WF_operationVars(Reaping(CronStep))

(* Every variable has its type.                                             *)
OperationTypeOK == TypeOK /\ EngineTypeOK /\ ReportTypeOK /\ DeliveryTypeOK
=============================================================================
