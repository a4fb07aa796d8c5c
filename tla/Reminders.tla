-------------------------------- MODULE Reminders --------------------------------
(***************************************************************************)
(* The reminders of an event, email-reminders.job.ts: every day one job    *)
(* reminds the orders of the events a week ahead and another those of the  *)
(* next day.  Nothing stores that an order was reminded: that it is so     *)
(* once rests on the days, while orders are paid and refunded, the event   *)
(* is put off, mails fail and the server restarts.                         *)
(***************************************************************************)
EXTENDS Integers, FiniteSets

CONSTANTS
  Holders,  (* the orders of the event                                     *)
  Week,     (* days ahead of the first reminder, 7 in the code             *)
  LastDay,  (* the days of a behaviour: a bound                            *)
  MaxMoves  (* times the event is given another day: a bound               *)

ASSUME RemindersAssumption ==
  Week \in Nat \ {0, 1} /\ LastDay \in Nat /\ MaxMoves \in Nat

VARIABLES
  today,     (* the day                                                    *)
  eventDay,  (* the day of the event                                       *)
  moves,     (* times it was changed                                       *)
  order,     (* each order: its status, and the day since which it has it  *)
  changes,   (* the statuses that handlers in flight are going to write    *)
  hasRun,    (* the jobs that have started today                           *)
  jobs,      (* the orders each job has read and not reminded yet          *)
  reminders, (* how often each order was reminded by each job              *)
  forgone    (* reminders that a failure or a restart has cost             *)

remindersVars == <<today, eventDay, moves, order, changes, hasRun, jobs, reminders, forgone>>

(* sendReminders7Days and sendReminders1Day. *)
Aheads == {1, Week}

PaidOrders == {o \in Holders : order[o].status = "PAID"}

(* requestRefund, rejectRefund, and approveRefund or cancelEvent: what each  *)
(* reads an order to be, by what it is going to make of it.                  *)
ReadAs == [REFUND_REQUESTED |-> {"PAID"},
           PAID |-> {"REFUND_REQUESTED"},
           REFUNDED |-> {"PAID", "REFUND_REQUESTED"}]

Statuses == {"none"} \cup DOMAIN ReadAs

RemindersInit ==
  /\ today = 0
  /\ eventDay \in (Week - 1)..(LastDay - 1)
  /\ moves = 0
  /\ order = [o \in Holders |-> [status |-> "none", since |-> 0]]
  /\ changes = {}
  /\ hasRun = {}
  /\ jobs = [k \in Aheads |-> {}]
  /\ reminders = [o \in Holders |-> [k \in Aheads |-> 0]]
  /\ forgone = [o \in Holders |-> {}]
-------------------------------------------------------------------------------
HolderBecomes(o, status) ==
  order' = [order EXCEPT ![o] = IF @.status = status THEN @
                                ELSE [status |-> status, since |-> today]]

PayHolder(o) ==
  /\ order[o].status = "none"
  /\ HolderBecomes(o, "PAID")
  /\ UNCHANGED <<today, eventDay, moves, changes, hasRun, jobs, reminders, forgone>>

(* The handlers about refunds read the order, and write it later without a  *)
(* condition: when one has written, another like it may be left.             *)
HolderRead(o, status) ==
  /\ order[o].status \in ReadAs[status]
  /\ changes' = changes \cup {<<o, status>>}
  /\ UNCHANGED <<today, eventDay, moves, order, hasRun, jobs, reminders, forgone>>

HolderWritten(o, status) ==
  /\ <<o, status>> \in changes
  /\ changes' \in {changes, changes \ {<<o, status>>}}
  /\ HolderBecomes(o, status)
  /\ UNCHANGED <<today, eventDay, moves, hasRun, jobs, reminders, forgone>>

(* update takes another date at any time, and tells no one. *)
MoveEvent(day) ==
  /\ moves < MaxMoves
  /\ eventDay' = day
  /\ eventDay' # eventDay
  /\ moves' = moves + 1
  /\ UNCHANGED <<today, order, changes, hasRun, jobs, reminders, forgone>>

(* The day passes, its jobs are done; one that the server was down for does *)
(* not run again.                                                            *)
DayPasses ==
  /\ today < LastDay
  /\ \A k \in Aheads : jobs[k] = {}
  /\ today' = today + 1
  /\ hasRun' = {}
  /\ forgone' = [o \in Holders |-> forgone[o] \cup
                   {k \in Aheads \ hasRun : o \in PaidOrders /\ eventDay = today + k}]
  /\ UNCHANGED <<eventDay, moves, order, changes, jobs, reminders>>

(* Mutant: there is no end to the days of the query. *)
JobReadsFrom(k) ==
  /\ k \notin hasRun
  /\ hasRun' = hasRun \cup {k}
  /\ jobs' = [jobs EXCEPT ![k] = IF eventDay >= today + k THEN PaidOrders ELSE {}]
  /\ UNCHANGED <<today, eventDay, moves, order, changes, reminders, forgone>>

(* Mutant: the day is reckoned from the hour of the job. *)
JobReadsNext(k) ==
  /\ k \notin hasRun
  /\ hasRun' = hasRun \cup {k}
  /\ jobs' = [jobs EXCEPT ![k] = IF eventDay = today + k + 1 THEN PaidOrders ELSE {}]
  /\ UNCHANGED <<today, eventDay, moves, order, changes, reminders, forgone>>

(* The job reads the orders paid for the events of that day. *)
JobReads(k) ==
  /\ k \notin hasRun
  /\ hasRun' = hasRun \cup {k}
  /\ jobs' = [jobs EXCEPT ![k] = IF eventDay = today + k THEN PaidOrders ELSE {}]
  /\ UNCHANGED <<today, eventDay, moves, order, changes, reminders, forgone>>

(* It sends the mail and creates the notification of one order after the    *)
(* other, whatever became of it since; a failure of one leaves it out.       *)
Remind(k, o) ==
  /\ o \in jobs[k]
  /\ jobs' = [jobs EXCEPT ![k] = @ \ {o}]
  /\ \/ reminders' = [reminders EXCEPT ![o][k] = @ + 1] /\ UNCHANGED forgone
     \/ forgone' = [forgone EXCEPT ![o] = @ \cup {k}] /\ UNCHANGED reminders
  /\ UNCHANGED <<today, eventDay, moves, order, changes, hasRun>>

(* What the handlers and jobs have read is lost, and no job starts again    *)
(* that day.                                                                *)
JobsRestart ==
  /\ changes # {} \/ \E k \in Aheads : jobs[k] # {}
  /\ changes' = {}
  /\ forgone' = [o \in Holders |-> forgone[o] \cup {k \in Aheads : o \in jobs[k]}]
  /\ jobs' = [k \in Aheads |-> {}]
  /\ UNCHANGED <<today, eventDay, moves, order, hasRun, reminders>>
-------------------------------------------------------------------------------
RemindersNext ==
  \/ \E o \in Holders : PayHolder(o)
  \/ \E o \in Holders, status \in DOMAIN ReadAs : HolderRead(o, status) \/ HolderWritten(o, status)
  \/ \E day \in 1..LastDay : MoveEvent(day)
  \/ \E k \in Aheads : JobReads(k) \/ \E o \in Holders : Remind(k, o)
  \/ DayPasses \/ JobsRestart

RemindersSpec == RemindersInit /\ [][RemindersNext]_remindersVars
-------------------------------------------------------------------------------
(* Properties *)

(* Every variable has its type. *)
RemindersTypeOK ==
  /\ today \in 0..LastDay
  /\ eventDay \in 0..LastDay
  /\ moves \in 0..MaxMoves
  /\ order \in [Holders -> [status : Statuses, since : 0..LastDay]]
  /\ changes \subseteq Holders \X DOMAIN ReadAs
  /\ hasRun \subseteq Aheads
  /\ jobs \in [Aheads -> SUBSET Holders]
  /\ reminders \in [Holders -> [Aheads -> Nat]]
  /\ forgone \in [Holders -> SUBSET Aheads]

(* An order is reminded once of a week ahead and once of the next day,       *)
(* though nothing says that it was: again only after the event has been      *)
(* given another day.                                                        *)
RemindedOnce ==
  \A o \in Holders, k \in Aheads : reminders[o][k] <= 1 + moves

(* Once the day of a reminder is over, every order that has been PAID since *)
(* before that day has had the reminder, unless the event was moved, the    *)
(* order's mail failed, or the server was not there to send it.  One whose  *)
(* refund was asked for and refused around the day is PAID since the        *)
(* refusal: the job has passed it by, and this does not speak of it.        *)
RemindedAhead ==
  \A o \in PaidOrders, k \in Aheads :
    /\ moves = 0
    /\ order[o].since < eventDay - k /\ today > eventDay - k
    /\ k \notin forgone[o]
    => reminders[o][k] = 1

(* No order gets a reminder again unless the event was moved, and one that  *)
(* stays paid gets each.                                                    *)
RemindedRight == RemindedOnce /\ RemindedAhead
===============================================================================
