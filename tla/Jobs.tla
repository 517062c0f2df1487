-------------------------------- MODULE Jobs --------------------------------
(***************************************************************************)
(* The two queues of background jobs: reports an administrator asks for,   *)
(* and notifications.  The queue is Redis with BullMQ: a job is taken, its *)
(* run ends or throws, and when the process dies in the middle the job     *)
(* stalls and is run once more.  An answer of the database may be lost     *)
(* after its statement has committed.                                      *)
(***************************************************************************)
EXTENDS Naturals

CONSTANTS
    Report,      \* rows of reports
    Notice,      \* calls of notify
    Attempts,    \* attempts of a notification job; a report job has one
    MaxStalls    \* how often BullMQ runs a stalled job again

ASSUME JobsAssumption ==
    /\ Report \cap Notice = {}
    /\ Attempts \in Nat \ {0} /\ MaxStalls \in Nat

VARIABLES
    job,         \* where the job of a report or notification is
    step,        \* how far its present run has come
    tries,       \* runs that were not cut short by a stall
    stalls,      \* runs that were
    status,      \* status of a report; "NONE" before its INSERT
    rows,        \* rows of notifications written for a notify
    unread,      \* of these, the unread ones
    lost         \* history: statements of a job that committed unanswered

jobVars == <<job, step, tries, stalls, status, rows, unread, lost>>

Job == Report \cup Notice
MaxRows == Attempts + MaxStalls

JobsInit ==
    /\ job = [j \in Job |-> "NONE"] /\ step = [j \in Job |-> "NONE"]
    /\ tries = [j \in Job |-> 0] /\ stalls = [j \in Job |-> 0] /\ lost = [j \in Job |-> 0]
    /\ status = [r \in Report |-> "NONE"]
    /\ rows = [n \in Notice |-> 0] /\ unread = [n \in Notice |-> 0]

-----------------------------------------------------------------------------
(* The queue.                                                              *)

Goes(j, place, s) == job' = [job EXCEPT ![j] = place] /\ step' = [step EXCEPT ![j] = s]
Running(j, s) == job[j] = "ACTIVE" /\ step[j] = s

Take(j) ==
    /\ job[j] = "WAITING"
    /\ Goes(j, "ACTIVE", "START")
    /\ tries' = [tries EXCEPT ![j] = @ + 1]
    /\ UNCHANGED <<stalls, status, rows, unread, lost>>

\* process has returned.
Finish(j) ==
    /\ Running(j, "END")
    /\ Goes(j, "DONE", "NONE")
    /\ UNCHANGED <<tries, stalls, status, rows, unread, lost>>

\* The process dies: what was running is run again, or given up.
Stall(j) ==
    /\ job[j] = "ACTIVE"
    /\ stalls' = [stalls EXCEPT ![j] = @ + 1]
    /\ tries' = [tries EXCEPT ![j] = @ - 1]
    /\ Goes(j, IF stalls[j] < MaxStalls THEN "WAITING" ELSE "DEAD", "NONE")
    /\ UNCHANGED <<status, rows, unread, lost>>

\* process has thrown.
Thrown(j) ==
    Goes(j, IF j \in Notice /\ tries[j] < Attempts THEN "WAITING" ELSE "DEAD", "NONE")

-----------------------------------------------------------------------------
(* Reports.                                                                *)

\* generate: the row first ...
CreateReport(r) ==
    /\ status[r] = "NONE"
    /\ status' = [status EXCEPT ![r] = "PENDING"]
    /\ Goes(r, "ASKED", "NONE")
    /\ UNCHANGED <<tries, stalls, rows, unread, lost>>

\* ... then the job, unless Redis is away.
AddReport(r) ==
    /\ job[r] = "ASKED"
    /\ Goes(r, "WAITING", "NONE") \/ Goes(r, "DEAD", "NONE")
    /\ UNCHANGED <<tries, stalls, status, rows, unread, lost>>

\* analytics and markCompleted; the latter may commit and still throw.
MarkCompleted(r) ==
    /\ Running(r, "START")
    /\ status' = [status EXCEPT ![r] = "COMPLETED"]
    /\ \/ Goes(r, "ACTIVE", "END") /\ UNCHANGED lost
       \/ Goes(r, "ACTIVE", "CATCH") /\ lost' = [lost EXCEPT ![r] = @ + 1]
    /\ UNCHANGED <<tries, stalls, rows, unread>>

AnalyticsThrows(r) ==
    /\ Running(r, "START")
    /\ Goes(r, "ACTIVE", "CATCH")
    /\ UNCHANGED <<tries, stalls, status, rows, unread, lost>>

(* Mutant: the catch only logs.                                            *)
LogFailure(r) ==
    /\ Running(r, "CATCH")
    /\ Goes(r, "ACTIVE", "END")
    /\ UNCHANGED <<tries, stalls, status, rows, unread, lost>>

MarkFailed(r) ==
    /\ Running(r, "CATCH")
    /\ status' = [status EXCEPT ![r] = "FAILED"]
    /\ Goes(r, "ACTIVE", "END")
    /\ UNCHANGED <<tries, stalls, rows, unread, lost>>

MarkFailedThrows(r) ==
    /\ Running(r, "CATCH")
    /\ Thrown(r)
    /\ UNCHANGED <<tries, stalls, status, rows, unread, lost>>

-----------------------------------------------------------------------------
(* Notifications.                                                          *)

Notify(n) ==
    /\ job[n] = "NONE"
    /\ Goes(n, "WAITING", "NONE")
    /\ UNCHANGED <<tries, stalls, status, rows, unread, lost>>

CreateNotification(n) ==
    /\ Running(n, "START")
    /\ rows' = [rows EXCEPT ![n] = @ + 1] /\ unread' = [unread EXCEPT ![n] = @ + 1]
    /\ \/ Goes(n, "ACTIVE", "EMIT") /\ UNCHANGED lost
       \/ Thrown(n) /\ lost' = [lost EXCEPT ![n] = @ + 1]
    /\ UNCHANGED <<tries, stalls, status>>

CreateThrows(n) ==
    /\ Running(n, "START")
    /\ Thrown(n)
    /\ UNCHANGED <<tries, stalls, status, rows, unread, lost>>

(* Mutant: nobody in the user's room is an error.                          *)
EmitThrows(n) ==
    /\ Running(n, "EMIT")
    /\ Thrown(n)
    /\ UNCHANGED <<tries, stalls, status, rows, unread, lost>>

\* emitToUser: whoever is connected gets it.
EmitToUser(n) ==
    /\ Running(n, "EMIT")
    /\ Goes(n, "ACTIVE", "END")
    /\ UNCHANGED <<tries, stalls, status, rows, unread, lost>>

MarkNoticeRead(n) ==
    /\ unread[n] > 0
    /\ unread' = [unread EXCEPT ![n] = @ - 1]
    /\ UNCHANGED <<job, step, tries, stalls, status, rows, lost>>

MarkAllNoticesRead ==
    /\ unread' = [n \in Notice |-> 0]
    /\ UNCHANGED <<job, step, tries, stalls, status, rows, lost>>

-----------------------------------------------------------------------------
Work(j) ==
    \/ Take(j) \/ Finish(j)
    \/ j \in Report /\ (MarkCompleted(j) \/ AnalyticsThrows(j) \/ MarkFailed(j)
                        \/ MarkFailedThrows(j))
    \/ j \in Notice /\ (CreateNotification(j) \/ CreateThrows(j) \/ EmitToUser(j))

JobsNext ==
    \/ \E j \in Job : Work(j) \/ Stall(j)
    \/ \E r \in Report : CreateReport(r) \/ AddReport(r)
    \/ \E n \in Notice : Notify(n) \/ MarkNoticeRead(n)
    \/ MarkAllNoticesRead

\* The workers go on as long as there is work; nothing says how a run ends.
WorkersRun == \A j \in Job : WF_jobVars(Work(j))

JobsSpec == JobsInit /\ [][JobsNext]_jobVars /\ WorkersRun

-----------------------------------------------------------------------------
(* Properties.                                                             *)

\* Everything is of its kind; what is unread was written.
JobsTypeOK ==
    /\ job \in [Job -> {"NONE", "ASKED", "WAITING", "ACTIVE", "DONE", "DEAD"}]
    /\ step \in [Job -> {"NONE", "START", "CATCH", "EMIT", "END"}]
    /\ tries \in [Job -> 0..Attempts] /\ stalls \in [Job -> 0..(MaxStalls + 1)]
    /\ status \in [Report -> {"NONE", "PENDING", "COMPLETED", "FAILED"}]
    /\ rows \in [Notice -> 0..MaxRows] /\ \A n \in Notice : unread[n] \in 0..rows[n]

\* A notification is written once: again only for a run that died or for an INSERT
\* whose answer was lost.
DeliveredOnce == \A n \in Notice : rows[n] <= 1 + stalls[n] + lost[n]

\* A job that is in the queue, or through with it, has had its effect.  It keeps that.
Settled(j) ==
    job[j] \in {"WAITING", "ACTIVE", "DONE"} =>
        IF j \in Report THEN status[j] # "PENDING" ELSE rows[j] > 0

\* A report whose job was queued is COMPLETED or FAILED in the end, and a notification
\* is written, unless the queue gave the job up: the run died too often, or every
\* attempt threw, for a report the one that was to note the failure.  Each is queued
\* once, so in the end there is none left.
JobsSettle == (\E j \in Job : ~Settled(j)) ~> (\A j \in Job : Settled(j))
=============================================================================
