----------------------------- MODULE Reporting -----------------------------
(***************************************************************************)
(* DMARC aggregate reporting: the event store of                            *)
(* internal/plugins/dmarc/reporting.go and the scheduler goroutine of       *)
(* dmarc.go.  An event is a number; the report's layout and the stub that   *)
(* prints where it would be sent are left out.                              *)
(***************************************************************************)
EXTENDS Integers, FiniteSets

CONSTANT MaxEvents       \* bound: messages that DMARC looks at

ASSUME ReportingConstants == MaxEvents \in Nat

VARIABLES
    added,      \* number of events so far
    events,     \* s.Events
    sched,      \* control of the scheduler goroutine
    reported,   \* history: events in a report file
    gap         \* history: events added between a report and its Clear

reportVars == <<added, events, sched, reported, gap>>

ReportTypeOK ==
    /\ added \in 0..MaxEvents
    /\ \A S \in {events, reported, gap} : S \subseteq 1..added
    /\ sched \in {"none", "aggregate", "clear", "sleep"}

ReportInit ==
    /\ added = 0 /\ events = {} /\ sched = "none"
    /\ reported = {} /\ gap = {}

(* The first call of StartDMARCReportScheduler starts the goroutine.  The    *)
(* deferred AddEvent of the same OnMessage comes later.                      *)
StartScheduler ==
    /\ sched = "none"
    /\ sched' = "aggregate"
    /\ UNCHANGED <<added, events, reported, gap>>

AddEvent ==
    /\ sched /= "none" /\ added < MaxEvents
    /\ added' = added + 1
    /\ events' = events \cup {added + 1}
    /\ gap' = IF sched = "clear" THEN gap \cup {added + 1} ELSE gap
    /\ UNCHANGED <<sched, reported>>

(* Faulty variant: the store is cleared in any case. *)
AggregateClears ==
    /\ sched = "aggregate"
    /\ \/ sched' = "clear" /\ UNCHANGED reported
       \/ /\ events /= {}
          /\ reported' = reported \cup events
          /\ sched' = "clear"
    /\ UNCHANGED <<added, events, gap>>

(* AggregateAndGenerateReport, under the mutex throughout: nothing to report *)
(* or an error, and the goroutine sleeps; or a file with all events.         *)
AggregateAndGenerateReport ==
    /\ sched = "aggregate"
    /\ \/ sched' = "sleep" /\ UNCHANGED reported
       \/ /\ events /= {}
          /\ reported' = reported \cup events
          /\ sched' = "clear"
    /\ UNCHANGED <<added, events, gap>>

(* SendAggregateReport and Clear. *)
Clear ==
    /\ sched = "clear"
    /\ events' = {}
    /\ sched' = "sleep"
    /\ UNCHANGED <<added, reported, gap>>

(* The interval is over. *)
Wake ==
    /\ sched = "sleep"
    /\ sched' = "aggregate"
    /\ UNCHANGED <<added, events, reported, gap>>

Scheduler == AggregateAndGenerateReport \/ Clear \/ Wake

(* The goroutine runs, and not every attempt to write a report fails. *)
SchedulerFairness ==
    /\ WF_reportVars(Scheduler)
    /\ SF_reportVars(AggregateAndGenerateReport /\ sched' = "clear")

----------------------------------------------------------------------------
(* Every event is in a report in the end, failed attempts to write one       *)
(* included, unless it came between the writing of a report and Clear, which *)
(* lock the store separately (dmarc.go:42, :50).                             *)
EventsReported ==
    \A e \in 1..MaxEvents : []<>(e <= added => e \in reported \cup gap)

(* No event is lost otherwise: each is still in the store, in a report, or   *)
(* came in the gap.                                                          *)
EventsKept == 1..added \subseteq events \cup reported \cup gap

(* What is in the store as Clear comes is in the report or came in the gap.  *)
ReportInv ==
    /\ EventsKept
    /\ sched = "clear" => events \subseteq reported \cup gap
============================================================================
