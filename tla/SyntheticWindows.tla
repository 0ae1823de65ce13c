--------------------------- MODULE SyntheticWindows ---------------------------
(***************************************************************************)
(* ml/longitudinal_data.py: one synthetic hold record.  The history, the   *)
(* baseline window and the current window of the record are laid out from  *)
(* the hold's time, events are drawn into them, and the baseline is        *)
(* estimated from what the history says at the end of its window.  Amounts,*)
(* devices and places are left out; a chargeback is treated as a refund.   *)
(***************************************************************************)
EXTENDS Integers, FiniteSets, FiniteSetsExt

CONSTANTS
  DayTicks,          \* instants of a day
  MaxHistoryDays,    \* bound: days of simulated history
  ShortestBaseline,  \* least baseline_days (7 in the code)
  LongestCurrent,    \* bound: instants of the current window (two days)
  Jitter,            \* days the holds are spread over (merchant_offset % 19)
  MaxEvents,         \* bound: events of a history
  Delays,            \* instants until an event is refunded; Unrefunded: never
  Unrefunded,
  Raised,            \* the estimate of an empty baseline
  Undrawn

ASSUME SyntheticAssumption ==
  /\ DayTicks \in Nat \ {0} /\ ShortestBaseline \in Nat \ {0} /\ Jitter \subseteq Nat
  /\ MaxHistoryDays \in Nat /\ LongestCurrent \in Nat /\ MaxEvents \in Nat

VARIABLES config,    \* Undrawn, or a validated LongitudinalConfig
          holdAt,    \* the hold's time: reference_time is 0
          past,      \* the simulated history
          estimate,  \* Undrawn, Raised, or the baseline
          current    \* the events of the current window

windowVars == <<config, holdAt, past, estimate, current>>

WindowsInit ==
  /\ config = Undrawn /\ holdAt = 0
  /\ past = Undrawn /\ estimate = Undrawn /\ current = Undrawn

WindowConfigs == [history : 0..MaxHistoryDays, baseline : 0..MaxHistoryDays,
            current : 0..LongestCurrent]

\* LongitudinalConfig.validate; gap_hours is validated and then never used.
Valid(c) ==
  /\ c.history >= c.baseline + 2 /\ c.baseline >= ShortestBaseline /\ c.current >= 1

\* generate_longitudinal_frame for one merchant.
DrawConfig ==
  /\ config = Undrawn
  /\ \E c \in WindowConfigs : Valid(c) /\ config' = c
  /\ \E j \in Jitter : holdAt' = j * DayTicks
  /\ UNCHANGED <<past, estimate, current>>

DrawnCurrentStart == holdAt - config.current
BaselineEnd == DrawnCurrentStart
DrawnBaselineStart == BaselineEnd - config.baseline * DayTicks
HistoryStart == holdAt - config.history * DayTicks
\* The cursor of _simulate_history: whole days from the start, the last of them
\* not over when the current window begins.
HistoryDays == {d \in 0..MaxHistoryDays : HistoryStart + d * DayTicks < DrawnCurrentStart}

\* min(cursor + seconds, end - one microsecond)
EventTime(t) == Min({t, DrawnCurrentStart - 1})

Drawn(no, d, second, delay) ==
  LET at == EventTime(HistoryStart + d * DayTicks + second)
  IN  [no |-> no, at |-> at,
       refund |-> IF delay = Unrefunded THEN Unrefunded ELSE at + delay]

SimulateHistory ==
  /\ config # Undrawn /\ past = Undrawn
  /\ \E n \in 0..MaxEvents :
     \E draws \in [1..n -> HistoryDays \X (0..(DayTicks - 1)) \X Delays] :
       past' = {Drawn(i, draws[i][1], draws[i][2], draws[i][3]) : i \in 1..n}
  /\ UNCHANGED <<config, holdAt, estimate, current>>

\* event.refund_timestamp <= baseline_end
RefundKnown(event) == event.refund # Unrefunded /\ event.refund <= BaselineEnd

Bucket(events, start) ==
  {e \in events : start <= e.at /\ e.at < Min({start + DayTicks, BaselineEnd})}

BaselineEvents(events) == {e \in events : DrawnBaselineStart <= e.at /\ e.at < BaselineEnd}
DayCount == Max({1, (BaselineEnd - DrawnBaselineStart) \div DayTicks})

Estimated(events) ==
  [d \in 0..(DayCount - 1) |->
     LET bucket == Bucket(BaselineEvents(events), DrawnBaselineStart + d * DayTicks)
     IN  [volume |-> Cardinality(bucket),
          refunds |-> Cardinality({e \in bucket : RefundKnown(e)})]]

\* estimate_baseline_from_history; "baseline history is empty" ends the run.
EstimateBaseline ==
  /\ past # Undrawn /\ estimate = Undrawn
  /\ estimate' = IF BaselineEvents(past) = {} THEN Raised ELSE Estimated(past)
  /\ UNCHANGED <<config, holdAt, past, current>>

\* _simulate_current, here one of its events.
SimulateCurrent ==
  /\ estimate \notin {Undrawn, Raised} /\ current = Undrawn
  /\ \E t \in DrawnCurrentStart..(holdAt - 1) : current' = {t}
  /\ UNCHANGED <<config, holdAt, past, estimate>>

WindowsNext == DrawConfig \/ SimulateHistory \/ EstimateBaseline \/ SimulateCurrent
WindowsSpec == WindowsInit /\ [][WindowsNext]_windowVars

-----------------------------------------------------------------------------
\* Every configuration validate accepts leaves the whole baseline window inside
\* the simulated history, with a current window of up to two days: no day of the
\* baseline is empty because nobody simulated it.
BaselineIsSimulated ==
  config # Undrawn /\ config.current <= 2 * DayTicks => HistoryStart <= DrawnBaselineStart

\* The history ends where the current window begins, for windows that are no
\* whole number of days too: no event is both baseline and current behaviour.
HistoryEndsBeforeTheWindow ==
  past # Undrawn => \A e \in past : e.at < DrawnCurrentStart

\* The days of the baseline share out its events: each is counted on one day,
\* and on that day only, whatever the window is from or to.
BaselineCountsEachEventOnce ==
  estimate \notin {Undrawn, Raised} =>
    LET bucket(d) == Bucket(BaselineEvents(past), DrawnBaselineStart + d * DayTicks) IN
    /\ \A d \in DOMAIN estimate : estimate[d].volume = Cardinality(bucket(d))
    /\ \A e \in BaselineEvents(past) :
         \E d \in DOMAIN estimate : \A x \in DOMAIN estimate : e \in bucket(x) <=> x = d

\* The baseline is what was known when its window closed: with every refund made
\* after that taken out of the history it is the same.
BaselineForgetsTheFuture ==
  estimate \notin {Undrawn, Raised} =>
    estimate = Estimated({[e EXCEPT !.refund = IF RefundKnown(e) THEN @ ELSE Unrefunded] :
                            e \in past})
=============================================================================
