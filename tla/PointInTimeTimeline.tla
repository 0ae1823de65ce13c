------------------------ MODULE PointInTimeTimeline ------------------------
(***************************************************************************)
(* The point-in-time snapshot of a merchant account, read while events are *)
(* being processed (processor_timeline.py): SqlPointInTimeTimelineStore    *)
(* reads the four observation tables and then the unresolved events, one   *)
(* SELECT each under READ COMMITTED, and build_point_in_time_snapshot      *)
(* judges what was read.  All events are of the one account.               *)
(***************************************************************************)
EXTENDS EventReconstruction

CONSTANTS
  Tables,     \* the observation tables in the order they are read: sets of entities
  Lookback    \* lookback_hours, in ticks

ASSUME TablesAssumption ==
  /\ Tables \in Seq(SUBSET Entities)
  /\ Lookback \in Nat

VARIABLE snapshot

timelineVars == <<vars, snapshot>>

NoSnapshot ==
  [pc |-> "none", asOf |-> 0, read |-> 0, contents |-> {}, unresolved |-> {}]

TimelineInit == Init /\ snapshot = NoSnapshot

-----------------------------------------------------------------------------
Within(t, asOf) == asOf - Lookback <= t /\ t <= asOf

(* The rows of the tables in S that the SELECTs return.                    *)
Selected(S, asOf) ==
  {o \in [entity : S, event : Events] :
     /\ observed[o.event] # None
     /\ o.entity \in Image(Reads[o.event])
     /\ Within(observed[o.event].stamp, asOf)}

VersionIn(o) ==
  observed[o.event].version[CHOOSE k \in DOMAIN Reads[o.event] : Reads[o.event][k] = o.entity]

Row(o) ==
  [entity |-> o.entity, event |-> o.event, version |-> VersionIn(o),
   stamp |-> observed[o.event].stamp]

Rows(S, asOf) == {Row(o) : o \in Selected(S, asOf)}

(* _latest_as_of and _in_event_window: of each entity the last observation *)
(* (all of them when they bear the same time), if the entity came to be in *)
(* the window.                                                             *)
View(R, asOf) ==
  {r \in R : /\ \A q \in R : q.entity = r.entity => q.stamp <= r.stamp
             /\ Within(provider[r.entity].created, asOf)}

(* Mutant: a claimed event counts as settled.                              *)
ResolvedOrClaimed == {"PROCESSED", "SKIPPED", "PROCESSING"}

Resolved == {"PROCESSED", "SKIPPED"}

Unresolved(asOf) ==
  {e \in Events : /\ events[e].status \notin Resolved \cup {"ABSENT"}
                  /\ Within(events[e].received, asOf)}

(* What a snapshot of that cutoff would show if it were read in one go.    *)
ViewNow(asOf) == View(Rows(Entities, asOf), asOf)

-----------------------------------------------------------------------------
(* The cutoff is a moment that has passed.                                 *)
BeginSnapshot ==
  /\ snapshot.pc = "none"
  /\ \E t \in 0 .. now - 1 : snapshot' = [NoSnapshot EXCEPT !.pc = "tables", !.asOf = t]
  /\ UNCHANGED vars

ReadTable ==
  /\ snapshot.pc = "tables"
  /\ LET k == snapshot.read + 1 IN
       snapshot' = [snapshot EXCEPT
         !.read = k,
         !.contents = @ \cup Rows(Tables[k], snapshot.asOf),
         !.pc = IF k = Len(Tables) THEN "events" ELSE "tables"]
  /\ UNCHANGED vars

ReadUnresolved ==
  /\ snapshot.pc = "events"
  /\ snapshot' = [snapshot EXCEPT !.pc = "done",
                    !.contents = View(@, snapshot.asOf),
                    !.unresolved = Unresolved(snapshot.asOf)]
  /\ UNCHANGED vars

TimelineNext ==
  \/ Next /\ UNCHANGED snapshot
  \/ BeginSnapshot \/ ReadTable \/ ReadUnresolved

TimelineSpec == TimelineInit /\ [][TimelineNext]_timelineVars

-----------------------------------------------------------------------------
(* _quality_report: the firewall lets the snapshot pass.                   *)
Passed == snapshot.pc = "done" /\ snapshot.unresolved = {}

(* test_processor_timeline.py:174, knowledge time controls visibility: once*)
(* a snapshot has passed the firewall, nothing that commits later changes  *)
(* what its cutoff shows, although observations bear a time before their   *)
(* commit (processor_timeline.py:471-517).                                 *)
PassedViewIsFinal ==
  [][Passed => ViewNow(snapshot.asOf)' = ViewNow(snapshot.asOf)]_timelineVars

(* processor_timeline.py:177, events "known by the cutoff" that are "not in*)
(* a terminal processing state" keep scoring blocked: a passed snapshot    *)
(* shows what its cutoff shows.                                            *)
PassedShowsItsCutoff == Passed => snapshot.contents = ViewNow(snapshot.asOf)
=============================================================================
