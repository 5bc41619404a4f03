----------------------------- MODULE ThrottlerMap -----------------------------
(***************************************************************************)
(* Throttler.revisionThrottlers of throttler.go, seen from one revision    *)
(* name: requests, backend updates and informer events look its throttler  *)
(* up, first under the read lock and then again under the write lock, and  *)
(* create it from the revision that the lister holds; a delete event       *)
(* removes it.  A revision may be deleted and created again under its name *)
(* while the events of the first one are still in flight.                  *)
(*                                                                         *)
(* The informer is client-go's: it changes the lister's cache and then     *)
(* delivers the event, in order, on one goroutine.  Every deletion has an  *)
(* event here; a list taken anew after a lost watch, which may show a      *)
(* deletion and a creation as one update, is not modelled.                 *)
(***************************************************************************)
EXTENDS Integers, Sequences, FiniteSets, SequencesExt

CONSTANTS
  Getter,           \* the goroutines that call getOrCreateRevisionThrottler
  MaxIncarnations,  \* bound on the revisions created under the name
  MaxThrottlers     \* bound on the throttlers ever created

ASSUME MapAssumption ==
  /\ IsFiniteSet(Getter)
  /\ MaxIncarnations \in Nat \ {0} /\ MaxThrottlers \in Nat \ {0}

VARIABLES
  incarnation,   \* the number of revisions created so far
  cache,         \* the revision in the lister, 0 if there is none
  events,        \* informer events under way
  throttlers,    \* the revision that each throttler ever created was made for
  entry,         \* the throttler in the map, 0 if there is none
  getter,        \* where each goroutine is
  got,           \* the throttler it was given
  informer       \* where the informer's goroutine is in getOrCreateRevisionThrottler

clusterVars == <<incarnation, cache>>
vars == <<clusterVars, events, throttlers, entry, getter, got, informer>>

TypeOK ==
  /\ incarnation \in 0 .. MaxIncarnations
  /\ cache \in 0 .. MaxIncarnations
  /\ events \in Seq({"add", "delete"} \X (1 .. MaxIncarnations))
  /\ throttlers \in Seq(1 .. MaxIncarnations)
  /\ entry \in 0 .. Len(throttlers)
  /\ getter \in [Getter -> {"idle", "missed", "done", "notFound"}]
  /\ got \in [Getter -> 0 .. Len(throttlers)]
  /\ informer \in {"idle", "missed"}

Init ==
  /\ incarnation = 0
  /\ cache = 0
  /\ events = <<>>
  /\ throttlers = <<>>
  /\ entry = 0
  /\ getter = [g \in Getter |-> "idle"]
  /\ got = [g \in Getter |-> 0]
  /\ informer = "idle"

------------------------------------------------------------------------------
(* The cluster, through the informer *)

RevisionCreated ==
  /\ cache = 0
  /\ incarnation < MaxIncarnations
  /\ incarnation' = incarnation + 1
  /\ cache' = incarnation + 1
  /\ events' = Append(events, <<"add", incarnation + 1>>)
  /\ UNCHANGED <<throttlers, entry, getter, got, informer>>

RevisionRemoved ==
  /\ cache # 0
  /\ cache' = 0
  /\ events' = Append(events, <<"delete", cache>>)
  /\ UNCHANGED <<incarnation, throttlers, entry, getter, got, informer>>

------------------------------------------------------------------------------
(* getOrCreateRevisionThrottler *)

\* Mutant of CreatesEntry: no second look under the write lock.
CreatesAnyway ==
  /\ throttlers' = Append(throttlers, cache)
  /\ entry' = Len(throttlers) + 1

\* Under the write lock, when the second look finds nothing either.
CreatesEntry ==
  /\ entry = 0
  /\ throttlers' = Append(throttlers, cache)
  /\ entry' = Len(throttlers) + 1

FirstLook(g) ==
  /\ getter[g] = "idle"
  /\ getter' = [getter EXCEPT ![g] = IF entry # 0 THEN "done" ELSE "missed"]
  /\ got' = [got EXCEPT ![g] = entry]
  /\ UNCHANGED <<clusterVars, events, throttlers, entry, informer>>

SecondLookFinds(g) ==
  /\ getter[g] = "missed"
  /\ entry # 0
  /\ getter' = [getter EXCEPT ![g] = "done"]
  /\ got' = [got EXCEPT ![g] = entry]
  /\ UNCHANGED <<clusterVars, events, throttlers, entry, informer>>

SecondLookCreates(g) ==
  /\ getter[g] = "missed"
  /\ cache # 0
  /\ Len(throttlers) < MaxThrottlers
  /\ CreatesEntry
  /\ getter' = [getter EXCEPT ![g] = "done"]
  /\ got' = [got EXCEPT ![g] = entry']
  /\ UNCHANGED <<clusterVars, events, informer>>

\* The lister has no such revision.
SecondLookFails(g) ==
  /\ getter[g] = "missed"
  /\ entry = 0
  /\ cache = 0
  /\ getter' = [getter EXCEPT ![g] = "notFound"]
  /\ UNCHANGED <<clusterVars, events, throttlers, entry, got, informer>>

getOrCreate(g) ==
  FirstLook(g) \/ SecondLookFinds(g) \/ SecondLookCreates(g) \/ SecondLookFails(g)

------------------------------------------------------------------------------
(* The event handlers *)

\* revisionUpdated: the same two looks; whatever they give is dropped.
UpdatedLooks ==
  /\ informer = "idle"
  /\ events # <<>> /\ Head(events)[1] = "add"
  /\ informer' = IF entry # 0 THEN "idle" ELSE "missed"
  /\ events' = IF entry # 0 THEN Tail(events) ELSE events
  /\ UNCHANGED <<clusterVars, throttlers, entry, getter, got>>

UpdatedCreates ==
  /\ informer = "missed"
  /\ cache # 0
  /\ Len(throttlers) < MaxThrottlers
  /\ CreatesEntry
  /\ informer' = "idle"
  /\ events' = Tail(events)
  /\ UNCHANGED <<clusterVars, getter, got>>

\* Mutant of UpdatedEnds: the event ends after the first look.
UpdatedGivesUp ==
  /\ informer = "missed"
  /\ informer' = "idle"
  /\ events' = Tail(events)
  /\ UNCHANGED <<clusterVars, throttlers, entry, getter, got>>

UpdatedEnds ==
  /\ informer = "missed"
  /\ entry # 0 \/ cache = 0
  /\ informer' = "idle"
  /\ events' = Tail(events)
  /\ UNCHANGED <<clusterVars, throttlers, entry, getter, got>>

revisionUpdated == UpdatedLooks \/ UpdatedCreates \/ UpdatedEnds

\* Mutant of revisionDeleted: the entry stays.
revisionForgotten ==
  /\ informer = "idle"
  /\ events # <<>> /\ Head(events)[1] = "delete"
  /\ events' = Tail(events)
  /\ UNCHANGED <<clusterVars, throttlers, entry, getter, got, informer>>

\* Whatever throttler is in the map under the name is removed.
revisionDeleted ==
  /\ informer = "idle"
  /\ events # <<>> /\ Head(events)[1] = "delete"
  /\ entry' = 0
  /\ events' = Tail(events)
  /\ UNCHANGED <<clusterVars, throttlers, getter, got, informer>>

Next ==
  \/ RevisionCreated
  \/ RevisionRemoved
  \/ \E g \in Getter : getOrCreate(g)
  \/ revisionUpdated
  \/ revisionDeleted

Spec == Init /\ [][Next]_vars

------------------------------------------------------------------------------
(* Properties *)

\* throttler.go:580 "clean up revision throttlers after a revision is deleted to prevent
\* unbounded memory growth": the map holds a throttler only of the revision that
\* exists, or of one whose delete event is still under way.
NoDeadThrottler ==
  entry # 0 => throttlers[entry] = cache \/ Contains(events, <<"delete", throttlers[entry]>>)

\* throttler.go:545: whoever asks for the throttler of a revision that is never deleted
\* is given the same one.
OneThrottler ==
  cache = 1 =>
    \A g, h \in Getter : getter[g] = "done" /\ getter[h] = "done" => got[g] = got[h]

\* throttler.go:566 "ensure we have a backlog set up for a revision as soon as it is
\* created": once its events are delivered an existing revision has a throttler.
BacklogIsReady == cache # 0 /\ events = <<>> => entry # 0

(* What the proofs need beside them *)

\* The events of a name alternate: the place of one in their order.
Ordinal(event) == IF event[1] = "add" THEN 2 * event[2] - 1 ELSE 2 * event[2]

Latest == IF cache = 0 THEN 2 * incarnation ELSE 2 * incarnation - 1

EventsInOrder ==
  /\ cache \in {0, incarnation}
  /\ Len(events) <= Latest
  /\ \A i \in 1 .. Len(events) : Ordinal(events[i]) = Latest - Len(events) + i

\* The informer's goroutine is in the add event that is next.
InformerHasEvent == informer = "missed" => events # <<>> /\ Head(events)[1] = "add"

\* A revision without a throttler has its add event still to come.
CreationAhead == cache # 0 /\ entry = 0 => Contains(events, <<"add", cache>>)

\* The throttler of the first revision, which stays while the revision does.
FirstStays ==
  /\ incarnation = 0 => entry = 0 /\ \A g \in Getter : getter[g] # "done"
  /\ cache = 1 => \A g \in Getter : getter[g] = "done" => entry # 0 /\ got[g] = entry

MapInv ==
  TypeOK /\ EventsInOrder /\ InformerHasEvent /\ NoDeadThrottler /\ CreationAhead /\ FirstStays

==============================================================================
