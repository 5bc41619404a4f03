-------------------------- MODULE ThrottlerMapProofs --------------------------
(***************************************************************************)
(* Machine-checked proofs about the map of the revision throttlers, for    *)
(* any number of goroutines and of revisions created under the name: they  *)
(* rest on the order of the informer's events, which alternate between     *)
(* the creation and the deletion of one revision after the other.          *)
(***************************************************************************)
EXTENDS ThrottlerMap, SequenceTheorems, TLAPS

USE DEF clusterVars

Event == {"add", "delete"} \X (1 .. MaxIncarnations)

\* The place of an event tells which one it is.
LEMMA OrdinalTells ==
  ASSUME NEW e \in Event, NEW n \in 1 .. MaxIncarnations
  PROVE  /\ Ordinal(e) \in Nat
         /\ Ordinal(e) = 2 * n - 1 <=> e = <<"add", n>>
         /\ Ordinal(e) = 2 * n <=> e = <<"delete", n>>
<1>1. PICK k \in {"add", "delete"}, m \in 1 .. MaxIncarnations : e = <<k, m>>
  BY DEF Event
<1>2. e[1] = k /\ e[2] = m /\ m \in Nat /\ n \in Nat
  BY <1>1, MapAssumption
<1>3. k = "add" \/ k = "delete"
  BY <1>1
<1>4. QED BY <1>1, <1>2, <1>3 DEF Ordinal

\* A sequence of events, longer by one.
LEMMA Appended ==
  ASSUME NEW s \in Seq(Event), NEW e \in Event
  PROVE  /\ Append(s, e) \in Seq(Event) /\ Len(Append(s, e)) = Len(s) + 1 /\ Len(s) \in Nat
         /\ \A i \in 1 .. Len(s) : Append(s, e)[i] = s[i]
         /\ Append(s, e)[Len(s) + 1] = e
         /\ \A x : Contains(Append(s, e), x) <=> Contains(s, x) \/ x = e
<1>1. /\ Append(s, e) \in Seq(Event) /\ Len(Append(s, e)) = Len(s) + 1 /\ Len(s) \in Nat
      /\ \A i \in 1 .. Len(s) : Append(s, e)[i] = s[i]
      /\ Append(s, e)[Len(s) + 1] = e
  BY AppendProperties, LenProperties
<1>2. ASSUME NEW x PROVE Contains(Append(s, e), x) <=> Contains(s, x) \/ x = e
  BY <1>1 DEF Contains
<1>3. QED BY <1>1, <1>2

\* A sequence without its first event.
LEMMA Delivered ==
  ASSUME NEW s \in Seq(Event), s # <<>>
  PROVE  /\ Tail(s) \in Seq(Event) /\ Len(Tail(s)) = Len(s) - 1 /\ Len(s) \in Nat \ {0}
         /\ \A i \in 1 .. Len(Tail(s)) : Tail(s)[i] = s[i + 1]
         /\ Head(s) = s[1] /\ Head(s) \in Event
         /\ \A x : Contains(s, x) <=> Contains(Tail(s), x) \/ x = Head(s)
<1>1. /\ Tail(s) \in Seq(Event) /\ Len(Tail(s)) = Len(s) - 1 /\ Len(s) \in Nat \ {0}
      /\ \A i \in 1 .. Len(Tail(s)) : Tail(s)[i] = s[i + 1]
      /\ Head(s) = s[1] /\ Head(s) \in Event
  BY HeadTailProperties, LenProperties, EmptySeq
<1>2. ASSUME NEW x PROVE Contains(s, x) <=> Contains(Tail(s), x) \/ x = Head(s)
  <2>1. ASSUME NEW i \in 1 .. Len(s), s[i] = x PROVE Contains(Tail(s), x) \/ x = Head(s)
    <3>1. CASE i = 1
      BY <1>1, <2>1, <3>1
    <3>2. CASE i # 1
      <4>1. i - 1 \in 1 .. Len(Tail(s)) /\ Tail(s)[i - 1] = s[i]
        BY <1>1, <3>2
      <4>2. QED BY <2>1, <4>1 DEF Contains
    <3>3. QED BY <3>1, <3>2
  <2>2. ASSUME NEW i \in 1 .. Len(Tail(s)), Tail(s)[i] = x PROVE Contains(s, x)
    <3>1. i + 1 \in 1 .. Len(s) /\ s[i + 1] = x
      BY <1>1, <2>2
    <3>2. QED BY <3>1 DEF Contains
  <2>3. x = Head(s) => Contains(s, x)
    <3>1. 1 \in 1 .. Len(s)
      BY <1>1
    <3>2. QED BY <1>1, <3>1 DEF Contains
  <2>4. QED BY <2>1, <2>2, <2>3 DEF Contains
<1>3. QED BY <1>1, <1>2

\* The informer delivers the events in their order.
LEMMA InOrder ==
  ASSUME MapInv, events # <<>>, events' = Tail(events), UNCHANGED clusterVars
  PROVE  /\ events' \in Seq(Event) /\ EventsInOrder'
         /\ \A x : Contains(events, x) <=> Contains(events', x) \/ x = Head(events)
<1>1. events \in Seq(Event) /\ incarnation \in Nat /\ Latest \in Int
  BY MapAssumption DEF MapInv, TypeOK, Event, Latest
<1>2. /\ Tail(events) \in Seq(Event) /\ Len(Tail(events)) = Len(events) - 1
      /\ Len(events) \in Nat \ {0}
      /\ \A i \in 1 .. Len(Tail(events)) : Tail(events)[i] = events[i + 1]
      /\ \A x : Contains(events, x) <=> Contains(Tail(events), x) \/ x = Head(events)
  BY <1>1, Delivered
<1>3. Latest' = Latest
  BY DEF Latest
<1>4. /\ cache \in {0, incarnation} /\ Len(events) <= Latest
      /\ \A i \in 1 .. Len(events) : Ordinal(events[i]) = Latest - Len(events) + i
  BY DEF MapInv, EventsInOrder
<1>5. Len(events') <= Latest'
  BY <1>1, <1>2, <1>3, <1>4
<1>6. ASSUME NEW i \in 1 .. Len(events')
      PROVE  Ordinal(events'[i]) = Latest' - Len(events') + i
  <2>1. i + 1 \in 1 .. Len(events) /\ events'[i] = events[i + 1]
    BY <1>2
  <2>2. Ordinal(events[i + 1]) = Latest - Len(events) + (i + 1)
    BY <1>4, <2>1
  <2>3. QED BY <1>1, <1>2, <1>3, <2>1, <2>2
<1>7. EventsInOrder'
  BY <1>3, <1>4, <1>5, <1>6 DEF EventsInOrder
<1>8. QED BY <1>2, <1>7

\* The events of a revision that is created or removed come after those under way.
LEMMA NextInOrder ==
  ASSUME MapInv, NEW e \in Event, events' = Append(events, e),
         cache' \in {0, incarnation'}, Latest' = Latest + 1, Ordinal(e) = Latest'
  PROVE  /\ events' \in Seq(Event) /\ events' # <<>> /\ EventsInOrder'
         /\ events # <<>> => Head(events') = Head(events)
         /\ \A x : Contains(events', x) <=> Contains(events, x) \/ x = e
<1>1. events \in Seq(Event) /\ incarnation \in Nat /\ Latest \in Int
  BY MapAssumption DEF MapInv, TypeOK, Event, Latest
<1>2. /\ events' \in Seq(Event) /\ Len(events') = Len(events) + 1 /\ Len(events) \in Nat
      /\ \A i \in 1 .. Len(events) : events'[i] = events[i]
      /\ events'[Len(events) + 1] = e
      /\ \A x : Contains(events', x) <=> Contains(events, x) \/ x = e
  BY <1>1, Appended
<1>3. /\ Len(events) <= Latest
      /\ \A i \in 1 .. Len(events) : Ordinal(events[i]) = Latest - Len(events) + i
  BY DEF MapInv, EventsInOrder
<1>4. ASSUME NEW i \in 1 .. Len(events')
      PROVE  Ordinal(events'[i]) = Latest' - Len(events') + i
  <2>1. CASE i = Len(events) + 1
    BY <1>1, <1>2, <2>1
  <2>2. CASE i \in 1 .. Len(events)
    BY <1>1, <1>2, <1>3, <2>2
  <2>3. QED BY <1>2, <2>1, <2>2
<1>5. Len(events') <= Latest'
  BY <1>1, <1>2, <1>3
<1>6. EventsInOrder'
  BY <1>4, <1>5 DEF EventsInOrder
<1>7. events' # <<>>
  BY <1>2, EmptySeq
<1>8. events # <<>> => Head(events') = Head(events)
  <2>1. events # <<>> => 1 \in 1 .. Len(events) /\ Head(events) = events[1]
    BY <1>1, Delivered
  <2>2. Head(events') = events'[1]
    BY <1>2, <1>7, Delivered
  <2>3. QED BY <1>2, <2>1, <2>2
<1>9. QED BY <1>2, <1>6, <1>7, <1>8

\* A throttler is made for the revision that the lister holds.
LEMMA Created ==
  ASSUME MapInv, cache # 0, CreatesEntry
  PROVE  /\ throttlers' \in Seq(1 .. MaxIncarnations)
         /\ Len(throttlers') = Len(throttlers) + 1 /\ Len(throttlers) \in Nat
         /\ entry' = Len(throttlers') /\ entry' # 0
         /\ throttlers'[entry'] = cache
<1>1. throttlers \in Seq(1 .. MaxIncarnations) /\ cache \in 1 .. MaxIncarnations
  BY DEF MapInv, TypeOK
<1>2. QED BY <1>1, AppendProperties, LenProperties DEF CreatesEntry

\* NewThrottler makes a consistent map.
LEMMA InitMap == Init => MapInv
<1> SUFFICES ASSUME Init PROVE MapInv
  OBVIOUS
<1>1. /\ Len(events) = 0 /\ events \in Seq(Event)
      /\ throttlers \in Seq(1 .. MaxIncarnations) /\ Len(throttlers) = 0
  BY EmptySeq DEF Init
<1>2. TypeOK
  BY <1>1, MapAssumption DEF Init, TypeOK, Event
<1>3. EventsInOrder
  BY <1>1 DEF Init, EventsInOrder, Latest
<1>4. QED BY <1>2, <1>3 DEF Init, MapInv, InformerHasEvent, NoDeadThrottler, CreationAhead, FirstStays

\* The informer's next event is an addition.
LEMMA RevisionCreatedKeeps ==
  ASSUME MapInv, RevisionCreated
  PROVE  MapInv'
<1> DEFINE e == <<"add", incarnation + 1>>
<1>1. /\ cache = 0 /\ incarnation' = incarnation + 1 /\ cache' = incarnation + 1
      /\ events' = Append(events, e)
      /\ UNCHANGED <<throttlers, entry, getter, got, informer>>
      /\ incarnation \in Nat /\ incarnation + 1 \in 1 .. MaxIncarnations
  BY MapAssumption DEF RevisionCreated, MapInv, TypeOK
<1>2. e \in Event /\ Ordinal(e) = 2 * (incarnation + 1) - 1
  BY <1>1 DEF Event, Ordinal
<1>3. cache' # 0 /\ Latest' = Latest + 1 /\ Ordinal(e) = Latest'
  <2> HIDE DEF e
  <2>1. QED BY <1>1, <1>2 DEF Latest
<1> HIDE DEF e
<1>4. /\ events' \in Seq(Event) /\ events' # <<>> /\ EventsInOrder'
      /\ events # <<>> => Head(events') = Head(events)
      /\ \A x : Contains(events', x) <=> Contains(events, x) \/ x = e
  BY <1>1, <1>2, <1>3, NextInOrder
<1>5. TypeOK'
  BY <1>1, <1>4 DEF MapInv, TypeOK, Event
<1>6. InformerHasEvent'
  BY <1>1, <1>4 DEF MapInv, InformerHasEvent
<1>7. NoDeadThrottler'
  <2>1. entry # 0 => throttlers[entry] # 0
    <3>1. entry # 0 => entry \in 1 .. Len(throttlers)
      BY LenProperties DEF MapInv, TypeOK
    <3>2. throttlers \in Seq(1 .. MaxIncarnations)
      BY DEF MapInv, TypeOK
    <3>3. entry # 0 => throttlers[entry] \in 1 .. MaxIncarnations
      BY <3>1, <3>2, ElementOfSeq
    <3>4. QED BY <3>3
  <2>2. QED BY <1>1, <1>4, <2>1 DEF MapInv, NoDeadThrottler
<1>8. CreationAhead'
  BY <1>1, <1>4 DEF CreationAhead, e
<1>9. FirstStays'
  BY <1>1, <1>3 DEF MapInv, FirstStays
<1>10. QED BY <1>4, <1>5, <1>6, <1>7, <1>8, <1>9 DEF MapInv

\* The informer's next event is a deletion.
LEMMA RevisionRemovedKeeps ==
  ASSUME MapInv, RevisionRemoved
  PROVE  MapInv'
<1> DEFINE e == <<"delete", cache>>
<1>1. /\ cache # 0 /\ cache' = 0 /\ events' = Append(events, e)
      /\ UNCHANGED <<incarnation, throttlers, entry, getter, got, informer>>
      /\ cache = incarnation /\ incarnation \in Nat /\ cache \in 1 .. MaxIncarnations
  BY MapAssumption DEF RevisionRemoved, MapInv, TypeOK, EventsInOrder
<1>2. e \in Event /\ Ordinal(e) = 2 * incarnation
  BY <1>1 DEF Event, Ordinal
<1> HIDE DEF e
<1>3. Latest' = Latest + 1 /\ Ordinal(e) = Latest'
  BY <1>1, <1>2 DEF Latest
<1>4. /\ events' \in Seq(Event) /\ events' # <<>> /\ EventsInOrder'
      /\ events # <<>> => Head(events') = Head(events)
      /\ \A x : Contains(events', x) <=> Contains(events, x) \/ x = e
  BY <1>1, <1>2, <1>3, NextInOrder
<1>5. TypeOK'
  BY <1>1, <1>4, MapAssumption DEF MapInv, TypeOK, Event
<1>6. InformerHasEvent'
  BY <1>1, <1>4 DEF MapInv, InformerHasEvent
<1>7. NoDeadThrottler'
  BY <1>1, <1>4 DEF MapInv, NoDeadThrottler, e
<1>8. CreationAhead' /\ FirstStays'
  BY <1>1 DEF MapInv, CreationAhead, FirstStays
<1>9. QED BY <1>4, <1>5, <1>6, <1>7, <1>8 DEF MapInv

\* throttler.go:535-564: a request that gets or creates a throttler keeps the map consistent.
LEMMA getOrCreateKeeps ==
  ASSUME MapInv, NEW g \in Getter, getOrCreate(g)
  PROVE  MapInv'
<1>1. TypeOK /\ entry \in 0 .. Len(throttlers) /\ throttlers \in Seq(1 .. MaxIncarnations)
  BY DEF MapInv, TypeOK
<1>2. UNCHANGED <<clusterVars, events, informer>>
  BY DEF getOrCreate, FirstLook, SecondLookFinds, SecondLookCreates, SecondLookFails
<1>3. EventsInOrder' /\ InformerHasEvent'
  BY <1>2 DEF MapInv, EventsInOrder, InformerHasEvent, Latest
<1>4. CASE FirstLook(g) \/ SecondLookFinds(g) \/ SecondLookFails(g)
  <2>1. /\ UNCHANGED <<throttlers, entry>>
        /\ \A h \in Getter \ {g} : getter'[h] = getter[h] /\ got'[h] = got[h]
        /\ getter'[g] = "done" => entry # 0 /\ got'[g] = entry
    BY <1>1, <1>4 DEF FirstLook, SecondLookFinds, SecondLookFails, TypeOK
  <2>2. TypeOK'
    BY <1>1, <1>2, <1>4, <2>1 DEF FirstLook, SecondLookFinds, SecondLookFails, TypeOK
  <2>3. NoDeadThrottler' /\ CreationAhead'
    BY <1>2, <2>1 DEF MapInv, NoDeadThrottler, CreationAhead
  <2>4. FirstStays'
    BY <1>2, <2>1 DEF MapInv, FirstStays
  <2>5. QED BY <1>3, <2>2, <2>3, <2>4 DEF MapInv
<1>5. CASE SecondLookCreates(g)
  <2>1. /\ cache # 0 /\ CreatesEntry /\ entry = 0
        /\ getter' = [getter EXCEPT ![g] = "done"] /\ got' = [got EXCEPT ![g] = entry']
    BY <1>5 DEF SecondLookCreates, CreatesEntry
  <2>2. /\ throttlers' \in Seq(1 .. MaxIncarnations)
        /\ Len(throttlers') = Len(throttlers) + 1 /\ Len(throttlers) \in Nat
        /\ entry' = Len(throttlers') /\ entry' # 0
        /\ throttlers'[entry'] = cache
    BY <2>1, Created
  <2>3. TypeOK'
    <3>1. entry' \in 0 .. Len(throttlers') /\ 0 .. Len(throttlers) \subseteq 0 .. Len(throttlers')
      BY <2>2
    <3>2. got' \in [Getter -> 0 .. Len(throttlers')]
      BY <1>1, <2>1, <3>1 DEF TypeOK
    <3>3. QED BY <1>1, <1>2, <2>1, <2>2, <3>1, <3>2 DEF TypeOK
  <2>4. NoDeadThrottler' /\ CreationAhead'
    BY <1>2, <2>2 DEF NoDeadThrottler, CreationAhead
  <2>5. FirstStays'
    <3>1. incarnation # 0
      BY <2>1 DEF MapInv, EventsInOrder
    <3>2. cache = 1 => \A h \in Getter : getter[h] # "done"
      BY <2>1 DEF MapInv, FirstStays
    <3>3. QED BY <1>1, <1>2, <2>1, <2>2, <3>1, <3>2 DEF FirstStays, TypeOK
  <2>6. QED BY <1>3, <2>3, <2>4, <2>5 DEF MapInv
<1>6. QED BY <1>4, <1>5 DEF getOrCreate

\* An event of creation that ends: the revision has a throttler, or is gone again.
LEMMA revisionUpdatedKeeps ==
  ASSUME MapInv, revisionUpdated
  PROVE  MapInv'
<1>1. TypeOK
  BY DEF MapInv
<1>2. UNCHANGED <<clusterVars, getter, got>>
  BY DEF revisionUpdated, UpdatedLooks, UpdatedCreates, UpdatedEnds
<1>3. events # <<>> /\ Head(events)[1] = "add"
  BY DEF revisionUpdated, UpdatedLooks, UpdatedCreates, UpdatedEnds, MapInv, InformerHasEvent
<1>4. CASE informer' = "missed"
  <2>1. UNCHANGED <<throttlers, entry, events>>
    BY <1>4 DEF revisionUpdated, UpdatedLooks, UpdatedCreates, UpdatedEnds
  <2>2. EventsInOrder' /\ InformerHasEvent'
    BY <1>2, <1>3, <2>1 DEF MapInv, EventsInOrder, InformerHasEvent, Latest
  <2>3. QED BY <1>1, <1>2, <1>4, <2>1, <2>2 DEF MapInv, TypeOK, NoDeadThrottler, CreationAhead, FirstStays
<1>5. CASE informer' # "missed"
  <2>1. /\ informer' = "idle" /\ events' = Tail(events)
        /\ \/ UNCHANGED <<throttlers, entry>> /\ (entry # 0 \/ cache = 0)
           \/ cache # 0 /\ CreatesEntry /\ entry = 0
    BY <1>5 DEF revisionUpdated, UpdatedLooks, UpdatedCreates, UpdatedEnds, CreatesEntry
  <2>2. /\ events' \in Seq(Event) /\ EventsInOrder'
        /\ \A x : Contains(events, x) <=> Contains(events', x) \/ x = Head(events)
    BY <1>2, <1>3, <2>1, InOrder
  <2>3. InformerHasEvent'
    BY <2>1 DEF InformerHasEvent
  <2>4. \A n : <<"delete", n>> # Head(events)
    BY <1>3
  <2>5. CASE UNCHANGED <<throttlers, entry>> /\ (entry # 0 \/ cache = 0)
    <3>1. TypeOK'
      BY <1>1, <1>2, <2>1, <2>2, <2>5 DEF TypeOK, Event
    <3>2. NoDeadThrottler'
      BY <1>2, <2>2, <2>4, <2>5 DEF MapInv, NoDeadThrottler
    <3>3. CreationAhead' /\ FirstStays'
      BY <1>2, <2>5 DEF MapInv, CreationAhead, FirstStays
    <3>4. QED BY <2>2, <2>3, <3>1, <3>2, <3>3 DEF MapInv
  <2>6. CASE cache # 0 /\ CreatesEntry /\ entry = 0
    <3>1. /\ throttlers' \in Seq(1 .. MaxIncarnations)
          /\ Len(throttlers') = Len(throttlers) + 1 /\ Len(throttlers) \in Nat
          /\ entry' = Len(throttlers') /\ entry' # 0
          /\ throttlers'[entry'] = cache
      BY <2>6, Created
    <3>2. TypeOK'
      <4>1. entry' \in 0 .. Len(throttlers') /\ 0 .. Len(throttlers) \subseteq 0 .. Len(throttlers')
        BY <3>1
      <4>2. QED BY <1>1, <1>2, <2>1, <2>2, <3>1, <4>1 DEF TypeOK, Event
    <3>3. NoDeadThrottler' /\ CreationAhead'
      BY <1>2, <3>1 DEF NoDeadThrottler, CreationAhead
    <3>4. FirstStays'
      BY <1>2, <2>6, <3>1 DEF MapInv, FirstStays, EventsInOrder
    <3>5. QED BY <2>2, <2>3, <3>2, <3>3, <3>4 DEF MapInv
  <2>7. QED BY <2>1, <2>5, <2>6
<1>6. QED BY <1>4, <1>5

\* A throttler that is removed with an earlier revision is made again for the one that
\* exists: its creation is the last event.
LEMMA revisionDeletedKeeps ==
  ASSUME MapInv, revisionDeleted
  PROVE  MapInv'
<1>1. /\ events # <<>> /\ Head(events)[1] = "delete"
      /\ entry' = 0 /\ events' = Tail(events) /\ informer = "idle"
      /\ UNCHANGED <<clusterVars, throttlers, getter, got, informer>>
  BY DEF revisionDeleted
<1>2. TypeOK /\ events \in Seq(Event) /\ incarnation \in Nat /\ cache \in 0 .. MaxIncarnations
  BY MapAssumption DEF MapInv, TypeOK, Event
<1>3. /\ events' \in Seq(Event) /\ EventsInOrder'
      /\ \A x : Contains(events, x) <=> Contains(events', x) \/ x = Head(events)
  BY <1>1, InOrder
<1>4. ASSUME cache # 0
      PROVE  Contains(events', <<"add", cache>>) /\ cache # 1
  <2> DEFINE n == Len(events)
             last == events[n]
             first == events[1]
  <2>1. n \in Nat \ {0} /\ first = Head(events)
    BY <1>1, <1>2, Delivered
  <2>2. last \in Event /\ first \in Event /\ n \in 1 .. n /\ 1 \in 1 .. n
    BY <1>2, <2>1, ElementOfSeq
  <2>3. /\ Latest = 2 * cache - 1 /\ n <= Latest
        /\ Ordinal(last) = Latest - n + n /\ Ordinal(first) = Latest - n + 1
    <3>1. cache = incarnation /\ Latest = 2 * cache - 1
      BY <1>4 DEF MapInv, EventsInOrder, Latest
    <3>2. \A i \in 1 .. n : Ordinal(events[i]) = Latest - n + i
      BY DEF MapInv, EventsInOrder
    <3>3. n <= Latest
      BY DEF MapInv, EventsInOrder
    <3>4. QED BY <2>2, <3>1, <3>2, <3>3
  <2> HIDE DEF n, last, first
  <2>4. last = <<"add", cache>>
    <3>1. cache \in 1 .. MaxIncarnations
      BY <1>2, <1>4
    <3>2. Ordinal(last) = 2 * cache - 1
      BY <1>2, <2>1, <2>3
    <3>3. QED BY <2>2, <3>1, <3>2, OrdinalTells
  <2>5. last # Head(events)
    BY <1>1, <2>4
  <2>6. Contains(events, last)
    BY <2>2 DEF Contains, n, last
  <2>7. cache # 1
    <3>1. PICK m \in 1 .. MaxIncarnations : first = <<"delete", m>>
      BY <1>1, <2>1, <2>2 DEF Event
    <3>2. Ordinal(first) = 2 * m /\ m \in Nat /\ m # 0
      BY <2>2, <3>1, OrdinalTells, MapAssumption
    <3>3. QED BY <1>2, <2>1, <2>3, <3>2
  <2>8. QED BY <1>3, <2>4, <2>5, <2>6, <2>7
<1>5. TypeOK'
  <2>1. 0 \in 0 .. Len(throttlers)
    BY LenProperties DEF MapInv, TypeOK
  <2>2. QED BY <1>1, <1>2, <1>3, <2>1 DEF TypeOK, Event
<1>6. InformerHasEvent' /\ NoDeadThrottler'
  BY <1>1 DEF InformerHasEvent, NoDeadThrottler
<1>7. CreationAhead'
  BY <1>1, <1>4 DEF CreationAhead
<1>8. FirstStays'
  BY <1>1, <1>4 DEF MapInv, FirstStays
<1>9. QED BY <1>3, <1>5, <1>6, <1>7, <1>8 DEF MapInv

\* Every step of requests and informer keeps the map consistent.
LEMMA StepMap == MapInv /\ [Next]_vars => MapInv'
<1> SUFFICES ASSUME MapInv, [Next]_vars PROVE MapInv'
  OBVIOUS
<1>1. CASE UNCHANGED vars
  BY <1>1 DEF vars, MapInv, TypeOK, EventsInOrder, Latest, InformerHasEvent, NoDeadThrottler,
              CreationAhead, FirstStays
<1>2. QED BY <1>1, RevisionCreatedKeeps, RevisionRemovedKeeps, getOrCreateKeeps, revisionUpdatedKeeps,
             revisionDeletedKeeps DEF Next

\* throttler.go:535-596: the map, its events and what requests were given stay consistent,
\* however they interleave.
THEOREM MapConsistent == Spec => []MapInv
BY InitMap, StepMap, PTL DEF Spec

\* throttler.go:580: the map holds a throttler only of the revision that exists, or of one
\* whose delete event is still under way, however often the revision comes and goes.
THEOREM DeadThrottlersGo == Spec => []NoDeadThrottler
<1>1. MapInv => NoDeadThrottler
  BY DEF MapInv
<1>2. QED BY <1>1, MapConsistent, PTL

\* throttler.go:545: the two looks give everyone the same throttler of a revision that is
\* never deleted, for any number of goroutines.
THEOREM OneForAll == Spec => []OneThrottler
<1>1. MapInv => OneThrottler
  BY DEF MapInv, FirstStays, OneThrottler
<1>2. QED BY <1>1, MapConsistent, PTL

\* throttler.go:566: once its events are delivered an existing revision has a throttler,
\* although the delete event of an earlier one may have removed it.
THEOREM BacklogSetUp == Spec => []BacklogIsReady
<1>1. MapInv => BacklogIsReady
  <2> SUFFICES ASSUME MapInv, cache # 0, events = <<>>, entry = 0 PROVE FALSE
    BY DEF BacklogIsReady
  <2>1. Contains(events, <<"add", cache>>)
    BY DEF MapInv, CreationAhead
  <2>2. Len(events) = 0
    BY EmptySeq
  <2>3. QED BY <2>1, <2>2 DEF Contains
<1>2. QED BY <1>1, MapConsistent, PTL

==============================================================================
