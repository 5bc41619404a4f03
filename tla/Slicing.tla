------------------------------- MODULE Slicing -------------------------------
(***************************************************************************)
(* How throttler.go divides the pods of a revision among the activators:   *)
(* every activator sorts the same pods and the same activators by address  *)
(* and takes the slice that belongs to its own index.  An address is a     *)
(* number here.                                                            *)
(***************************************************************************)
EXTENDS Integers, Sequences, FiniteSets, SequencesExt

Sorted(addresses) ==
  [i \in 1 .. Cardinality(addresses) |->
     CHOOSE a \in addresses : Cardinality({b \in addresses : b < a}) = i - 1]

\* The position of ipAddress in the sorted list of activators, -1 if it is absent.
inferIndex(activators, ipAddress) ==
  IF ipAddress \in activators THEN Cardinality({a \in activators : a < ipAddress}) ELSE -1

\* The 0-based half-open range of activator selfIndex, and the trackers left over.
pickIndices(numTrackers, selfIndex, numActivators) ==
  IF numActivators > numTrackers
  THEN [beginIndex |-> selfIndex % numTrackers,
        endIndex   |-> (selfIndex % numTrackers) + 1,
        remnants   |-> 0]
  ELSE LET sliceSize == numTrackers \div numActivators
       IN  [beginIndex |-> selfIndex * sliceSize,
            endIndex   |-> selfIndex * sliceSize + sliceSize,
            remnants   |-> numTrackers % numActivators]

\* Mutant of assignSlice: the first activator takes every remnant.
assignSliceToFirst(trackers, selfIndex, numActivators) ==
  LET lt    == Len(trackers)
      slice == pickIndices(lt, selfIndex, numActivators)
  IN  IF selfIndex = -1 \/ lt <= 1 \/ numActivators = 1 THEN trackers
      ELSE SubSeq(trackers, slice.beginIndex + 1, slice.endIndex) \o
           IF selfIndex = 0 THEN SubSeq(trackers, lt - slice.remnants + 1, lt) ELSE <<>>

\* The slice, and one of the last "remnants" trackers for each of the first activators.
assignSlice(trackers, selfIndex, numActivators) ==
  LET lt    == Len(trackers)
      slice == pickIndices(lt, selfIndex, numActivators)
  IN  IF selfIndex = -1 \/ lt <= 1 \/ numActivators = 1 THEN trackers
      ELSE SubSeq(trackers, slice.beginIndex + 1, slice.endIndex) \o
           IF slice.remnants > selfIndex THEN <<trackers[lt - slice.remnants + selfIndex + 1]>>
                                         ELSE <<>>

==============================================================================
