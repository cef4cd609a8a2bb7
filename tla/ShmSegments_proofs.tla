------------------------ MODULE ShmSegments_proofs ------------------------
(***************************************************************************)
(* Proofs about ShmSegments, for any number of transports, topics, names   *)
(* and objects, whichever system calls fail and whoever is killed.  SegInv *)
(* is inductive: a name that no destructor has unlinked refers to the      *)
(* object every transport has opened under it, and no object in use is     *)
(* sized anew to anything else.                                            *)
(***************************************************************************)
EXTENDS ShmSegments, TLAPS

-----------------------------------------------------------------------------
\* The initial state: no object, no segment, no call.
LEMMA InitSegInv == Init => SegInv
<1> SUFFICES ASSUME Init PROVE SegInv
  OBVIOUS
<1> USE DEF Init, history
<1>1. TypeOK
  BY DEF TypeOK, Steps, Opening
<1>2. CallInv
  BY DEF CallInv, Opening
<1>3. LinkedInv /\ SizeInv
  BY DEF LinkedInv, SizeInv, Opening
<1>4. NoSegmentLeft
  BY DEF NoSegmentLeft
<1> QED BY <1>1, <1>2, <1>3, <1>4 DEF SegInv

\* A step of transport t leaves no name behind if t keeps the names it has in use, or they
\* are abandoned, or unlinked; and if a name linked anew is in use by t.
LEMMA NoSegmentStep ==
  ASSUME NoSegmentLeft, NEW t \in Transports,
         \A u \in Transports \ {t} : NamesOf(u) \subseteq NamesOf(u)',
         \A n \in NamesOf(t) : n \in NamesOf(t)' \cup abandoned' \/ linked'[n] = NoObject,
         \A n \in Names : \/ n \in NamesOf(t)' \cup abandoned'
                          \/ linked'[n] = NoObject
                          \/ linked[n] # NoObject /\ n \notin abandoned
  PROVE  NoSegmentLeft'
<1> SUFFICES ASSUME NEW n \in Names, n \notin abandoned', linked'[n] # NoObject
             PROVE  \E u \in Transports : n \in NamesOf(u)'
  BY DEF NoSegmentLeft
<1>1. CASE n \in NamesOf(t)'
  BY <1>1
<1>2. CASE n \notin NamesOf(t)'
  <2>1. PICK u \in Transports : n \in NamesOf(u)
    BY <1>2 DEF NoSegmentLeft
  <2> QED BY <2>1, <1>2
<1> QED BY <1>1, <1>2

\* The names in use are names.
LEMMA NamesOfType ==
  ASSUME TypeOK, CallInv, NEW t \in Transports
  PROVE  NamesOf(t) \subseteq Names
BY SegmentsAssumption DEF TypeOK, CallInv, NamesOf, Segments, Calls, Opening

\* Advertise and Subscribe look at segments_ first; a new object is one nobody has open.
LEMMA ShmOpenSegInv ==
  ASSUME SegInv, NEW t \in Transports, ShmOpen(t)
  PROVE  SegInv'
<1> USE SegmentsAssumption DEF ShmOpen, Goto, Calls, history, SegInv
<1>1. TypeOK'
  BY DEF TypeOK, CallInv, Steps, Opening, Segments, Calls
<1>2. CallInv'
  BY DEF TypeOK, CallInv, Steps, Opening, Calls
<1>3. LinkedInv'
  BY DEF TypeOK, CallInv, LinkedInv, Opening, Segments, Calls
<1>4. SizeInv'
  <2> PICK o \in Objects :
        /\ \/ size' = size
           \/ o \notin InUse /\ size' = [size EXCEPT ![o] = 0]
        /\ pc' = [pc EXCEPT ![t] = "truncate"]
        /\ \A u \in Transports \ {t} : call'[u] = call[u]
    BY DEF TypeOK, CallInv
  <2>1. SameSizes => \A u \in Transports : \A s \in segments[u] :
          s.object \in InUse /\ s.object \in Objects /\ size[s.object] = TotalSize[u]
    BY DEF TypeOK, Segments, SizeInv, InUse
  <2>2. ASSUME SameSizes, NEW u \in Transports, pc[u] \in {"map", "init", "store"}
        PROVE  /\ call[u].object \in InUse /\ call[u].object \in Objects
               /\ size[call[u].object] = TotalSize[u]
    BY <2>2 DEF TypeOK, Calls, SizeInv, InUse, Opening
  <2> QED BY <2>1, <2>2 DEF TypeOK, SizeInv
<1>5. NoSegmentLeft'
  BY NoSegmentStep DEF TypeOK, CallInv, NamesOf, Opening, Segments, Calls
<1> QED BY <1>1, <1>2, <1>3, <1>4, <1>5

\* The object has the size already, or gets it.
LEMMA FtruncateSegInv ==
  ASSUME SegInv, NEW t \in Transports, Ftruncate(t)
  PROVE  SegInv'
<1> USE SegmentsAssumption DEF Ftruncate, Goto, history, SegInv
<1>1. TypeOK'
  BY DEF TypeOK, CallInv, Steps, Opening, Segments, Calls
<1>2. CallInv'
  BY DEF TypeOK, CallInv, Steps, Opening, Calls
<1>3. LinkedInv'
  BY DEF TypeOK, CallInv, LinkedInv, Opening, Segments, Calls
<1>4. SizeInv'
  BY DEF TypeOK, CallInv, SizeInv, SameSizes, Opening, Segments, Calls
<1>5. NoSegmentLeft'
  BY NoSegmentStep DEF TypeOK, CallInv, NamesOf, Opening, Segments, Calls
<1> QED BY <1>1, <1>2, <1>3, <1>4, <1>5

\* The name is abandoned.
LEMMA FtruncateFailedSegInv ==
  ASSUME SegInv, NEW t \in Transports, FtruncateFailed(t)
  PROVE  SegInv'
<1> USE SegmentsAssumption DEF FtruncateFailed, Return, Goto, history, SegInv
<1>1. TypeOK'
  BY DEF TypeOK, CallInv, Steps, Opening, Segments, Calls
<1>2. CallInv'
  BY DEF TypeOK, CallInv, Steps, Opening, Calls
<1>3. LinkedInv'
  BY DEF TypeOK, CallInv, LinkedInv, Opening, Segments, Calls
<1>4. SizeInv'
  BY DEF TypeOK, CallInv, SizeInv, SameSizes, Opening, Segments, Calls
<1>5. NoSegmentLeft'
  BY NoSegmentStep DEF TypeOK, CallInv, NamesOf, Opening, Segments, Calls
<1> QED BY <1>1, <1>2, <1>3, <1>4, <1>5

\* The mapping may be none at all.
LEMMA MmapSegInv ==
  ASSUME SegInv, NEW t \in Transports, Mmap(t)
  PROVE  SegInv'
<1> USE SegmentsAssumption DEF Mmap, Goto, history, SegInv
<1> PICK mapped \in BOOLEAN : call' = [call EXCEPT ![t].mapped = mapped]
  OBVIOUS
<1>0. /\ call[t] \in Calls /\ call'[t] \in Calls
      /\ call'[t].topic = call[t].topic /\ call'[t].object = call[t].object
      /\ \A u \in Transports \ {t} : call'[u] = call[u]
  BY DEF TypeOK, CallInv, Calls, Opening
<1>p. /\ pc' = [pc EXCEPT ![t] = IF call[t].advertise THEN "init" ELSE "store"]
      /\ pc[t] = "map" /\ UNCHANGED <<linked, size, segments, unlinked, abandoned>>
  OBVIOUS
<1>1. TypeOK'
  BY <1>0, <1>p DEF TypeOK, CallInv, Steps, Opening
<1>2. CallInv'
  BY <1>0, <1>p DEF TypeOK, CallInv, Steps, Opening
<1>3. LinkedInv'
  BY DEF TypeOK, CallInv, LinkedInv, Opening, Segments, Calls
<1>4. SizeInv'
  BY DEF TypeOK, CallInv, SizeInv, SameSizes, Opening, Segments, Calls
<1>5. NoSegmentLeft'
  BY NoSegmentStep DEF TypeOK, CallInv, NamesOf, Opening, Segments, Calls
<1> QED BY <1>1, <1>2, <1>3, <1>4, <1>5

\* The store into a mapping that is none ends the process.
LEMMA InitRingSegInv ==
  ASSUME SegInv, NEW t \in Transports, InitRing(t)
  PROVE  SegInv'
<1> USE SegmentsAssumption DEF InitRing, Goto, history, SegInv
<1>1. TypeOK'
  BY NamesOfType DEF TypeOK, CallInv, Steps, Opening, Segments, Calls
<1>2. CallInv'
  BY DEF TypeOK, CallInv, Steps, Opening, Calls
<1>3. LinkedInv'
  BY DEF TypeOK, CallInv, LinkedInv, Opening, Segments, Calls
<1>4. SizeInv'
  BY DEF TypeOK, CallInv, SizeInv, SameSizes, Opening, Segments, Calls
<1>5. NoSegmentLeft'
  BY NoSegmentStep DEF TypeOK, CallInv, NamesOf, Opening, Segments, Calls
<1> QED BY <1>1, <1>2, <1>3, <1>4, <1>5

\* The segment is the one the call has opened.
LEMMA StoreSegmentSegInv ==
  ASSUME SegInv, NEW t \in Transports, StoreSegment(t)
  PROVE  SegInv'
<1> USE SegmentsAssumption DEF StoreSegment, Return, Goto, history, SegInv
<1>1. TypeOK'
  BY DEF TypeOK, CallInv, Steps, Opening, Segments, Calls
<1>2. CallInv'
  BY DEF TypeOK, CallInv, Steps, Opening, Calls
<1>3. LinkedInv'
  BY DEF TypeOK, CallInv, LinkedInv, Opening, Segments, Calls
<1>4. SizeInv'
  BY DEF TypeOK, CallInv, SizeInv, SameSizes, Opening, Segments, Calls
<1>5. NoSegmentLeft'
  <2>1. ShmName[call[t].topic] \in NamesOf(t)'
    <3> DEFINE new == [topic |-> call[t].topic, name |-> ShmName[call[t].topic],
                       object |-> call[t].object, size |-> TotalSize[t],
                       mapped |-> call[t].mapped]
    <3>1. new \in segments'[t]
      BY DEF TypeOK
    <3>2. new.name = ShmName[call[t].topic]
      OBVIOUS
    <3> QED BY <3>1, <3>2 DEF NamesOf
  <2>2. NamesOf(t) \subseteq NamesOf(t)'
    <3>1. segments[t] \subseteq segments'[t]
      BY DEF TypeOK
    <3>2. \A n \in NamesOf(t) :
            n = ShmName[call[t].topic] \/ \E s \in segments[t] : n = s.name
      BY DEF NamesOf
    <3> QED BY <3>1, <3>2, <2>1 DEF NamesOf
  <2>3. \A u \in Transports \ {t} : NamesOf(u) = NamesOf(u)'
    BY DEF TypeOK, CallInv, NamesOf, Opening
  <2> QED BY <2>2, <2>3, NoSegmentStep
<1> QED BY <1>1, <1>2, <1>3, <1>4, <1>5

\* Nothing but the process's own step changes.
LEMMA AccessFaultsSegInv ==
  ASSUME SegInv, NEW t \in Transports, AccessFaults(t)
  PROVE  SegInv'
<1> USE SegmentsAssumption DEF AccessFaults, Goto, history, SegInv
<1>1. TypeOK'
  BY DEF TypeOK, CallInv, Steps, Opening, Segments, Calls
<1>2. CallInv'
  BY DEF TypeOK, CallInv, Steps, Opening, Calls
<1>3. LinkedInv'
  BY DEF TypeOK, CallInv, LinkedInv, Opening, Segments, Calls
<1>4. SizeInv'
  BY DEF TypeOK, CallInv, SizeInv, SameSizes, Opening, Segments, Calls
<1>5. NoSegmentLeft'
  BY NoSegmentStep DEF TypeOK, CallInv, NamesOf, Opening, Segments, Calls
<1> QED BY <1>1, <1>2, <1>3, <1>4, <1>5

\* The name of the segment becomes that of the call.
LEMMA CloseSegmentSegInv ==
  ASSUME SegInv, NEW t \in Transports, CloseSegment(t)
  PROVE  SegInv'
<1> USE SegmentsAssumption DEF CloseSegment, history, SegInv
<1>1. TypeOK'
  BY DEF TypeOK, CallInv, Steps, Opening, Segments, Calls
<1>2. CallInv'
  BY DEF TypeOK, CallInv, Steps, Opening, Calls, Segments
<1>3. LinkedInv'
  BY DEF TypeOK, CallInv, LinkedInv, Opening, Segments, Calls
<1>4. SizeInv'
  BY DEF TypeOK, CallInv, SizeInv, SameSizes, Opening, Segments, Calls
<1>5. NoSegmentLeft'
  BY NoSegmentStep DEF TypeOK, CallInv, NamesOf, Opening, Segments, Calls
<1> QED BY <1>1, <1>2, <1>3, <1>4, <1>5

\* Whatever the name refers to by now: it is unlinked and claims nothing any more.
LEMMA ShmUnlinkSegInv ==
  ASSUME SegInv, NEW t \in Transports, ShmUnlink(t)
  PROVE  SegInv'
<1> USE SegmentsAssumption DEF ShmUnlink, history, SegInv
<1>1. TypeOK'
  BY DEF TypeOK, CallInv, Steps, Opening, Segments, Calls
<1>2. CallInv'
  BY DEF TypeOK, CallInv, Steps, Opening, Calls
<1>3. LinkedInv'
  BY DEF TypeOK, CallInv, LinkedInv, Opening, Segments, Calls
<1>4. SizeInv'
  BY DEF TypeOK, CallInv, SizeInv, SameSizes, Opening, Segments, Calls
<1>5. NoSegmentLeft'
  BY NoSegmentStep DEF TypeOK, CallInv, NamesOf, Opening, Segments, Calls
<1> QED BY <1>1, <1>2, <1>3, <1>4, <1>5

\* The names the process had in use are abandoned.
LEMMA CrashSegInv ==
  ASSUME SegInv, NEW t \in Transports, Crash(t)
  PROVE  SegInv'
<1> USE SegmentsAssumption DEF Crash, history, SegInv
<1>1. TypeOK'
  BY NamesOfType DEF TypeOK, CallInv, Steps, Opening, Segments, Calls
<1>2. CallInv'
  BY DEF TypeOK, CallInv, Steps, Opening, Calls
<1>3. LinkedInv'
  BY DEF TypeOK, CallInv, LinkedInv, Opening, Segments, Calls
<1>4. SizeInv'
  BY DEF TypeOK, CallInv, SizeInv, SameSizes, Opening, Segments, Calls
<1>5. NoSegmentLeft'
  BY NoSegmentStep DEF TypeOK, CallInv, NamesOf, Opening, Segments, Calls
<1> QED BY <1>1, <1>2, <1>3, <1>4, <1>5

-----------------------------------------------------------------------------
\* Every step preserves the invariant.
LEMMA NextSegInv == SegInv /\ [Next]_vars => SegInv'
<1> SUFFICES ASSUME SegInv, [Next]_vars PROVE SegInv'
  OBVIOUS
<1>1. CASE UNCHANGED vars
  BY <1>1 DEF vars, history, SegInv, TypeOK, CallInv, LinkedInv, SizeInv, NoSegmentLeft,
              NamesOf, Opening
<1>2. ASSUME NEW t \in Transports,
             \/ ShmOpen(t) \/ Ftruncate(t) \/ FtruncateFailed(t) \/ Mmap(t) \/ InitRing(t)
             \/ StoreSegment(t) \/ AccessFaults(t) \/ CloseSegment(t) \/ ShmUnlink(t)
             \/ Crash(t)
      PROVE  SegInv'
  BY <1>2, ShmOpenSegInv, FtruncateSegInv, FtruncateFailedSegInv, MmapSegInv,
     InitRingSegInv, StoreSegmentSegInv, AccessFaultsSegInv, CloseSegmentSegInv,
     ShmUnlinkSegInv, CrashSegInv
<1> QED BY <1>1, <1>2 DEF Next

\* SegInv holds in every reachable state.
THEOREM SegmentsInvariant == Spec => []SegInv
<1>1. Init => SegInv
  BY InitSegInv
<1>2. SegInv /\ [Next]_vars => SegInv'
  BY NextSegInv
<1> QED BY <1>1, <1>2, PTL DEF Spec

\* Every variable keeps its type; segments_ has one segment per topic.
THEOREM TypeCorrect == Spec => []TypeOK
<1>1. SegInv => TypeOK
  BY DEF SegInv
<1> QED BY <1>1, SegmentsInvariant, PTL

\* Transports that have a segment of one name have the same object, as long as no destructor
\* has unlinked the name (CreateOrOpenSegment, CloseSegment).
THEOREM SharedUntilUnlinked == Spec => []SharedUnlessUnlinked
<1>1. SegInv => SharedUnlessUnlinked
  BY DEF SegInv, TypeOK, LinkedInv, SharedUnlessUnlinked, OneObjectPer, Segments
<1> QED BY <1>1, SegmentsInvariant, PTL

\* With one buffer_size_ for all, no object is smaller than a mapping of it.
THEOREM AlwaysBacked ==
  ASSUME SameSizes
  PROVE  Spec => []MappingsBacked
<1>1. SegInv => MappingsBacked
  BY SegmentsAssumption, SameSizes
  DEF SegInv, TypeOK, SizeInv, SameSizes, MappingsBacked, Segments
<1> QED BY <1>1, SegmentsInvariant, PTL

\* A linked name is one some transport will unlink, or a kill or a failed ftruncate has left
\* it (the destructor, CloseSegment).
THEOREM NothingLeft == Spec => []NoSegmentLeft
<1>1. SegInv => NoSegmentLeft
  BY DEF SegInv
<1> QED BY <1>1, SegmentsInvariant, PTL
=============================================================================
