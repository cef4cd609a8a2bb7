---------------------------- MODULE ShmSegments ----------------------------
(***************************************************************************)
(* The shared memory objects behind SharedMemoryTransport: how transports  *)
(* of several processes create, size, map, initialise, unmap and unlink    *)
(* them (src/transport/shared_memory_transport.cc), system call by system  *)
(* call.  What is inside an object is ShmRing's matter.                    *)
(***************************************************************************)
EXTENDS Naturals, FiniteSets

CONSTANTS
  Transports,    \* the transports, each in a process of its own
  Topics,        \* topic names
  Names,         \* names of shared memory objects
  ShmName,       \* the name CreateOrOpenSegment makes of a topic
  TotalSize,     \* sizeof(RingBuffer) plus each transport's buffer_size_
  Objects,       \* identities of shared memory objects: 1 .. a bound
  NoObject,      \* what a name that is not linked refers to
  Crashable,     \* the transports whose process may be killed
  Destroyable,   \* the transports whose destructor may run
  FtruncateFails, MmapFails,  \* whether the system calls may fail
  NoCall         \* a transport that is in no call

ASSUME SegmentsAssumption ==
  /\ ShmName \in [Topics -> Names]
  /\ TotalSize \in [Transports -> Nat \ {0}]
  /\ Objects \subseteq Nat
  /\ FtruncateFails \in BOOLEAN /\ MmapFails \in BOOLEAN
  /\ NoObject \notin Objects

VARIABLES
  linked,        \* the object each name refers to
  size,          \* the size of each object
  segments,      \* segments_ of each transport
  pc, call,      \* per transport: the step it is at, the call it is in
  unlinked,      \* history: the names some destructor has unlinked
  abandoned      \* history: the names a killed process or a failed call has left behind

history == <<unlinked, abandoned>>
vars == <<linked, size, segments, pc, call, history>>

Steps == {"idle", "truncate", "map", "init", "store", "close", "unlink", "fault"}

Init ==
  /\ linked = [n \in Names |-> NoObject]
  /\ size = [o \in Objects |-> 0]
  /\ segments = [t \in Transports |-> {}]
  /\ pc = [t \in Transports |-> "idle"]
  /\ call = [t \in Transports |-> NoCall]
  /\ unlinked = {} /\ abandoned = {}

Goto(t, from, to) == pc[t] = from /\ pc' = [pc EXCEPT ![t] = to]

Return(t, from) ==
  /\ Goto(t, from, "idle")
  /\ call' = [call EXCEPT ![t] = NoCall]

Opening(t) == pc[t] \in {"truncate", "map", "init", "store"}

\* The names transport t has in use: of its segments_ and of the call it is in.
NamesOf(t) ==
  {s.name : s \in segments[t]}
  \cup (IF Opening(t) THEN {ShmName[call[t].topic]} ELSE {})
  \cup (IF pc[t] = "unlink" THEN {call[t].name} ELSE {})

\* The objects somebody still refers to; the kernel frees the others.
InUse ==
  {linked[n] : n \in Names} \cup {s.object : s \in UNION {segments[t] : t \in Transports}}
  \cup {call[t].object : t \in {u \in Transports : Opening(u)}}

-----------------------------------------------------------------------------
(* Advertise and Subscribe: CreateOrOpenSegment. *)

\* Mutant of ShmOpen: an object left by another transport is replaced.
ShmOpenFresh(t) ==
  /\ Goto(t, "idle", "truncate")
  /\ \E topic \in Topics, advertise \in BOOLEAN, o \in Objects \ InUse :
       /\ \A s \in segments[t] : s.topic # topic
       /\ \A k \in Objects \ InUse : o <= k
       /\ linked' = [linked EXCEPT ![ShmName[topic]] = o]
       /\ size' = [size EXCEPT ![o] = 0]
       /\ call' = [call EXCEPT ![t] = [topic |-> topic, advertise |-> advertise,
                                       object |-> o, mapped |-> FALSE]]
  /\ UNCHANGED <<segments, history>>

\* Mutant of ShmOpen: segments_ is not looked at first.
ShmOpenAgain(t) ==
  /\ Goto(t, "idle", "truncate")
  /\ \E topic \in Topics, advertise \in BOOLEAN, o \in Objects :
       LET n == ShmName[topic]
       IN  /\ \/ o = linked[n] /\ UNCHANGED <<linked, size>>
              \/ /\ linked[n] = NoObject
                 /\ o \notin InUse /\ \A k \in Objects \ InUse : o <= k
                 /\ linked' = [linked EXCEPT ![n] = o]
                 /\ size' = [size EXCEPT ![o] = 0]
           /\ call' = [call EXCEPT ![t] = [topic |-> topic, advertise |-> advertise,
                                           object |-> o, mapped |-> FALSE]]
  /\ UNCHANGED <<segments, history>>

\* shm_open with O_CREAT: the object of that name, or a new one of size 0.
ShmOpen(t) ==
  /\ Goto(t, "idle", "truncate")
  /\ \E topic \in Topics, advertise \in BOOLEAN, o \in Objects :
       LET n == ShmName[topic]
       IN  /\ \A s \in segments[t] : s.topic # topic
           /\ \/ o = linked[n] /\ UNCHANGED <<linked, size>>
              \/ /\ linked[n] = NoObject
                 /\ o \notin InUse /\ \A k \in Objects \ InUse : o <= k
                 /\ linked' = [linked EXCEPT ![n] = o]
                 /\ size' = [size EXCEPT ![o] = 0]
           /\ call' = [call EXCEPT ![t] = [topic |-> topic, advertise |-> advertise,
                                           object |-> o, mapped |-> FALSE]]
  /\ UNCHANGED <<segments, history>>

\* Mutant of Ftruncate: only an object nobody has sized yet is sized, without the header.
FtruncateOnce(t) ==
  /\ Goto(t, "truncate", "map")
  /\ size' = IF size[call[t].object] = 0
             THEN [size EXCEPT ![call[t].object] = TotalSize[t] - 1] ELSE size
  /\ UNCHANGED <<linked, segments, call, history>>

\* Whatever its size was before.
Ftruncate(t) ==
  /\ Goto(t, "truncate", "map")
  /\ size' = [size EXCEPT ![call[t].object] = TotalSize[t]]
  /\ UNCHANGED <<linked, segments, call, history>>

\* The call returns false; the object stays, with its name.
FtruncateFailed(t) ==
  /\ FtruncateFails /\ Return(t, "truncate")
  /\ abandoned' = abandoned \cup {ShmName[call[t].topic]}
  /\ UNCHANGED <<linked, size, segments, unlinked>>

\* mmap reports a failure with MAP_FAILED, which is not the nullptr the code looks for:
\* the call goes on either way.
Mmap(t) ==
  /\ Goto(t, "map", IF call[t].advertise THEN "init" ELSE "store")
  /\ \E mapped \in {TRUE} \cup {~MmapFails} :
       call' = [call EXCEPT ![t].mapped = mapped]
  /\ UNCHANGED <<linked, size, segments, history>>

\* Advertise stores into the ring at once.
InitRing(t) ==
  /\ Goto(t, "init", IF call[t].mapped THEN "store" ELSE "fault")
  /\ abandoned' = IF call[t].mapped THEN abandoned ELSE abandoned \cup NamesOf(t)
  /\ UNCHANGED <<linked, size, segments, call, unlinked>>

StoreSegment(t) ==
  /\ Return(t, "store")
  /\ segments' = [segments EXCEPT ![t] = @ \cup
                    {[topic |-> call[t].topic, name |-> ShmName[call[t].topic],
                      object |-> call[t].object, size |-> TotalSize[t],
                      mapped |-> call[t].mapped]}]
  /\ UNCHANGED <<linked, size, history>>

\* Send and Receive access the segment: SIGSEGV where nothing is mapped, SIGBUS past the
\* end of an object made smaller.
AccessFaults(t) ==
  /\ Goto(t, "idle", "fault")
  /\ \E s \in segments[t] : ~s.mapped \/ size[s.object] < s.size
  /\ UNCHANGED <<linked, size, segments, call, history>>

-----------------------------------------------------------------------------
(* The destructor, CloseSegment, and the end of a process. *)

\* The destructor has a segment left: munmap.  (Of MAP_FAILED it changes nothing.)
CloseSegment(t) ==
  /\ t \in Destroyable
  /\ pc[t] \in {"idle", "close"} /\ pc' = [pc EXCEPT ![t] = "unlink"]
  /\ \E s \in segments[t] :
       /\ segments' = [segments EXCEPT ![t] = @ \ {s}]
       /\ call' = [call EXCEPT ![t] = [name |-> s.name]]
  /\ UNCHANGED <<linked, size, history>>

\* Mutant of ShmUnlink: the name is left.
ShmUnlinkNever(t) ==
  /\ pc[t] = "unlink"
  /\ pc' = [pc EXCEPT ![t] = IF segments[t] = {} THEN "idle" ELSE "close"]
  /\ call' = [call EXCEPT ![t] = NoCall]
  /\ UNCHANGED <<linked, size, segments, history>>

\* Removes the name, whichever object it refers to by now and whoever uses that.
ShmUnlink(t) ==
  /\ pc[t] = "unlink"
  /\ pc' = [pc EXCEPT ![t] = IF segments[t] = {} THEN "idle" ELSE "close"]
  /\ linked' = [linked EXCEPT ![call[t].name] = NoObject]
  /\ call' = [call EXCEPT ![t] = NoCall]
  /\ unlinked' = unlinked \cup {call[t].name}
  /\ abandoned' = abandoned \ {call[t].name}
  /\ UNCHANGED <<size, segments>>

\* The process is killed, between any two steps, or ends by its fault, and starts again:
\* the kernel unmaps, nobody unlinks.
Crash(t) ==
  /\ t \in Crashable
  /\ pc[t] # "idle" \/ segments[t] # {}
  /\ segments' = [segments EXCEPT ![t] = {}]
  /\ pc' = [pc EXCEPT ![t] = "idle"]
  /\ call' = [call EXCEPT ![t] = NoCall]
  /\ abandoned' = abandoned \cup NamesOf(t)
  /\ UNCHANGED <<linked, size, unlinked>>

Next ==
  \E t \in Transports :
    \/ ShmOpen(t) \/ Ftruncate(t) \/ FtruncateFailed(t) \/ Mmap(t) \/ InitRing(t)
    \/ StoreSegment(t) \/ AccessFaults(t) \/ CloseSegment(t) \/ ShmUnlink(t) \/ Crash(t)

Spec == Init /\ [][Next]_vars

-----------------------------------------------------------------------------
(* Properties. *)

Segments == [topic : Topics, name : Names, object : Objects,
             size : {TotalSize[t] : t \in Transports}, mapped : BOOLEAN]
Calls    == [topic : Topics, advertise : BOOLEAN, object : Objects, mapped : BOOLEAN]

\* Every variable keeps its type; segments_ has one segment per topic.
TypeOK ==
  /\ linked \in [Names -> Objects \cup {NoObject}]
  /\ size \in [Objects -> {0} \cup {TotalSize[t] : t \in Transports}]
  /\ segments \in [Transports -> SUBSET Segments]
  /\ \A t \in Transports : \A s1, s2 \in segments[t] : s1.topic = s2.topic => s1 = s2
  /\ pc \in [Transports -> Steps]
  /\ \A t \in Transports : Opening(t) =>
       call[t] \in Calls
  /\ unlinked \subseteq Names /\ abandoned \subseteq Names

OneObjectPer(names) ==
  \A t, u \in Transports : \A s \in segments[t], s2 \in segments[u] :
    s.name = s2.name /\ s.name \in names => s.object = s2.object

\* Transports that have mapped the segment of the same name have mapped the same object:
\* what one sends there the other can receive.
SharedByName == OneObjectPer(Names)

\* Whoever opens it first, whichever system calls fail and whoever is killed, only the
\* shm_unlink of a destructor separates transports that use the same name.
SharedUnlessUnlinked == OneObjectPer(Names \ unlinked)

\* No object is smaller than a mapping of it, in transports with the same buffer_size_.
MappingsBacked ==
  \A t \in Transports : \A s \in segments[t] : s.mapped => s.size <= size[s.object]

\* A name that is linked is one some transport will unlink, unless a killed process or a
\* failed ftruncate has left it: when the last transport is destroyed no other is there.
NoSegmentLeft ==
  \A n \in Names \ abandoned : linked[n] # NoObject => \E t \in Transports : n \in NamesOf(t)

-----------------------------------------------------------------------------
(* The inductive invariant. *)

\* A call is one that opens a topic the transport has no segment of, or the unlinking of a
\* name.
CallInv ==
  /\ call \in [Transports -> {NoCall} \cup Calls \cup [name : Names]]
  /\ \A t \in Transports : pc[t] = "unlink" => call[t] \in [name : Names]
  /\ \A t \in Transports : Opening(t) => \A s \in segments[t] : s.topic # call[t].topic

\* A name no destructor has unlinked still refers to what was opened under it.
LinkedInv ==
  \A t \in Transports :
    /\ \A s \in segments[t] : s.name \notin unlinked => linked[s.name] = s.object
    /\ Opening(t) /\ ShmName[call[t].topic] \notin unlinked =>
         linked[ShmName[call[t].topic]] = call[t].object

\* An object in use has been sized, and nobody sizes it otherwise.
SameSizes == \A t, u \in Transports : TotalSize[t] = TotalSize[u]

SizeInv ==
  SameSizes => \A t \in Transports :
    /\ \A s \in segments[t] : size[s.object] = TotalSize[t]
    /\ pc[t] \in {"map", "init", "store"} => size[call[t].object] = TotalSize[t]

SegInv == TypeOK /\ CallInv /\ LinkedInv /\ SizeInv /\ NoSegmentLeft
=============================================================================
