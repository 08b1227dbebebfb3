---------------------------- MODULE ServerProofs ----------------------------
(***************************************************************************)
(* What WebApiServer guarantees for any number of applications, devices,   *)
(* Converters, frames and lost connections: list and objects agree, and no *)
(* object is forgotten.                                                    *)
(***************************************************************************)
EXTENDS WebApiServer, FiniteSetTheorems, TLAPS

-----------------------------------------------------------------------------
(* Sequences in ascending order.                                           *)

\* Enumerating a finite set of numbers gives a sequence of all of them.
LEMMA AscendingEnumerates ==
    ASSUME NEW S, IsFiniteSet(S), NEW at \in Ascending(S)
    PROVE  /\ DOMAIN at = 1 .. Cardinality(S)
           /\ Cardinality(S) \in Nat
           /\ at \in Seq(S)
           /\ \A i \in DOMAIN at : at[i] \in S
           /\ \A s \in S : \E i \in DOMAIN at : at[i] = s
  <1>1. Cardinality(S) \in Nat
    BY FS_CardinalityType
  <1>2. at \in [1 .. Cardinality(S) -> S]
        /\ \A s \in S : \E i \in 1 .. Cardinality(S) : at[i] = s
    BY DEF Ascending, Surjection
  <1> QED
    BY <1>1, <1>2

\* A queue has finitely many places.
LEMMA PlacesFinite ==
    ASSUME NEW T, NEW queue \in Seq(T), NEW gone
    PROVE  IsFiniteSet(DOMAIN queue \ gone)
  <1>1. DOMAIN queue = 1 .. Len(queue) /\ Len(queue) \in Nat
    OBVIOUS
  <1>2. IsFiniteSet(1 .. Len(queue))
    BY <1>1, FS_Interval
  <1>3. DOMAIN queue \ gone \in SUBSET (1 .. Len(queue))
    BY <1>1
  <1> QED
    BY <1>2, <1>3, FS_Subset

-----------------------------------------------------------------------------
(* Queues of events.                                                       *)

\* What two deletions have in common: the object.
LEMMA SameObject ==
    ASSUME NEW e \in Events, NEW id, NEW c, NEW level
    PROVE  /\ Same(e, DeleteConverter(id, level))
                  <=> e.type = "converter" /\ e.id = id
           /\ Same(e, DeleteSocket(c, level))
                  <=> e.type = "socket" /\ e.client = c
  BY DEF Events, Same, DeleteConverter, DeleteSocket, FrameEvent

\* A deletion is an event, and names itself.
LEMMA DeletionTypes ==
    /\ \A id \in Ids, level \in 0 .. 1 : DeleteConverter(id, level) \in Events
    /\ \A c \in Clients, level \in 0 .. 1 : DeleteSocket(c, level) \in Events
    /\ \A a \in Addresses, effect \in Effects : FrameEvent(a, effect) \in Events
  BY DEF Events

\* An event of a kind carries what the kind says.
LEMMA EventFields ==
    ASSUME NEW e \in Events
    PROVE  /\ e.type \in {"frame", "converter", "socket"}
           /\ e.type = "frame" => e.effect \in Effects
           /\ e.type = "converter" => e.id \in Ids
           /\ e.type = "socket" => e.client \in Clients
  BY DEF Events, DeleteConverter, DeleteSocket, FrameEvent

\* Two queues of which the second holds what the first does, and perhaps the
\* events of one more set.
Extends(new, queue, more) ==
    /\ new \in Seq(Events)
    /\ \A i \in DOMAIN queue : \E j \in DOMAIN new : new[j] = queue[i]
    /\ \A j \in DOMAIN new :
          new[j] \in more \/ \E i \in DOMAIN queue : new[j] = queue[i]

\* An event more.
LEMMA AppendExtends ==
    ASSUME NEW queue \in Seq(Events), NEW e \in Events
    PROVE  /\ Extends(Append(queue, e), queue, {e})
           /\ \E j \in DOMAIN Append(queue, e) : Append(queue, e)[j] = e
  <1> DEFINE new == Append(queue, e)
  <1>1. new \in Seq(Events) /\ Len(new) = Len(queue) + 1 /\ Len(queue) \in Nat
        /\ DOMAIN new = 1 .. Len(queue) + 1 /\ DOMAIN queue = 1 .. Len(queue)
    OBVIOUS
  <1>2. \A i \in 1 .. Len(queue) : new[i] = queue[i]
    OBVIOUS
  <1>3. new[Len(queue) + 1] = e
    OBVIOUS
  <1> HIDE DEF new
  <1> QED
    BY <1>1, <1>2, <1>3 DEF Extends, new

\* deleteLater leaves a deletion of the object in the queue, and the rest.
LEMMA DeleteLaterExtends ==
    ASSUME NEW queue \in Seq(Events), NEW what \in Events,
           what.type \in {"converter", "socket"}
    PROVE  /\ Extends(DeleteLater(queue, what), queue, {what})
           /\ Deleting(DeleteLater(queue, what), what)
  <1>1. CASE Deleting(queue, what)
    BY <1>1 DEF DeleteLater, Extends
  <1>2. CASE ~Deleting(queue, what)
    <2>1. Same(what, what)
      BY SameObject DEF Events, Same, DeleteConverter, DeleteSocket, FrameEvent
    <2> QED
      BY <1>2, <2>1, AppendExtends DEF DeleteLater, Deleting
  <1> QED
    BY <1>1, <1>2

\* Whatever was about to be deleted still is.
LEMMA ExtendsDeleting ==
    ASSUME NEW queue, NEW new, NEW more, Extends(new, queue, more), NEW what,
           Deleting(queue, what)
    PROVE  Deleting(new, what)
  BY DEF Extends, Deleting

\* Events that leave a queue: those at other places remain, and no others come.
LEMMA LeaveKeeps ==
    ASSUME posted \in Seq(Events), NEW gone, Leave(gone)
    PROVE  /\ posted' \in Seq(Events)
           /\ \A j \in DOMAIN posted \ gone : \E i \in DOMAIN posted' :
                 posted'[i] = posted[j]
           /\ \A i \in DOMAIN posted' : \E j \in DOMAIN posted \ gone :
                 posted'[i] = posted[j]
  <1> DEFINE stay == DOMAIN posted \ gone
  <1>1. PICK left \in Ascending(stay) :
            posted' = [i \in DOMAIN left |-> posted[left[i]]]
    BY DEF Leave
  <1>2. IsFiniteSet(stay)
    BY PlacesFinite
  <1> HIDE DEF stay
  <1>3. /\ DOMAIN left = 1 .. Cardinality(stay) /\ Cardinality(stay) \in Nat
        /\ \A i \in DOMAIN left : left[i] \in stay
        /\ \A s \in stay : \E i \in DOMAIN left : left[i] = s
    BY <1>2, AscendingEnumerates
  <1>4. \A j \in stay : j \in DOMAIN posted /\ posted[j] \in Events
    BY DEF stay
  <1>5. posted' \in [1 .. Cardinality(stay) -> Events]
    BY <1>1, <1>3, <1>4
  <1>6. posted' \in Seq(Events)
    BY <1>3, <1>5
  <1> QED
    BY <1>1, <1>3, <1>6 DEF stay

-----------------------------------------------------------------------------
(* What the operators of the server do to its state.                       *)

\* The types of list and objects, entry by entry.
LEMMA EntryTypes ==
    ASSUME TypeOK
    PROVE  /\ \A e \in DOMAIN converterList : e \in Euis /\ converterList[e] \in Ids
           /\ \A o \in DOMAIN objects : o \in 1 .. created /\ objects[o] \in Object
           /\ created \in Nat /\ MaxConverters \in Nat /\ created <= MaxConverters
           /\ \A o \in DOMAIN objects : o \in Ids
  BY ServerAssumption DEF TypeOK, Range, Ids

\* There are finitely many objects.
LEMMA ObjectsFinite ==
    ASSUME TypeOK, NEW some \in SUBSET DOMAIN objects
    PROVE  IsFiniteSet(some)
  <1>1. IsFiniteSet(1 .. created) /\ some \in SUBSET (1 .. created)
    BY EntryTypes, FS_Interval
  <1> QED
    BY <1>1, FS_Subset

\* The deletions of some Converters, and of any.
DeletionsOf(ids) == {DeleteConverter(o, level) : o \in ids, level \in 0 .. 1}

ConverterDeletions == DeletionsOf(Ids)

\* What may have been posted may be less.
LEMMA ExtendsMore ==
    ASSUME NEW new, NEW queue, NEW some, NEW more, some \subseteq more,
           Extends(new, queue, some)
    PROVE  Extends(new, queue, more)
  BY DEF Extends

\* The level a deletion was posted at does not matter to who is deleted.
LEMMA AnyLevel ==
    ASSUME NEW queue \in Seq(Events), NEW id, NEW level, NEW other
    PROVE  Deleting(queue, DeleteConverter(id, level))
               <=> Deleting(queue, DeleteConverter(id, other))
  <1>1. \A i \in DOMAIN queue : queue[i] \in Events
    OBVIOUS
  <1>2. \A i \in DOMAIN queue : Same(queue[i], DeleteConverter(id, level))
                                  <=> Same(queue[i], DeleteConverter(id, other))
    BY <1>1, SameObject
  <1> QED
    BY <1>2 DEF Deleting

\* idleDisconnectTimeout takes one entry at most out of the list, and its
\* object is then about to be deleted.
LEMMA IdleDisconnectTimeoutTakes ==
    ASSUME TypeOK, NEW eui, IdleDisconnectTimeout(eui)
    PROVE  /\ Extends(posted', posted, ConverterDeletions)
           /\ DOMAIN converterList' = DOMAIN converterList \ {eui}
           /\ \A e \in DOMAIN converterList' : converterList'[e] = converterList[e]
           /\ eui \in DOMAIN converterList =>
                  /\ Deleting(posted', DeleteConverter(converterList[eui], 0))
                  /\ Extends(posted', posted, DeletionsOf({converterList[eui]}))
           /\ eui \notin DOMAIN converterList => UNCHANGED posted
           /\ crashed' \in BOOLEAN
  <1>1. CASE eui \in DOMAIN converterList
    <2> DEFINE what == DeleteConverter(converterList[eui], nesting)
    <2>1. converterList[eui] \in Ids /\ nesting \in 0 .. 1 /\ posted \in Seq(Events)
      BY <1>1, EntryTypes DEF TypeOK
    <2>2. /\ what \in Events /\ what.type = "converter"
          /\ what \in DeletionsOf({converterList[eui]}) /\ what \in ConverterDeletions
      <3>1. what \in Events
        BY <2>1, DeletionTypes
      <3>2. what \in DeletionsOf({converterList[eui]}) /\ what \in ConverterDeletions
        BY <2>1 DEF ConverterDeletions, DeletionsOf
      <3>3. what.type = "converter"
        BY DEF DeleteConverter
      <3> QED
        BY <3>1, <3>2, <3>3
    <2>3. posted' = DeleteLater(posted, what)
      BY <1>1 DEF IdleDisconnectTimeout
    <2>4. Extends(posted', posted, {what}) /\ Deleting(posted', what)
      BY <2>1, <2>2, <2>3, DeleteLaterExtends
    <2>5. /\ Extends(posted', posted, ConverterDeletions) /\ posted' \in Seq(Events)
          /\ Extends(posted', posted, DeletionsOf({converterList[eui]}))
      BY <2>2, <2>4 DEF Extends
    <2>6. Deleting(posted', DeleteConverter(converterList[eui], 0))
      BY <2>4, <2>5, AnyLevel
    <2>7. converterList' = [e \in DOMAIN converterList \ {eui} |-> converterList[e]]
      BY <1>1 DEF IdleDisconnectTimeout, Restrict
    <2>8. DOMAIN converterList' = DOMAIN converterList \ {eui}
          /\ \A e \in DOMAIN converterList' : converterList'[e] = converterList[e]
      BY <2>7
    <2>9. crashed' \in BOOLEAN
      BY <1>1 DEF IdleDisconnectTimeout, TypeOK
    <2> HIDE DEF what
    <2> QED
      BY <1>1, <2>5, <2>6, <2>8, <2>9
  <1>2. CASE eui \notin DOMAIN converterList
    <2>1. UNCHANGED <<posted, converterList>> /\ crashed' \in BOOLEAN
      BY <1>2 DEF IdleDisconnectTimeout
    <2> QED
      BY <1>2, <2>1 DEF Extends, TypeOK
  <1> QED
    BY <1>1, <1>2

\* A destroyed object is gone, from the list as well, and nothing else is.
LEMMA DestroyRemoves ==
    ASSUME NEW ids, Destroy(ids)
    PROVE  /\ DOMAIN objects' = DOMAIN objects \ ids
           /\ \A o \in DOMAIN objects' : objects'[o] = objects[o]
           /\ DOMAIN converterList' =
                  {e \in DOMAIN converterList : converterList[e] \notin ids}
           /\ \A e \in DOMAIN converterList' : converterList'[e] = converterList[e]
  BY DEF Destroy, Without, Restrict

\* socketDisconnected posts the deletion of the socket and of its Converters.
LEMMA SocketDisconnectedPosts ==
    ASSUME TypeOK, NEW c \in Clients, SocketDisconnected(c)
    PROVE  /\ Extends(posted', posted,
                       {DeleteSocket(c, nesting)} \cup DeletionsOf(Children(c)))
           /\ Deleting(posted', DeleteSocket(c, nesting))
  <1> DEFINE dying == {o \in Children(c) : ~Deleting(posted, DeleteConverter(o, 0))}
             theirs == DeletionsOf(Children(c))
             first == DeleteLater(posted, DeleteSocket(c, nesting))
  <1>1. PICK ids \in Ascending(dying) :
            posted' = first \o [i \in DOMAIN ids |-> DeleteConverter(ids[i], nesting)]
    BY DEF SocketDisconnected
  <1>2. IsFiniteSet(dying)
    BY ObjectsFinite DEF Children
  <1>3. \A o \in dying : o \in Ids /\ o \in Children(c)
    BY EntryTypes DEF Children
  <1>4. nesting \in 0 .. 1 /\ posted \in Seq(Events)
    BY DEF TypeOK
  <1>5. Extends(first, posted, {DeleteSocket(c, nesting)})
        /\ Deleting(first, DeleteSocket(c, nesting))
    <2>1. DeleteSocket(c, nesting) \in Events /\ DeleteSocket(c, nesting).type = "socket"
      BY <1>4, DeletionTypes DEF DeleteSocket
    <2> QED
      BY <1>4, <2>1, DeleteLaterExtends
  <1> HIDE DEF dying, first, theirs
  <1> DEFINE rest == [i \in DOMAIN ids |-> DeleteConverter(ids[i], nesting)]
  <1>6. DOMAIN ids = 1 .. Cardinality(dying) /\ Cardinality(dying) \in Nat
        /\ \A i \in DOMAIN ids : ids[i] \in Ids /\ ids[i] \in Children(c)
    BY <1>2, <1>3, AscendingEnumerates
  <1>7. \A i \in DOMAIN ids : rest[i] \in Events /\ rest[i] \in theirs
    BY <1>4, <1>6, DeletionTypes DEF theirs, DeletionsOf
  <1>8. rest \in Seq(Events) /\ DOMAIN rest = 1 .. Len(rest) /\ Len(rest) \in Nat
        /\ \A i \in 1 .. Len(rest) : rest[i] \in theirs
    BY <1>6, <1>7
  <1> HIDE DEF rest
  <1>9. first \in Seq(Events) /\ DOMAIN first = 1 .. Len(first) /\ Len(first) \in Nat
    BY <1>5 DEF Extends
  <1>10. posted' = first \o rest
    BY <1>1 DEF rest
  <1>11. /\ posted' \in Seq(Events)
         /\ DOMAIN posted' = 1 .. Len(first) + Len(rest)
         /\ \A i \in 1 .. Len(first) : posted'[i] = first[i]
         /\ \A i \in 1 .. Len(first) + Len(rest) :
               i > Len(first) => posted'[i] \in theirs
    <2>1. posted' \in Seq(Events) /\ Len(posted') = Len(first) + Len(rest)
          /\ DOMAIN posted' = 1 .. Len(posted')
      BY <1>8, <1>9, <1>10
    <2>2. \A i \in 1 .. Len(first) + Len(rest) :
             posted'[i] = IF i <= Len(first) THEN first[i] ELSE rest[i - Len(first)]
      BY <1>8, <1>9, <1>10
    <2>3. ASSUME NEW i \in 1 .. Len(first) + Len(rest), i > Len(first)
          PROVE  posted'[i] \in theirs
      <3>1. i - Len(first) \in 1 .. Len(rest)
        BY <2>3, <1>8, <1>9
      <3> QED
        BY <3>1, <2>2, <2>3, <1>8, <1>9
    <2>4. \A i \in 1 .. Len(first) : posted'[i] = first[i]
      BY <2>2, <1>8, <1>9
    <2> QED
      BY <2>1, <2>3, <2>4
  <1>12. \A i \in DOMAIN first : i \in DOMAIN posted' /\ posted'[i] = first[i]
    BY <1>8, <1>9, <1>11
  <1>13. Deleting(posted', DeleteSocket(c, nesting))
    BY <1>5, <1>12 DEF Deleting
  <1>14. \A i \in DOMAIN posted : \E j \in DOMAIN posted' : posted'[j] = posted[i]
    BY <1>5, <1>12 DEF Extends
  <1>15. \A j \in DOMAIN posted' :
             \/ posted'[j] \in {DeleteSocket(c, nesting)} \cup theirs
             \/ \E i \in DOMAIN posted : posted'[j] = posted[i]
    BY <1>5, <1>9, <1>11 DEF Extends
  <1> QED
    BY <1>11, <1>13, <1>14, <1>15 DEF Extends, theirs

-----------------------------------------------------------------------------
(* Types.                                                                  *)

\* A socket whose deletion is posted exists and is no client any more.
SocketsLeave ==
    \A i \in DOMAIN posted : posted[i].type = "socket" =>
        posted[i].client \in sockets /\ posted[i].client \notin m_clients

Base == TypeOK /\ SocketsLeave

Delivery == [effect : Effects, to : Seq(Ids)]

\* The objects are those there were, but for the timers of one.
SameButTimers(o) ==
    /\ DOMAIN objects' = DOMAIN objects
    /\ \A p \in DOMAIN objects :
          /\ objects'[p] \in Object
          /\ objects'[p].eui = objects[p].eui
          /\ objects'[p].client = objects[p].client
          /\ p # o => objects'[p].idleTimer = objects[p].idleTimer

\* A slot that sets both timers of an object.
LEMMA TimersSet ==
    ASSUME TypeOK, NEW o, NEW wait \in BOOLEAN, NEW idle,
           o \in DOMAIN objects => idle \in BOOLEAN,
           objects' = [objects EXCEPT ![o].waitTimer = wait, ![o].idleTimer = idle]
    PROVE  SameButTimers(o) /\ (o \in DOMAIN objects => objects'[o].idleTimer = idle)
  <1>1. \A p \in DOMAIN objects : objects[p] \in Object
    BY EntryTypes
  <1> QED
    BY <1>1 DEF SameButTimers, Object

\* A slot that stops the idle timer of an object.
LEMMA IdleTimerStopped ==
    ASSUME TypeOK, NEW o, objects' = [objects EXCEPT ![o].idleTimer = FALSE]
    PROVE  SameButTimers(o)
  <1>1. \A p \in DOMAIN objects : objects[p] \in Object
    BY EntryTypes
  <1> QED
    BY <1>1 DEF SameButTimers, Object

\* The deletion of a Converter is no deletion of a socket.
LEMMA ConverterDeletionsOnly ==
    \A e \in ConverterDeletions : e.type = "converter" /\ e.id \in Ids
  BY DEF ConverterDeletions, DeletionsOf, DeleteConverter

\* A step that sets timers and posts deletions of Converters at most.
LEMMA SlotKeepsBase ==
    ASSUME Base, NEW o, SameButTimers(o),
           Extends(posted', posted, ConverterDeletions),
           DOMAIN converterList' \subseteq DOMAIN converterList,
           \A e \in DOMAIN converterList' : converterList'[e] = converterList[e],
           crashed' \in BOOLEAN, dispatching' \in Delivery,
           UNCHANGED <<m_clients, sockets, created, losses, nesting>>
    PROVE  Base'
  <1>1. DOMAIN objects' \subseteq 1 .. created' /\ Range(objects') \subseteq Object
    BY EntryTypes DEF Base, SameButTimers, Range
  <1>2. DOMAIN converterList' \subseteq Euis /\ Range(converterList') \subseteq Ids
    BY EntryTypes DEF Base, Range
  <1>3. TypeOK'
    BY <1>1, <1>2 DEF Base, TypeOK, Extends, Delivery
  <1>4. SocketsLeave'
    BY ConverterDeletionsOnly DEF Base, SocketsLeave, Extends
  <1> QED
    BY <1>3, <1>4 DEF Base

\* Nothing new is posted when nothing is.
LEMMA NothingPosted ==
    ASSUME TypeOK, UNCHANGED posted, NEW more
    PROVE  Extends(posted', posted, more)
  BY DEF TypeOK, Extends

\* What ends a session: a slot that stops the idle timer and calls
\* idleDisconnectTimeout.
LEMMA EndKeepsBase ==
    ASSUME Base, NEW o, SameButTimers(o), NEW eui, IdleDisconnectTimeout(eui),
           dispatching' \in Delivery,
           UNCHANGED <<m_clients, sockets, created, losses, nesting>>
    PROVE  Base'
  BY IdleDisconnectTimeoutTakes, SlotKeepsBase DEF Base

\* The delivery of a frame to one Converter.
LEMMA DeliverKeepsBase ==
    ASSUME Base, Deliver PROVE Base'
  <1> DEFINE o == Head(dispatching.to)
  <1>1. TypeOK /\ dispatching \in Delivery /\ dispatching.to # <<>>
    BY DEF Base, TypeOK, Deliver, Delivery
  <1>2. dispatching' \in Delivery
    <2>1. dispatching' = [dispatching EXCEPT !.to = Tail(@)]
      BY DEF Deliver
    <2>2. Tail(dispatching.to) \in Seq(Ids)
      BY <1>1 DEF Delivery
    <2> QED
      BY <1>1, <2>1, <2>2 DEF Delivery
  <1>3. UNCHANGED <<m_clients, sockets, created, losses, nesting>>
    BY DEF Deliver
  <1>4. o \in DOMAIN objects => objects[o].idleTimer \in BOOLEAN
    BY <1>1, EntryTypes DEF Object
  <1>5. CASE dispatching.effect = "packet"
    <2>1. PICK idle \in {TRUE, objects[o].idleTimer} :
              /\ objects' = [objects EXCEPT ![o].waitTimer = TRUE, ![o].idleTimer = idle]
              /\ UNCHANGED <<posted, converterList, crashed>>
      BY <1>5 DEF Deliver
    <2>2. SameButTimers(o)
      BY <1>1, <1>4, <2>1, TimersSet
    <2> QED
      BY <1>1, <1>2, <1>3, <2>1, <2>2, NothingPosted, SlotKeepsBase DEF TypeOK
  <1>6. CASE dispatching.effect = "wait"
    <2>1. objects' = [objects EXCEPT ![o].waitTimer = FALSE,
                                     ![o].idleTimer = objects[o].idleTimer]
          /\ UNCHANGED <<posted, converterList, crashed>>
      BY <1>6 DEF Deliver
    <2>2. SameButTimers(o)
      BY <1>1, <1>4, <2>1, TimersSet
    <2> QED
      BY <1>1, <1>2, <1>3, <2>1, <2>2, NothingPosted, SlotKeepsBase DEF TypeOK
  <1>7. CASE dispatching.effect = "answer"
    <2>1. objects' = [objects EXCEPT ![o].waitTimer = FALSE, ![o].idleTimer = FALSE]
          /\ IdleDisconnectTimeout(objects[o].eui)
      BY <1>7 DEF Deliver
    <2>2. SameButTimers(o)
      BY <1>1, <2>1, TimersSet
    <2> QED
      BY <1>2, <1>3, <2>1, <2>2, EndKeepsBase
  <1> QED
    BY <1>1, <1>5, <1>6, <1>7 DEF Delivery, Effects

\* The timers.
LEMMA TimersKeepBase ==
    ASSUME Base, NEW o \in DOMAIN objects, AnswerTumeout(o) \/ IdleTimeout(o)
    PROVE  Base'
  <1>1. TypeOK /\ dispatching' \in Delivery
    BY DEF Base, TypeOK, AnswerTumeout, IdleTimeout, Delivery
  <1>2. UNCHANGED <<m_clients, sockets, created, losses, nesting>>
    BY DEF AnswerTumeout, IdleTimeout
  <1>3. CASE UNCHANGED <<objects, posted, converterList, crashed>>
    <2>1. SameButTimers(o)
      BY <1>1, <1>3, EntryTypes DEF SameButTimers
    <2> QED
      BY <1>1, <1>2, <1>3, <2>1, NothingPosted, SlotKeepsBase DEF TypeOK
  <1>4. CASE /\ \/ objects' = [objects EXCEPT ![o].waitTimer = FALSE,
                                              ![o].idleTimer = FALSE]
                \/ objects' = [objects EXCEPT ![o].idleTimer = FALSE]
             /\ IdleDisconnectTimeout(objects[o].eui)
    <2>1. SameButTimers(o)
      BY <1>1, <1>4, TimersSet, IdleTimerStopped
    <2> QED
      BY <1>1, <1>2, <1>4, <2>1, EndKeepsBase
  <1> QED
    BY <1>3, <1>4 DEF AnswerTumeout, IdleTimeout

\* A new socket was no socket before.
LEMMA OnNewConnectionKeepsBase ==
    ASSUME Base, NEW c \in Clients, OnNewConnection(c) PROVE Base'
  BY DEF Base, TypeOK, SocketsLeave, OnNewConnection

\* What a request adds to list and objects.
LEMMA ProcessTextMessageAdds ==
    ASSUME TypeOK, NEW c \in Clients, NEW eui \in Euis, NEW accepted \in BOOLEAN,
           ProcessTextMessage(c, eui, accepted)
    PROVE  /\ created + 1 \in Ids /\ created + 1 \notin DOMAIN objects
           /\ created' = created + 1
           /\ DOMAIN objects' = DOMAIN objects \cup {created + 1}
           /\ \A o \in DOMAIN objects : objects'[o] = objects[o]
           /\ objects'[created + 1] \in Object
           /\ objects'[created + 1].eui = eui
           /\ objects'[created + 1].client = c
           /\ objects'[created + 1].idleTimer
           /\ DOMAIN converterList' = DOMAIN converterList \cup {eui}
           /\ converterList'[eui] = created + 1
           /\ \A e \in DOMAIN converterList : converterList'[e] = converterList[e]
  <1>1. created \in Nat /\ created < MaxConverters /\ MaxConverters \in Nat
        /\ eui \notin DOMAIN converterList /\ created' = created + 1
    BY EntryTypes DEF ProcessTextMessage
  <1>2. created + 1 \in Ids /\ created + 1 \notin DOMAIN objects
    BY <1>1, EntryTypes DEF Ids
  <1>3. [eui |-> eui, client |-> c, waitTimer |-> accepted, idleTimer |-> TRUE] \in Object
    BY DEF Object
  <1> QED
    BY <1>1, <1>2, <1>3 DEF ProcessTextMessage

\* A request leaves the queue and the sockets as they are.
LEMMA ProcessTextMessageKeepsBase ==
    ASSUME Base, NEW c \in Clients, NEW eui \in Euis, NEW accepted \in BOOLEAN,
           ProcessTextMessage(c, eui, accepted)
    PROVE  Base'
  <1>1. TypeOK
    BY DEF Base
  <1>2. UNCHANGED <<m_clients, sockets, posted, dispatching, losses, nesting, crashed>>
    BY DEF ProcessTextMessage
  <1>3. /\ created \in Nat /\ MaxConverters \in Nat
        /\ created + 1 \in Ids /\ created' = created + 1
        /\ DOMAIN objects' = DOMAIN objects \cup {created'}
        /\ \A o \in DOMAIN objects : objects'[o] = objects[o]
        /\ objects'[created'] \in Object
        /\ DOMAIN converterList' = DOMAIN converterList \cup {eui}
        /\ converterList'[eui] = created + 1
        /\ \A e \in DOMAIN converterList : converterList'[e] = converterList[e]
    BY <1>1, EntryTypes, ProcessTextMessageAdds
  <1>4. created' \in 0 .. MaxConverters
    BY <1>3 DEF Ids
  <1>5. DOMAIN objects' \subseteq 1 .. created'
    BY <1>1, <1>3, EntryTypes
  <1>6. Range(objects') \subseteq Object
    BY <1>1, <1>3, EntryTypes DEF Range
  <1>7. DOMAIN converterList' \subseteq Euis /\ Range(converterList') \subseteq Ids
    BY <1>1, <1>3, EntryTypes DEF Range
  <1> QED
    BY <1>2, <1>4, <1>5, <1>6, <1>7 DEF Base, TypeOK, SocketsLeave

\* The socket whose deletion is posted is no client any more.
LEMMA SocketDisconnectedKeepsBase ==
    ASSUME Base, NEW c \in Clients, SocketDisconnected(c) PROVE Base'
  <1> DEFINE more == {DeleteSocket(c, nesting)} \cup ConverterDeletions
  <1>1. TypeOK /\ c \in m_clients /\ m_clients' = m_clients \ {c}
        /\ UNCHANGED <<sockets, converterList, objects, created, dispatching,
                       losses, nesting, crashed>>
    BY DEF Base, SocketDisconnected
  <1>2. Extends(posted', posted, more)
    <2>1. DeletionsOf(Children(c)) \subseteq ConverterDeletions
      BY <1>1, EntryTypes DEF ConverterDeletions, DeletionsOf, Children
    <2>2. {DeleteSocket(c, nesting)} \cup DeletionsOf(Children(c)) \subseteq more
      BY <2>1
    <2> QED
      BY <1>1, <2>2, SocketDisconnectedPosts, ExtendsMore
  <1>3. \A e \in more : e.type = "socket" => e.client = c
    BY ConverterDeletionsOnly DEF DeleteSocket
  <1> HIDE DEF more
  <1>4. TypeOK'
    BY <1>1, <1>2 DEF TypeOK, Extends
  <1>5. SocketsLeave'
    BY <1>1, <1>2, <1>3 DEF Base, TypeOK, SocketsLeave, Extends
  <1> QED
    BY <1>4, <1>5 DEF Base

\* A frame is one event more.
LEMMA PostFrameKeepsBase ==
    ASSUME Base, NEW a \in Addresses, NEW effect \in Effects, PostFrame(a, effect)
    PROVE  Base'
  <1> DEFINE e == FrameEvent(a, effect)
  <1>1. e \in Events /\ e.type = "frame"
    BY DeletionTypes DEF FrameEvent
  <1>2. posted \in Seq(Events) /\ posted' = Append(posted, e)
    BY DEF Base, TypeOK, PostFrame
  <1> HIDE DEF e
  <1>3. Extends(posted', posted, {e})
    BY <1>1, <1>2, AppendExtends
  <1>4. UNCHANGED <<m_clients, sockets, converterList, objects, created, dispatching,
                    losses, nesting, crashed>>
    BY DEF PostFrame
  <1> QED
    BY <1>1, <1>3, <1>4 DEF Base, TypeOK, SocketsLeave, Extends

\* A frame leaves the queue and is on its way to those that hear it.
LEMMA ServeFrameKeepsBase ==
    ASSUME Base, ServeFrame PROVE Base'
  <1>1. TypeOK /\ posted \in Seq(Events)
        /\ UNCHANGED <<m_clients, sockets, converterList, objects, created,
                       losses, nesting, crashed>>
    BY DEF Base, TypeOK, ServeFrame
  <1>2. PICK i \in DOMAIN posted :
            /\ posted[i].type = "frame"
            /\ Leave({i})
            /\ \E to \in Ascending({o \in DOMAIN objects :
                              posted[i].addr \in Contained[objects[o].eui]}) :
                  dispatching' = [effect |-> posted[i].effect, to |-> to]
    BY DEF ServeFrame
  <1> DEFINE hear == {o \in DOMAIN objects :
                         posted[i].addr \in Contained[objects[o].eui]}
  <1>3. PICK to \in Ascending(hear) :
            dispatching' = [effect |-> posted[i].effect, to |-> to]
    BY <1>2
  <1>4. IsFiniteSet(hear) /\ \A o \in hear : o \in Ids
    BY <1>1, ObjectsFinite, EntryTypes
  <1> HIDE DEF hear
  <1>5. to \in Seq(Ids)
    <2>1. DOMAIN to = 1 .. Cardinality(hear) /\ Cardinality(hear) \in Nat
          /\ to \in Seq(hear) /\ \A k \in DOMAIN to : to[k] \in Ids
      BY <1>4, AscendingEnumerates
    <2> QED
      BY <2>1
  <1>6. posted[i] \in Events /\ posted[i].effect \in Effects
    BY <1>1, <1>2, EventFields
  <1>7. dispatching' \in Delivery
    BY <1>3, <1>5, <1>6 DEF Delivery
  <1>8. /\ posted' \in Seq(Events)
        /\ \A k \in DOMAIN posted' : \E j \in DOMAIN posted : posted'[k] = posted[j]
    BY <1>1, <1>2, LeaveKeeps
  <1>9. TypeOK'
    BY <1>1, <1>7, <1>8 DEF TypeOK, Delivery
  <1>10. SocketsLeave'
    BY <1>1, <1>8 DEF Base, SocketsLeave
  <1> QED
    BY <1>9, <1>10 DEF Base

\* Objects and perhaps a socket are destroyed, the objects of that socket among
\* them, and what leaves the queue is their deletions.
Removes(gone, ids, lost) ==
    /\ Leave(gone)
    /\ Destroy(ids)
    /\ sockets' = sockets \ lost
    /\ \A c \in lost : c \notin m_clients
    /\ \A o \in DOMAIN objects : objects[o].client \in lost => o \in ids
    /\ \A j \in DOMAIN posted :
          /\ posted[j].type = "socket" /\ posted[j].client \in lost => j \in gone
          /\ j \in gone =>
                \/ posted[j].type = "converter" /\ posted[j].id \in ids
                \/ posted[j].type = "socket" /\ posted[j].client \in lost
    /\ \/ \E o : ids = {o} /\ Deleting(posted, DeleteConverter(o, 0))
       \/ \E c \in Clients : /\ ids = Children(c)
                            /\ Deleting(posted, DeleteSocket(c, 0))

\* That is what the service of a DeferredDelete does.
LEMMA ServeDeleteRemoves ==
    ASSUME Base, ServeDelete
    PROVE  \E gone, ids, lost : Removes(gone, ids, lost)
  <1>1. posted \in Seq(Events) /\ SocketsLeave
    BY DEF Base, TypeOK
  <1>2. PICK i \in DOMAIN posted :
          LET event == posted[i]
              own   == {j \in DOMAIN posted : Same(posted[j], event)}
          IN  \/ /\ event.type = "converter"
                 /\ Leave(own)
                 /\ Destroy({event.id})
                 /\ UNCHANGED sockets
              \/ /\ event.type = "socket"
                 /\ Leave(own \cup {j \in DOMAIN posted :
                                       /\ posted[j].type = "converter"
                                       /\ posted[j].id \in Children(event.client)})
                 /\ sockets' = sockets \ {event.client}
                 /\ Destroy(Children(event.client))
    BY DEF ServeDelete
  <1> DEFINE event == posted[i]
             own   == {j \in DOMAIN posted : Same(posted[j], event)}
             theirs == {j \in DOMAIN posted :
                           /\ posted[j].type = "converter"
                           /\ posted[j].id \in Children(event.client)}
  <1>3. event \in Events /\ \A j \in DOMAIN posted : posted[j] \in Events
    BY <1>1
  <1>4. CASE /\ event.type = "converter"
             /\ Leave(own)
             /\ Destroy({event.id})
             /\ UNCHANGED sockets
    <2>1. \A j \in own : posted[j].type = "converter" /\ posted[j].id = event.id
      <3>1. PICK o \in Ids, level \in 0 .. 1 : event = DeleteConverter(o, level)
        BY <1>3, <1>4 DEF Events, DeleteSocket, FrameEvent
      <3>2. event.id = o
        BY <3>1 DEF DeleteConverter
      <3> QED
        BY <1>3, <3>1, <3>2, SameObject
    <2>2. Deleting(posted, DeleteConverter(event.id, 0))
      <3>1. Same(posted[i], DeleteConverter(event.id, 0))
        BY <1>3, <1>4, SameObject
      <3> QED
        BY <3>1 DEF Deleting
    <2> HIDE DEF event, own
    <2>3. Removes(own, {event.id}, {})
      BY <1>4, <2>1, <2>2 DEF Removes
    <2> QED
      BY <2>3
  <1>5. CASE /\ event.type = "socket"
             /\ Leave(own \cup theirs)
             /\ sockets' = sockets \ {event.client}
             /\ Destroy(Children(event.client))
    <2>1. \A j \in DOMAIN posted :
             j \in own <=> posted[j].type = "socket" /\ posted[j].client = event.client
      <3>1. PICK c \in Clients, level \in 0 .. 1 : event = DeleteSocket(c, level)
        BY <1>3, <1>5 DEF Events, DeleteConverter, FrameEvent
      <3>2. event.client = c
        BY <3>1 DEF DeleteSocket
      <3> QED
        BY <1>3, <3>1, <3>2, SameObject
    <2>2. event.client \notin m_clients
      BY <1>1, <1>5 DEF SocketsLeave
    <2>3. \A j \in DOMAIN posted :
             j \in theirs <=> /\ posted[j].type = "converter"
                             /\ posted[j].id \in Children(event.client)
      OBVIOUS
    <2>4. \A o \in DOMAIN objects :
             objects[o].client = event.client => o \in Children(event.client)
      BY DEF Children
    <2>5. event.client \in Clients /\ Deleting(posted, DeleteSocket(event.client, 0))
      <3>1. Same(posted[i], DeleteSocket(event.client, 0)) /\ event.client \in Clients
        BY <1>3, <1>5, SameObject, EventFields
      <3> QED
        BY <3>1 DEF Deleting
    <2> HIDE DEF event, own, theirs
    <2>6. Removes(own \cup theirs, Children(event.client), {event.client})
      BY <1>5, <2>1, <2>2, <2>3, <2>4, <2>5 DEF Removes
    <2> QED
      BY <2>6
  <1> QED
    BY <1>2, <1>4, <1>5

\* A destroyed socket was no client's, and its own deletions leave with it.
LEMMA ServeDeleteKeepsBase ==
    ASSUME Base, ServeDelete PROVE Base'
  <1>1. TypeOK /\ posted \in Seq(Events)
        /\ UNCHANGED <<m_clients, created, dispatching, losses, nesting, crashed>>
    BY DEF Base, TypeOK, ServeDelete
  <1>2. PICK gone, ids, lost : Removes(gone, ids, lost)
    BY ServeDeleteRemoves
  <1>3. /\ posted' \in Seq(Events)
        /\ \A k \in DOMAIN posted' : \E j \in DOMAIN posted \ gone :
              posted'[k] = posted[j]
    BY <1>1, <1>2, LeaveKeeps DEF Removes
  <1>4. /\ DOMAIN objects' = DOMAIN objects \ ids
        /\ \A o \in DOMAIN objects' : objects'[o] = objects[o]
        /\ DOMAIN converterList' \subseteq DOMAIN converterList
        /\ \A e \in DOMAIN converterList' : converterList'[e] = converterList[e]
    BY <1>2, DestroyRemoves DEF Removes
  <1>5. DOMAIN objects' \subseteq 1 .. created' /\ Range(objects') \subseteq Object
    BY <1>1, <1>4, EntryTypes DEF Range
  <1>6. DOMAIN converterList' \subseteq Euis /\ Range(converterList') \subseteq Ids
    BY <1>1, <1>4, EntryTypes DEF Range
  <1>7. m_clients' \subseteq sockets' /\ sockets' \subseteq Clients
    BY <1>1, <1>2 DEF TypeOK, Removes
  <1>8. TypeOK'
    BY <1>1, <1>3, <1>5, <1>6, <1>7 DEF TypeOK
  <1>9. SocketsLeave'
    BY <1>1, <1>2, <1>3 DEF Base, SocketsLeave, Removes
  <1> QED
    BY <1>8, <1>9 DEF Base

\* The connection to the Net868 server is lost, or opened again.
LEMMA ConnectionKeepsBase ==
    ASSUME Base, WebSocketClosed \/ Reconnect PROVE Base'
  BY ServerAssumption DEF Base, TypeOK, SocketsLeave, WebSocketClosed, Reconnect

\* The types and SocketsLeave are inductive together.
LEMMA BaseHolds == Spec => []Base
  <1>1. Init => Base
    <2> SUFFICES ASSUME Init PROVE Base
      OBVIOUS
    <2>1. DOMAIN converterList = {} /\ DOMAIN objects = {} /\ DOMAIN posted = {}
          /\ posted \in Seq(Events)
      BY DEF Init
    <2>2. dispatching \in [effect : Effects, to : Seq(Ids)]
      BY DEF Init, Nobody, Effects
    <2>3. Range(converterList) = {} /\ Range(objects) = {}
      BY <2>1 DEF Range
    <2>4. MaxConverters \in Nat /\ MaxLosses \in Nat
      BY ServerAssumption
    <2>5. /\ m_clients \subseteq sockets /\ sockets \subseteq Clients
          /\ created \in 0 .. MaxConverters /\ losses \in 0 .. MaxLosses
          /\ nesting \in 0 .. 1
      <3>1. m_clients = {} /\ sockets = {} /\ created = 0 /\ losses = 0
            /\ nesting = 0
        BY DEF Init
      <3> QED
        BY <2>4, <3>1
    <2>6. crashed \in BOOLEAN
      BY DEF Init
    <2> QED
      BY <2>1, <2>2, <2>3, <2>5, <2>6 DEF Base, TypeOK, SocketsLeave
  <1>2. Base /\ [Next]_vars => Base'
    <2> SUFFICES ASSUME Base, [Next]_vars PROVE Base'
      OBVIOUS
    <2>1. CASE UNCHANGED vars
      BY <2>1 DEF vars, Base, TypeOK, SocketsLeave
    <2>2. CASE Next
      BY <2>2, OnNewConnectionKeepsBase, SocketDisconnectedKeepsBase,
         ProcessTextMessageKeepsBase, PostFrameKeepsBase, ServeFrameKeepsBase,
         ServeDeleteKeepsBase, DeliverKeepsBase, TimersKeepBase, ConnectionKeepsBase
         DEF Next, Serve
    <2> QED
      BY <2>1, <2>2
  <1> QED
    BY <1>1, <1>2, PTL DEF Spec

\* The variables keep their types, whatever the number of applications, objects
\* and events: the socket of a connected application is never destroyed, and a
\* frame is only ever on its way to Converters.
THEOREM TypeCorrect == Spec => []TypeOK
  <1>1. Base => TypeOK
    BY DEF Base
  <1> QED
    BY <1>1, BaseHolds, PTL

-----------------------------------------------------------------------------
(* List and objects.                                                       *)

\* A slot that sets timers and takes entries out of the list.
LEMMA SlotKeepsPointers ==
    ASSUME NoDanglingPointer, NEW o, SameButTimers(o), UNCHANGED sockets,
           DOMAIN converterList' \subseteq DOMAIN converterList,
           \A e \in DOMAIN converterList' : converterList'[e] = converterList[e]
    PROVE  NoDanglingPointer'
  BY DEF NoDanglingPointer, SameButTimers

\* What a step of the main thread does to timers and list, and to the queue:
\* with the end of a session the object in the list, whichever it is, is on its
\* way to destruction.
EndsSession(o) ==
    /\ SameButTimers(o)
    /\ IdleDisconnectTimeout(objects[o].eui)

SetsTimers(o) ==
    /\ SameButTimers(o)
    /\ o \in DOMAIN objects /\ objects[o].idleTimer => objects'[o].idleTimer
    /\ UNCHANGED <<posted, converterList>>

\* The slots of a Converter that exists do one or the other.
LEMMA SlotsEndOrSet ==
    ASSUME TypeOK, Deliver \/ \E o \in DOMAIN objects : AnswerTumeout(o) \/ IdleTimeout(o)
    PROVE  /\ UNCHANGED sockets
           /\ \E o : EndsSession(o) \/ SetsTimers(o)
  <1>1. ASSUME Deliver PROVE \E o : EndsSession(o) \/ SetsTimers(o)
    <2> DEFINE o == Head(dispatching.to)
    <2>1. o \in DOMAIN objects => objects[o].idleTimer \in BOOLEAN
      BY EntryTypes DEF Object
    <2>2. ASSUME NEW idle \in {TRUE, objects[o].idleTimer},
                 objects' = [objects EXCEPT ![o].waitTimer = TRUE, ![o].idleTimer = idle],
                 UNCHANGED <<posted, converterList, crashed>>
          PROVE  SetsTimers(o)
      BY <2>1, <2>2, TimersSet DEF SetsTimers
    <2>3. CASE /\ objects' = [objects EXCEPT ![o].waitTimer = FALSE,
                                             ![o].idleTimer = objects[o].idleTimer]
               /\ UNCHANGED <<posted, converterList, crashed>>
      BY <2>1, <2>3, TimersSet DEF SetsTimers
    <2>4. CASE /\ objects' = [objects EXCEPT ![o].waitTimer = FALSE, ![o].idleTimer = FALSE]
               /\ IdleDisconnectTimeout(objects[o].eui)
      BY <2>4, TimersSet DEF EndsSession
    <2> QED
      BY <1>1, <2>2, <2>3, <2>4 DEF Deliver
  <1>2. ASSUME NEW o \in DOMAIN objects, AnswerTumeout(o) \/ IdleTimeout(o)
        PROVE  EndsSession(o) \/ SetsTimers(o)
    <2>1. CASE UNCHANGED <<objects, posted, converterList, crashed>>
      BY <2>1, EntryTypes DEF SetsTimers, SameButTimers
    <2>2. CASE /\ \/ objects' = [objects EXCEPT ![o].waitTimer = FALSE,
                                                ![o].idleTimer = FALSE]
                  \/ objects' = [objects EXCEPT ![o].idleTimer = FALSE]
               /\ IdleDisconnectTimeout(objects[o].eui)
      BY <2>2, TimersSet, IdleTimerStopped DEF EndsSession
    <2> QED
      BY <1>2, <2>1, <2>2 DEF AnswerTumeout, IdleTimeout
  <1> QED
    BY <1>1, <1>2 DEF Deliver, AnswerTumeout, IdleTimeout

\* A request lists a new object, and its parent is a socket that exists.
LEMMA ProcessTextMessageKeepsPointers ==
    ASSUME TypeOK, NoDanglingPointer,
           NEW c \in Clients, NEW eui \in Euis, NEW accepted \in BOOLEAN,
           ProcessTextMessage(c, eui, accepted)
    PROVE  NoDanglingPointer'
  <1>1. c \in sockets /\ UNCHANGED sockets /\ eui \notin DOMAIN converterList
    BY DEF ProcessTextMessage, TypeOK
  <1>2. /\ created + 1 \notin DOMAIN objects
        /\ DOMAIN objects' = DOMAIN objects \cup {created + 1}
        /\ \A o \in DOMAIN objects : objects'[o] = objects[o]
        /\ objects'[created + 1].eui = eui
        /\ objects'[created + 1].client = c
        /\ DOMAIN converterList' = DOMAIN converterList \cup {eui}
        /\ converterList'[eui] = created + 1
        /\ \A e \in DOMAIN converterList : converterList'[e] = converterList[e]
    BY ProcessTextMessageAdds
  <1> QED
    BY <1>1, <1>2 DEF NoDanglingPointer

\* What is destroyed leaves the list, and takes its children along.
LEMMA ServeDeleteKeepsPointers ==
    ASSUME Base, NoDanglingPointer, ServeDelete PROVE NoDanglingPointer'
  <1>1. PICK gone, ids, lost : Removes(gone, ids, lost)
    BY ServeDeleteRemoves
  <1>2. /\ DOMAIN objects' = DOMAIN objects \ ids
        /\ \A o \in DOMAIN objects' : objects'[o] = objects[o]
        /\ DOMAIN converterList' =
                  {e \in DOMAIN converterList : converterList[e] \notin ids}
        /\ \A e \in DOMAIN converterList' : converterList'[e] = converterList[e]
    BY <1>1, DestroyRemoves DEF Removes
  <1> QED
    BY <1>1, <1>2 DEF NoDanglingPointer, Removes

\* Whatever the order in which timers, answers and disconnects delete objects,
\* every pointer in the list is to a Converter that exists, the one for that
\* DevEUI, and every Converter's parent exists.
THEOREM PointersHold == Spec => []NoDanglingPointer
  <1>1. Init => NoDanglingPointer
    <2>1. Init => DOMAIN converterList = {} /\ DOMAIN objects = {}
      BY DEF Init
    <2> QED
      BY <2>1 DEF NoDanglingPointer
  <1>2. Base /\ NoDanglingPointer /\ [Next]_vars => NoDanglingPointer'
    <2> SUFFICES ASSUME Base, TypeOK, NoDanglingPointer, [Next]_vars
                 PROVE  NoDanglingPointer'
      BY DEF Base
    <2>1. CASE \/ UNCHANGED vars \/ ServeFrame \/ WebSocketClosed \/ Reconnect
               \/ \E c \in Clients : SocketDisconnected(c)
               \/ \E a \in Addresses, effect \in Effects : PostFrame(a, effect)
      <3>1. UNCHANGED <<sockets, converterList, objects>>
        BY <2>1 DEF vars, ServeFrame, WebSocketClosed, Reconnect, SocketDisconnected,
                    PostFrame
      <3> QED
        BY <3>1 DEF NoDanglingPointer
    <2>2. CASE \E c \in Clients : OnNewConnection(c)
      BY <2>2 DEF OnNewConnection, NoDanglingPointer
    <2>3. CASE \E c \in Clients, eui \in Euis, accepted \in BOOLEAN :
                  ProcessTextMessage(c, eui, accepted)
      BY <2>3, ProcessTextMessageKeepsPointers
    <2>4. CASE ServeDelete
      BY <2>4, ServeDeleteKeepsPointers
    <2>5. CASE Deliver \/ \E o \in DOMAIN objects : AnswerTumeout(o) \/ IdleTimeout(o)
      <3>1. PICK o : EndsSession(o) \/ SetsTimers(o)
        BY <2>5, SlotsEndOrSet
      <3>2. UNCHANGED sockets
        BY <2>5, SlotsEndOrSet
      <3>3. CASE EndsSession(o)
        BY <3>2, <3>3, IdleDisconnectTimeoutTakes, SlotKeepsPointers DEF EndsSession
      <3>4. CASE SetsTimers(o)
        BY <3>2, <3>4, SlotKeepsPointers DEF SetsTimers
      <3> QED
        BY <3>1, <3>3, <3>4
    <2> QED
      BY <2>1, <2>2, <2>3, <2>4, <2>5 DEF Next, Serve
  <1> QED
    BY <1>1, <1>2, BaseHolds, PTL DEF Spec

-----------------------------------------------------------------------------
(* Nothing is forgotten.                                                   *)

\* An object is doomed by what is posted: more events doom no fewer.
LEMMA ExtendsDooms ==
    ASSUME NEW more, Extends(posted', posted, more), NEW o, Doomed(o),
           objects'[o].client = objects[o].client
    PROVE  Doomed(o)'
  <1>1. Deleting(posted, DeleteConverter(o, 0)) => Deleting(posted', DeleteConverter(o, 0))
    BY ExtendsDeleting
  <1>2. Deleting(posted, DeleteSocket(objects[o].client, 0))
            => Deleting(posted', DeleteSocket(objects'[o].client, 0))
    BY ExtendsDeleting
  <1> QED
    BY <1>1, <1>2 DEF Doomed

\* A step that only posts.
LEMMA PostingKeepsAccounted ==
    ASSUME Accounted, NEW more, Extends(posted', posted, more),
           UNCHANGED <<objects, converterList>>
    PROVE  Accounted'
  BY ExtendsDooms DEF Accounted, Listed

\* The end of a session takes the object that stands under the DevEUI out of
\* the list, and that object is then doomed; every other entry stays.
LEMMA EndKeepsAccounted ==
    ASSUME Base, NoDanglingPointer, Accounted, NEW o, EndsSession(o)
    PROVE  Accounted'
  <1> DEFINE eui == objects[o].eui
  <1>1. /\ Extends(posted', posted, ConverterDeletions)
        /\ DOMAIN converterList' = DOMAIN converterList \ {eui}
        /\ \A e \in DOMAIN converterList' : converterList'[e] = converterList[e]
        /\ eui \in DOMAIN converterList =>
               Deleting(posted', DeleteConverter(converterList[eui], 0))
    BY IdleDisconnectTimeoutTakes DEF EndsSession, Base
  <1>2. DOMAIN objects' = DOMAIN objects
    BY DEF EndsSession, SameButTimers
  <1>3. SUFFICES ASSUME NEW p \in DOMAIN objects, ~Doomed(p)'
                 PROVE  (Listed(p) /\ objects[p].idleTimer)'
    BY <1>2 DEF Accounted
  <1>4. ~Doomed(p)
    BY <1>1, <1>3, ExtendsDooms DEF EndsSession, SameButTimers
  <1>5. Listed(p) /\ objects[p].idleTimer
    BY <1>4 DEF Accounted
  <1>6. PICK e \in DOMAIN converterList : converterList[e] = p
    BY <1>5 DEF Listed, Range
  <1>7. objects[p].eui = e
    BY <1>6 DEF NoDanglingPointer
  <1>8. e # eui
    <2>1. Deleting(posted', DeleteConverter(p, 0)) => Doomed(p)'
      BY DEF Doomed
    <2> QED
      BY <1>1, <1>3, <1>6, <2>1
  <1>9. Listed(p)'
    BY <1>1, <1>6, <1>8 DEF Listed, Range
  <1>10. p # o
    BY <1>7, <1>8
  <1> QED
    BY <1>5, <1>9, <1>10 DEF EndsSession, SameButTimers

\* A slot that ends no session stops no idle timer.
LEMMA SetKeepsAccounted ==
    ASSUME Base, Accounted, NEW o, SetsTimers(o) PROVE Accounted'
  <1>1. Extends(posted', posted, {})
    BY NothingPosted DEF Base, SetsTimers
  <1>2. SUFFICES ASSUME NEW p \in DOMAIN objects
                 PROVE  (Doomed(p) \/ (Listed(p) /\ objects[p].idleTimer))'
    BY DEF Accounted, SetsTimers, SameButTimers
  <1>3. CASE Doomed(p)
    BY <1>1, <1>3, ExtendsDooms DEF SetsTimers, SameButTimers
  <1>4. CASE Listed(p) /\ objects[p].idleTimer
    BY <1>4 DEF Listed, SetsTimers, SameButTimers
  <1> QED
    BY <1>3, <1>4 DEF Accounted

\* A new object is in the list, with its idle timer running.
LEMMA ProcessTextMessageKeepsAccounted ==
    ASSUME Base, Accounted,
           NEW c \in Clients, NEW eui \in Euis, NEW accepted \in BOOLEAN,
           ProcessTextMessage(c, eui, accepted)
    PROVE  Accounted'
  <1>1. TypeOK /\ UNCHANGED posted /\ eui \notin DOMAIN converterList
    BY DEF Base, ProcessTextMessage
  <1>2. /\ DOMAIN objects' = DOMAIN objects \cup {created + 1}
        /\ \A o \in DOMAIN objects : objects'[o] = objects[o]
        /\ objects'[created + 1].idleTimer
        /\ DOMAIN converterList' = DOMAIN converterList \cup {eui}
        /\ converterList'[eui] = created + 1
        /\ \A e \in DOMAIN converterList : converterList'[e] = converterList[e]
    BY <1>1, ProcessTextMessageAdds
  <1>3. SUFFICES ASSUME NEW p \in DOMAIN objects'
                 PROVE  (Doomed(p) \/ (Listed(p) /\ objects[p].idleTimer))'
    BY DEF Accounted
  <1>4. CASE p = created + 1
    BY <1>2, <1>4 DEF Listed, Range
  <1>5. CASE p \in DOMAIN objects
    <2>1. Extends(posted', posted, {})
      BY <1>1, NothingPosted
    <2>2. CASE Doomed(p)
      BY <1>2, <1>5, <2>1, <2>2, ExtendsDooms
    <2>3. CASE Listed(p) /\ objects[p].idleTimer
      BY <1>1, <1>2, <1>5, <2>3 DEF Listed, Range
    <2> QED
      BY <1>5, <2>2, <2>3 DEF Accounted
  <1> QED
    BY <1>2, <1>3, <1>4, <1>5

\* The deletions of an object stay in a queue that loses other events.
LEMMA LeaveDooms ==
    ASSUME posted \in Seq(Events), NEW gone, Leave(gone), NEW o, Doomed(o),
           objects'[o].client = objects[o].client,
           \A j \in DOMAIN posted \cap gone :
              ~Same(posted[j], DeleteConverter(o, 0))
              /\ ~Same(posted[j], DeleteSocket(objects[o].client, 0))
    PROVE  Doomed(o)'
  BY LeaveKeeps DEF Doomed, Deleting

\* A frame that leaves the queue saves no object.
LEMMA ServeFrameKeepsAccounted ==
    ASSUME Base, Accounted, ServeFrame PROVE Accounted'
  <1>1. posted \in Seq(Events) /\ UNCHANGED <<objects, converterList>>
    BY DEF Base, TypeOK, ServeFrame
  <1>2. PICK i \in DOMAIN posted : posted[i].type = "frame" /\ Leave({i})
    BY DEF ServeFrame
  <1>3. \A o : /\ ~Same(posted[i], DeleteConverter(o, 0))
               /\ ~Same(posted[i], DeleteSocket(objects[o].client, 0))
    BY <1>1, <1>2, SameObject
  <1>4. \A o : Doomed(o) => Doomed(o)'
    BY <1>1, <1>2, <1>3, LeaveDooms
  <1> QED
    BY <1>1, <1>4 DEF Accounted, Listed

\* What leaves the queue with a destroyed object dooms no other.
LEMMA RemovesDooms ==
    ASSUME posted \in Seq(Events), NEW gone, NEW ids, NEW lost, Removes(gone, ids, lost),
           NEW p \in DOMAIN objects, p \notin ids, Doomed(p),
           objects'[p].client = objects[p].client
    PROVE  Doomed(p)'
  <1>1. objects[p].client \notin lost /\ Leave(gone)
    BY DEF Removes
  <1>2. ASSUME NEW j \in DOMAIN posted, j \in gone
        PROVE  /\ ~Same(posted[j], DeleteConverter(p, 0))
               /\ ~Same(posted[j], DeleteSocket(objects[p].client, 0))
    <2>1. \/ posted[j].type = "converter" /\ posted[j].id # p
          \/ posted[j].type = "socket" /\ posted[j].client # objects[p].client
      BY <1>1, <1>2 DEF Removes
    <2>2. posted[j] \in Events
      OBVIOUS
    <2> QED
      BY <2>1, <2>2, SameObject
  <1> QED
    BY <1>1, <1>2, LeaveDooms

\* What is destroyed leaves the list, and every other object stays as it is.
LEMMA ServeDeleteKeepsAccounted ==
    ASSUME Base, Accounted, ServeDelete PROVE Accounted'
  <1>1. posted \in Seq(Events)
    BY DEF Base, TypeOK
  <1>2. PICK gone, ids, lost : Removes(gone, ids, lost)
    BY ServeDeleteRemoves
  <1>3. /\ DOMAIN objects' = DOMAIN objects \ ids
        /\ \A o \in DOMAIN objects' : objects'[o] = objects[o]
        /\ DOMAIN converterList' =
                  {e \in DOMAIN converterList : converterList[e] \notin ids}
        /\ \A e \in DOMAIN converterList' : converterList'[e] = converterList[e]
    BY <1>2, DestroyRemoves DEF Removes
  <1>4. SUFFICES ASSUME NEW p \in DOMAIN objects, p \notin ids
                 PROVE  (Doomed(p) \/ (Listed(p) /\ objects[p].idleTimer))'
    BY <1>3 DEF Accounted
  <1>5. CASE Doomed(p)
    BY <1>1, <1>2, <1>3, <1>4, <1>5, RemovesDooms
  <1>6. CASE Listed(p) /\ objects[p].idleTimer
    BY <1>3, <1>4, <1>6 DEF Listed, Range
  <1> QED
    BY <1>5, <1>6 DEF Accounted

\* No Converter is left behind: each is in the list with an idle timer that will
\* end its session, or on its way to destruction.
THEOREM NothingForgotten == Spec => []Accounted
  <1>1. Init => Accounted
    <2>1. Init => DOMAIN objects = {}
      BY DEF Init
    <2> QED
      BY <2>1 DEF Accounted
  <1>2. Base /\ NoDanglingPointer /\ Accounted /\ [Next]_vars => Accounted'
    <2> SUFFICES ASSUME Base, TypeOK, NoDanglingPointer, Accounted, [Next]_vars
                 PROVE  Accounted'
      BY DEF Base
    <2>1. CASE \/ UNCHANGED vars \/ WebSocketClosed \/ Reconnect
               \/ \E c \in Clients : OnNewConnection(c)
      <3>1. UNCHANGED <<converterList, objects, posted>>
        BY <2>1 DEF vars, WebSocketClosed, Reconnect, OnNewConnection
      <3> QED
        BY <3>1, NothingPosted, PostingKeepsAccounted
    <2>2. CASE \E c \in Clients : SocketDisconnected(c)
      <3>1. UNCHANGED <<converterList, objects>>
        BY <2>2 DEF SocketDisconnected
      <3> QED
        BY <2>2, <3>1, SocketDisconnectedPosts, PostingKeepsAccounted
    <2>3. CASE \E a \in Addresses, effect \in Effects : PostFrame(a, effect)
      <3>1. PICK a \in Addresses, effect \in Effects : PostFrame(a, effect)
        BY <2>3
      <3>2. UNCHANGED <<converterList, objects>> /\ posted \in Seq(Events)
            /\ posted' = Append(posted, FrameEvent(a, effect))
        BY <3>1 DEF PostFrame, TypeOK
      <3>3. Extends(posted', posted, {FrameEvent(a, effect)})
        BY <3>2, AppendExtends, DeletionTypes
      <3> QED
        BY <3>2, <3>3, PostingKeepsAccounted
    <2>4. CASE \E c \in Clients, eui \in Euis, accepted \in BOOLEAN :
                  ProcessTextMessage(c, eui, accepted)
      BY <2>4, ProcessTextMessageKeepsAccounted
    <2>5. CASE ServeFrame \/ ServeDelete
      BY <2>5, ServeFrameKeepsAccounted, ServeDeleteKeepsAccounted
    <2>6. CASE Deliver \/ \E o \in DOMAIN objects : AnswerTumeout(o) \/ IdleTimeout(o)
      BY <2>6, SlotsEndOrSet, EndKeepsAccounted, SetKeepsAccounted
    <2> QED
      BY <2>1, <2>2, <2>3, <2>4, <2>5, <2>6 DEF Next, Serve
  <1> QED
    BY <1>1, <1>2, BaseHolds, PointersHold, PTL DEF Spec

-----------------------------------------------------------------------------
(* One session at a time for a device.                                     *)

\* The Converters whose deletion is posted have been created.
KnownDeletions ==
    \A i \in DOMAIN posted : posted[i].type = "converter" => posted[i].id <= created

\* A queue that gets no events but those of a set.
Gets(new, queue, more) ==
    \A j \in DOMAIN new :
        new[j] \in more \/ \E i \in DOMAIN queue : new[j] = queue[i]

\* Deletions of Converters that have been created.
Known(more) == \A e \in more : e.type = "converter" => e.id \in 1 .. created

\* A step that posts deletions of objects that exist, at most.
LEMMA PostingKeepsKnown ==
    ASSUME KnownDeletions, NEW more, Gets(posted', posted, more), Known(more),
           created \in Nat, created' \in Nat, created <= created',
           posted' \in Seq(Events)
    PROVE  KnownDeletions'
  <1>1. SUFFICES ASSUME NEW j \in DOMAIN posted', posted'[j].type = "converter"
                 PROVE  posted'[j].id <= created'
    BY DEF KnownDeletions
  <1>2. CASE posted'[j] \in more
    <2>1. posted'[j].id \in 1 .. created
      BY <1>1, <1>2 DEF Known
    <2> QED
      BY <2>1
  <1>3. CASE \E i \in DOMAIN posted : posted'[j] = posted[i]
    <2>1. posted'[j].id <= created
      BY <1>1, <1>3 DEF KnownDeletions
    <2>2. posted'[j] \in Events
      BY <1>1
    <2>3. posted'[j].id \in Nat
      BY <1>1, <2>2, EventFields, ServerAssumption DEF Ids
    <2> QED
      BY <2>1, <2>3
  <1> QED
    BY <1>2, <1>3 DEF Gets

\* What the end of a session posts is the deletion of an object that exists.
LEMMA EndPostsKnown ==
    ASSUME Base, NoDanglingPointer, NEW eui, IdleDisconnectTimeout(eui)
    PROVE  \E more : Extends(posted', posted, more) /\ Known(more)
  <1>1. TypeOK
    BY DEF Base
  <1>2. CASE eui \in DOMAIN converterList
    <2>1. converterList[eui] \in 1 .. created
      BY <1>1, <1>2, EntryTypes DEF NoDanglingPointer
    <2>2. Extends(posted', posted, DeletionsOf({converterList[eui]}))
      BY <1>1, <1>2, IdleDisconnectTimeoutTakes
    <2>3. Known(DeletionsOf({converterList[eui]}))
      BY <2>1 DEF Known, DeletionsOf, DeleteConverter
    <2> QED
      BY <2>2, <2>3
  <1>3. CASE eui \notin DOMAIN converterList
    <2>1. Extends(posted', posted, {}) /\ Known({})
      BY <1>1, <1>3, IdleDisconnectTimeoutTakes, NothingPosted DEF Known
    <2> QED
      BY <2>1
  <1> QED
    BY <1>2, <1>3

\* A Converter's deletion is posted after its birth.
LEMMA KnownHolds == Spec => []KnownDeletions
  <1>1. Init => KnownDeletions
    <2>1. Init => DOMAIN posted = {}
      BY DEF Init
    <2> QED
      BY <2>1 DEF KnownDeletions
  <1>2. Base /\ Base' /\ NoDanglingPointer /\ KnownDeletions /\ [Next]_vars
            => KnownDeletions'
    <2> SUFFICES ASSUME Base, Base', NoDanglingPointer, KnownDeletions, [Next]_vars
                 PROVE  KnownDeletions'
      OBVIOUS
    <2>1. TypeOK /\ posted \in Seq(Events) /\ posted' \in Seq(Events)
          /\ created \in Nat /\ created' \in Nat
      BY ServerAssumption DEF Base, TypeOK
    <2>2. CASE UNCHANGED <<posted, created>>
      BY <2>2 DEF KnownDeletions
    <2>3. CASE \E c \in Clients, eui \in Euis, accepted \in BOOLEAN :
                  ProcessTextMessage(c, eui, accepted)
      <3>1. UNCHANGED posted /\ created <= created'
        BY <2>1, <2>3 DEF ProcessTextMessage
      <3>2. Gets(posted', posted, {}) /\ Known({})
        BY <3>1 DEF Gets, Known
      <3> QED
        BY <2>1, <3>1, <3>2, PostingKeepsKnown
    <2>4. CASE \E c \in Clients : SocketDisconnected(c)
      <3>1. PICK c \in Clients : SocketDisconnected(c)
        BY <2>4
      <3>2. UNCHANGED created
        BY <3>1 DEF SocketDisconnected
      <3> DEFINE more == {DeleteSocket(c, nesting)} \cup DeletionsOf(Children(c))
      <3>3. Extends(posted', posted, more)
        BY <2>1, <3>1, SocketDisconnectedPosts
      <3>4. Known(more)
        <4>1. \A o \in Children(c) : o \in 1 .. created
          BY <2>1, EntryTypes DEF Children
        <4> QED
          BY <4>1 DEF Known, DeletionsOf, DeleteConverter, DeleteSocket
      <3> HIDE DEF more
      <3>5. Gets(posted', posted, more)
        BY <3>3 DEF Extends, Gets
      <3>6. created <= created'
        BY <2>1, <3>2
      <3> QED
        BY <2>1, <3>4, <3>5, <3>6, PostingKeepsKnown
    <2>5. CASE \E a \in Addresses, effect \in Effects : PostFrame(a, effect)
      <3>1. PICK a \in Addresses, effect \in Effects : PostFrame(a, effect)
        BY <2>5
      <3>2. UNCHANGED created /\ posted' = Append(posted, FrameEvent(a, effect))
        BY <3>1 DEF PostFrame
      <3>3. Extends(posted', posted, {FrameEvent(a, effect)})
        BY <2>1, <3>2, AppendExtends, DeletionTypes
      <3>4. Known({FrameEvent(a, effect)})
        BY DEF Known, FrameEvent
      <3>5. Gets(posted', posted, {FrameEvent(a, effect)}) /\ created <= created'
        BY <2>1, <3>2, <3>3 DEF Extends, Gets
      <3> QED
        BY <2>1, <3>4, <3>5, PostingKeepsKnown
    <2>6. CASE ServeFrame \/ ServeDelete
      <3>1. UNCHANGED created
        BY <2>6 DEF ServeFrame, ServeDelete
      <3>2. PICK gone : Leave(gone)
        <4>1. CASE ServeFrame
          BY <4>1 DEF ServeFrame
        <4>2. CASE ServeDelete
          BY <4>2, ServeDeleteRemoves DEF Removes
        <4> QED
          BY <2>6, <4>1, <4>2
      <3>3. Gets(posted', posted, {}) /\ Known({}) /\ created <= created'
        BY <2>1, <3>1, <3>2, LeaveKeeps DEF Gets, Known
      <3> QED
        BY <2>1, <3>3, PostingKeepsKnown
    <2>7. CASE Deliver \/ \E o \in DOMAIN objects : AnswerTumeout(o) \/ IdleTimeout(o)
      <3>1. PICK o : EndsSession(o) \/ SetsTimers(o)
        BY <2>1, <2>7, SlotsEndOrSet
      <3>2. UNCHANGED created
        BY <2>7 DEF Deliver, AnswerTumeout, IdleTimeout
      <3>3. CASE EndsSession(o)
        <4>1. PICK more : Extends(posted', posted, more) /\ Known(more)
          BY <3>3, EndPostsKnown DEF EndsSession
        <4>2. Gets(posted', posted, more) /\ created <= created'
          BY <2>1, <3>2, <4>1 DEF Extends, Gets
        <4> QED
          BY <2>1, <4>1, <4>2, PostingKeepsKnown
      <3>4. CASE SetsTimers(o)
        BY <3>2, <3>4 DEF SetsTimers, KnownDeletions
      <3> QED
        BY <3>1, <3>3, <3>4
    <2>8. CASE \/ UNCHANGED vars \/ WebSocketClosed \/ Reconnect
               \/ \E c \in Clients : OnNewConnection(c)
      <3>1. UNCHANGED <<posted, created>>
        BY <2>8 DEF vars, WebSocketClosed, Reconnect, OnNewConnection
      <3> QED
        BY <2>2, <3>1
    <2> QED
      BY <2>3, <2>4, <2>5, <2>6, <2>7, <2>8 DEF Next, Serve
  <1> QED
    BY <1>1, <1>2, BaseHolds, PointersHold, PTL DEF Spec

\* The level at which a socket's deletion was posted does not matter either.
LEMMA AnySocketLevel ==
    ASSUME NEW queue \in Seq(Events), NEW c, NEW level, NEW other
    PROVE  Deleting(queue, DeleteSocket(c, level))
               <=> Deleting(queue, DeleteSocket(c, other))
  <1>1. \A i \in DOMAIN queue : queue[i] \in Events
    OBVIOUS
  <1>2. \A i \in DOMAIN queue : Same(queue[i], DeleteSocket(c, level))
                                  <=> Same(queue[i], DeleteSocket(c, other))
    BY <1>1, SameObject
  <1> QED
    BY <1>2 DEF Deleting

\* Who was doomed before a step that posts nothing about it.
LEMMA DoomedBefore ==
    ASSUME NEW more, posted' \in Seq(Events), Gets(posted', posted, more),
           NEW o, Doomed(o)', objects'[o].client = objects[o].client,
           \A e \in more : /\ e.type = "converter" => e.id # o
                           /\ e.type = "socket" => e.client # objects[o].client
    PROVE  Doomed(o)
  <1>1. PICK j \in DOMAIN posted' :
            \/ Same(posted'[j], DeleteConverter(o, 0))
            \/ Same(posted'[j], DeleteSocket(objects[o].client, 0))
    BY DEF Doomed, Deleting
  <1>2. posted'[j] \in Events
    BY <1>1
  <1>3. posted'[j] \notin more
    BY <1>1, <1>2, SameObject
  <1>4. PICK i \in DOMAIN posted : posted'[j] = posted[i]
    BY <1>3 DEF Gets
  <1> QED
    BY <1>1, <1>4 DEF Doomed, Deleting

\* Sessions are told apart by their Converters.
LEMMA SessionFields ==
    \A o : /\ SessionOf(o).id = o
           /\ SessionOf(o).client = objects[o].client
           /\ SessionOf(o).eui = objects[o].eui
  BY DEF SessionOf

\* A step of the abstract specification, or none.
LifeStep == Life!Next \/ UNCHANGED <<Serving, Ending, 1 .. created>>

\* The objects are those there were, and serve whom they did.
SameSessions ==
    /\ DOMAIN objects' = DOMAIN objects
    /\ \A p \in DOMAIN objects : /\ objects'[p].eui = objects[p].eui
                                 /\ objects'[p].client = objects[p].client

\* A step after which some objects more are doomed ends their sessions.
LEMMA SessionsEnd ==
    ASSUME SameSessions, UNCHANGED created,
           NEW dying, \A p \in dying : p \in DOMAIN objects /\ ~Doomed(p),
           \A p \in DOMAIN objects : Doomed(p)' <=> Doomed(p) \/ p \in dying
    PROVE  Life!End({SessionOf(p) : p \in dying})
  <1>1. \A p \in DOMAIN objects : SessionOf(p)' = SessionOf(p)
    BY DEF SessionOf, SameSessions
  <1>2. DOMAIN objects' = DOMAIN objects
    BY DEF SameSessions
  <1>3. Serving' = Serving \ {SessionOf(p) : p \in dying}
    <2>1. \A s : s \in Serving' <=> \E p \in DOMAIN objects :
                    ~Doomed(p) /\ p \notin dying /\ s = SessionOf(p)
      BY <1>1, <1>2 DEF Serving
    <2>2. \A s : s \in Serving \ {SessionOf(p) : p \in dying} <=>
                    \E p \in DOMAIN objects :
                        ~Doomed(p) /\ p \notin dying /\ s = SessionOf(p)
      BY SessionFields DEF Serving
    <2> QED
      BY <2>1, <2>2
  <1>4. Ending' = Ending \cup {SessionOf(p) : p \in dying}
    <2>1. \A s : s \in Ending' <=> \E p \in DOMAIN objects :
                    (Doomed(p) \/ p \in dying) /\ s = SessionOf(p)
      BY <1>1, <1>2 DEF Ending
    <2>2. \A s : s \in Ending \cup {SessionOf(p) : p \in dying} <=>
                    \E p \in DOMAIN objects :
                        (Doomed(p) \/ p \in dying) /\ s = SessionOf(p)
      BY DEF Ending
    <2> QED
      BY <2>1, <2>2
  <1> QED
    BY <1>3, <1>4 DEF Life!End

\* A step that dooms nobody is none.
LEMMA NobodyEnds ==
    ASSUME SameSessions, UNCHANGED created,
           \A p \in DOMAIN objects : Doomed(p)' <=> Doomed(p)
    PROVE  LifeStep
  <1>1. Life!End({SessionOf(p) : p \in {}})
    BY SessionsEnd
  <1>2. {SessionOf(p) : p \in {}} = {}
    OBVIOUS
  <1> QED
    BY <1>1, <1>2 DEF LifeStep, Life!End

\* A step that posts only what dooms nobody, and sets timers.
LEMMA HarmlessStep ==
    ASSUME SameSessions, UNCHANGED created,
           NEW more, Extends(posted', posted, more),
           \A e \in more : e.type = "frame"
    PROVE  LifeStep
  <1>1. Gets(posted', posted, more) /\ posted' \in Seq(Events)
    BY DEF Extends, Gets
  <1>2. ASSUME NEW p \in DOMAIN objects PROVE Doomed(p)' <=> Doomed(p)
    <2>1. objects'[p].client = objects[p].client
      BY DEF SameSessions
    <2>2. Doomed(p) => Doomed(p)'
      BY <2>1, ExtendsDooms
    <2>3. \A e \in more : /\ e.type = "converter" => e.id # p
                          /\ e.type = "socket" => e.client # objects[p].client
      OBVIOUS
    <2>4. Doomed(p)' => Doomed(p)
      BY <1>1, <2>1, <2>3, DoomedBefore
    <2> QED
      BY <2>2, <2>4
  <1> QED
    BY <1>2, NobodyEnds

\* The end of a session is that of the Converter in the list, or of none when
\* it had ended already.
LEMMA EndIsFinish ==
    ASSUME Base, NoDanglingPointer, NEW o, EndsSession(o), UNCHANGED created
    PROVE  LifeStep
  <1> DEFINE eui == objects[o].eui
  <1>1. TypeOK /\ SameSessions
    BY DEF Base, EndsSession, SameButTimers, SameSessions
  <1>2. CASE eui \notin DOMAIN converterList
    <2>1. UNCHANGED posted
      BY <1>1, <1>2, IdleDisconnectTimeoutTakes DEF EndsSession
    <2>2. Extends(posted', posted, {})
      BY <1>1, <2>1, NothingPosted
    <2> QED
      BY <1>1, <2>2, HarmlessStep
  <1>3. CASE eui \in DOMAIN converterList
    <2> PICK q : q = converterList[eui]
      OBVIOUS
    <2>1. /\ Deleting(posted', DeleteConverter(q, 0))
          /\ Extends(posted', posted, DeletionsOf({q}))
      BY <1>1, <1>3, IdleDisconnectTimeoutTakes DEF EndsSession
    <2>2. q \in DOMAIN objects
      BY <1>3 DEF NoDanglingPointer
    <2>3. Gets(posted', posted, DeletionsOf({q})) /\ posted' \in Seq(Events)
      BY <2>1 DEF Extends, Gets
    <2>4. Doomed(q)'
      BY <2>1 DEF Doomed
    <2>5. ASSUME NEW p \in DOMAIN objects PROVE Doomed(p)' <=> Doomed(p) \/ p = q
      <3>1. objects'[p].client = objects[p].client
        BY <1>1 DEF SameSessions
      <3>2. Doomed(p) => Doomed(p)'
        BY <2>1, <3>1, ExtendsDooms
      <3>3. ASSUME p # q PROVE Doomed(p)' => Doomed(p)
        <4>1. \A e \in DeletionsOf({q}) : /\ e.type = "converter" => e.id # p
                                          /\ e.type = "socket" => e.client # objects[p].client
          BY <3>3 DEF DeletionsOf, DeleteConverter
        <4> QED
          BY <2>3, <3>1, <4>1, DoomedBefore
      <3> QED
        BY <2>4, <3>2, <3>3
    <2>6. CASE Doomed(q)
      BY <1>1, <2>5, <2>6, NobodyEnds
    <2>7. CASE ~Doomed(q)
      <3>1. /\ \A p \in {q} : p \in DOMAIN objects /\ ~Doomed(p)
            /\ \A p \in DOMAIN objects : Doomed(p)' <=> Doomed(p) \/ p \in {q}
        BY <2>2, <2>5, <2>7
      <3>2. Life!End({SessionOf(p) : p \in {q}})
        BY <1>1, <3>1, SessionsEnd
      <3>3. {SessionOf(p) : p \in {q}} = {SessionOf(q)} /\ SessionOf(q) \in Serving
        BY <2>2, <2>7 DEF Serving
      <3> QED
        BY <3>2, <3>3 DEF LifeStep, Life!Next, Life!Finish
    <2> QED
      BY <2>6, <2>7
  <1> QED
    BY <1>2, <1>3

\* An application that leaves takes its sessions along, and no other.
LEMMA SocketDisconnectedIsClientLeaves ==
    ASSUME Base, NEW c \in Clients, SocketDisconnected(c) PROVE LifeStep
  <1> DEFINE more == {DeleteSocket(c, nesting)} \cup DeletionsOf(Children(c))
             dying == {p \in Children(c) : ~Doomed(p)}
  <1>1. TypeOK /\ SameSessions /\ UNCHANGED <<objects, created>>
    BY DEF Base, SocketDisconnected, SameSessions
  <1>2. Extends(posted', posted, more) /\ Deleting(posted', DeleteSocket(c, nesting))
    BY <1>1, SocketDisconnectedPosts
  <1>3. Gets(posted', posted, more) /\ posted' \in Seq(Events)
    BY <1>2 DEF Extends, Gets
  <1>4. Deleting(posted', DeleteSocket(c, 0))
    BY <1>2, <1>3, AnySocketLevel
  <1>5. ASSUME NEW p \in DOMAIN objects
        PROVE  Doomed(p)' <=> Doomed(p) \/ p \in Children(c)
    <2>1. Doomed(p) => Doomed(p)'
      BY <1>1, <1>2, ExtendsDooms
    <2>2. CASE p \in Children(c)
      <3>1. objects'[p].client = c
        BY <1>1, <2>2 DEF Children
      <3>2. Doomed(p)'
        BY <1>4, <3>1 DEF Doomed
      <3> QED
        BY <2>2, <3>2
    <2>3. CASE p \notin Children(c)
      <3>1. \A e \in more : /\ e.type = "converter" => e.id # p
                            /\ e.type = "socket" => e.client # objects[p].client
        <4>1. objects[p].client # c
          BY <2>3 DEF Children
        <4> QED
          BY <2>3, <4>1 DEF DeletionsOf, DeleteConverter, DeleteSocket
      <3> HIDE DEF more
      <3>2. Doomed(p)' => Doomed(p)
        BY <1>1, <1>3, <3>1, DoomedBefore
      <3> QED
        BY <2>1, <2>3, <3>2
    <2> QED
      BY <2>2, <2>3
  <1>6. \A p \in DOMAIN objects : Doomed(p)' <=> Doomed(p) \/ p \in dying
    BY <1>5
  <1>7. \A p \in dying : p \in DOMAIN objects /\ ~Doomed(p)
    BY DEF Children
  <1>8. {SessionOf(p) : p \in dying} = Life!Of(c, Serving)
    <2>1. \A s : s \in Serving <=> \E p \in DOMAIN objects : ~Doomed(p) /\ s = SessionOf(p)
      BY DEF Serving
    <2>2. \A p \in DOMAIN objects : p \in Children(c) <=> SessionOf(p).client = c
      BY SessionFields DEF Children
    <2>3. \A s : s \in Life!Of(c, Serving) <=> s \in Serving /\ s.client = c
      BY DEF Life!Of
    <2> QED
      BY <1>7, <2>1, <2>2, <2>3
  <1> HIDE DEF dying
  <1>9. Life!End({SessionOf(p) : p \in dying})
    BY <1>1, <1>6, <1>7, SessionsEnd
  <1> QED
    BY <1>8, <1>9 DEF LifeStep, Life!Next, Life!ClientLeaves

\* A new session is for a device that no Converter serves: one that is not
\* doomed would be in the list, under its device.
LEMMA ProcessTextMessageIsBegin ==
    ASSUME Base, NoDanglingPointer, Accounted, KnownDeletions,
           NEW c \in Clients, NEW eui \in Euis, NEW accepted \in BOOLEAN,
           ProcessTextMessage(c, eui, accepted)
    PROVE  LifeStep
  <1>1. TypeOK /\ UNCHANGED posted /\ eui \notin DOMAIN converterList
        /\ c \in m_clients /\ posted \in Seq(Events) /\ created \in Nat
    BY ServerAssumption DEF Base, TypeOK, ProcessTextMessage
  <1>2. /\ created + 1 \in Ids /\ created + 1 \notin DOMAIN objects
        /\ created' = created + 1
        /\ DOMAIN objects' = DOMAIN objects \cup {created + 1}
        /\ \A o \in DOMAIN objects : objects'[o] = objects[o]
        /\ objects'[created + 1].eui = eui
        /\ objects'[created + 1].client = c
    BY <1>1, ProcessTextMessageAdds
  <1> PICK new : new = created + 1
    OBVIOUS
  <1> PICK s : s = [id |-> new, client |-> c, eui |-> eui]
    OBVIOUS
  <1>3. SessionOf(new)' = s /\ \A p \in DOMAIN objects : SessionOf(p)' = SessionOf(p)
    BY <1>2 DEF SessionOf
  <1>4. \A p \in DOMAIN objects : Doomed(p)' <=> Doomed(p)
    BY <1>1, <1>2 DEF Doomed
  <1>5. ~Doomed(new)'
    <2>1. ~Deleting(posted, DeleteConverter(new, 0))
      <3>1. SUFFICES ASSUME NEW i \in DOMAIN posted, Same(posted[i], DeleteConverter(new, 0))
                     PROVE  FALSE
        BY DEF Deleting
      <3>2. posted[i].type = "converter" /\ posted[i].id = new
        BY <1>1, <3>1, SameObject
      <3>3. new <= created
        BY <3>2 DEF KnownDeletions
      <3> QED
        BY <1>1, <3>3
    <2>2. ~Deleting(posted, DeleteSocket(c, 0))
      <3>1. SUFFICES ASSUME NEW i \in DOMAIN posted, Same(posted[i], DeleteSocket(c, 0))
                     PROVE  FALSE
        BY DEF Deleting
      <3>2. posted[i].type = "socket" /\ posted[i].client = c
        BY <1>1, <3>1, SameObject
      <3> QED
        BY <1>1, <3>2 DEF Base, SocketsLeave
    <2> QED
      BY <1>1, <1>2, <2>1, <2>2 DEF Doomed
  <1>6. Serving' = Serving \cup {s}
    <2>1. \A t : t \in Serving' <=> \E p \in DOMAIN objects \cup {new} :
                    ~Doomed(p)' /\ t = SessionOf(p)'
      BY <1>2 DEF Serving
    <2>2. \A t : t \in Serving <=> \E p \in DOMAIN objects : ~Doomed(p) /\ t = SessionOf(p)
      BY DEF Serving
    <2> QED
      BY <1>3, <1>4, <1>5, <2>1, <2>2
  <1>7. Ending' = Ending
    <2>1. \A t : t \in Ending' <=> \E p \in DOMAIN objects \cup {new} :
                    Doomed(p)' /\ t = SessionOf(p)'
      BY <1>2 DEF Ending
    <2>2. \A t : t \in Ending <=> \E p \in DOMAIN objects : Doomed(p) /\ t = SessionOf(p)
      BY DEF Ending
    <2>3. \A p : p \in DOMAIN objects \cup {new} /\ Doomed(p)'
                   <=> p \in DOMAIN objects /\ Doomed(p)
      BY <1>4, <1>5, Zenon
    <2>4. \A t : t \in Ending' <=> t \in Ending
      <3>1. ASSUME NEW t, t \in Ending' PROVE t \in Ending
        BY <1>3, <2>1, <2>2, <2>3, <3>1
      <3>2. ASSUME NEW t, t \in Ending PROVE t \in Ending'
        BY <1>3, <2>1, <2>2, <2>3, <3>2
      <3> QED
        BY <3>1, <3>2
    <2> QED
      BY <2>4
  <1>8. (1 .. created)' = (1 .. created) \cup {s.id} /\ s.id \notin 1 .. created
    BY <1>1, <1>2
  <1>9. ASSUME NEW t \in Serving PROVE t.eui # s.eui
    <2>1. PICK p \in DOMAIN objects : ~Doomed(p) /\ t = SessionOf(p)
      BY DEF Serving
    <2>2. Listed(p)
      BY <2>1 DEF Accounted
    <2>3. PICK e \in DOMAIN converterList : converterList[e] = p
      BY <2>2 DEF Listed, Range
    <2>4. objects[p].eui = e
      BY <2>3 DEF NoDanglingPointer
    <2> QED
      BY <1>1, <2>1, <2>4, SessionFields
  <1>10. s \in Life!Session
    BY <1>2 DEF Life!Session
  <1> QED
    BY <1>6, <1>7, <1>8, <1>9, <1>10 DEF LifeStep, Life!Next, Life!Begin

\* What is destroyed had ended: a Converter, or all those of an application.
LEMMA ServeDeleteIsRelease ==
    ASSUME Base, ServeDelete PROVE LifeStep
  <1>1. posted \in Seq(Events) /\ UNCHANGED created
    BY DEF Base, TypeOK, ServeDelete
  <1>2. PICK gone, ids, lost : Removes(gone, ids, lost)
    BY ServeDeleteRemoves
  <1>3. /\ DOMAIN objects' = DOMAIN objects \ ids
        /\ \A o \in DOMAIN objects' : objects'[o] = objects[o]
    BY <1>2, DestroyRemoves DEF Removes
  <1>4. ASSUME NEW p \in DOMAIN objects, p \notin ids PROVE Doomed(p)' <=> Doomed(p)
    <2>1. objects[p].client \notin lost /\ Leave(gone)
          /\ objects'[p].client = objects[p].client
      BY <1>2, <1>3, <1>4 DEF Removes
    <2>2. Doomed(p) => Doomed(p)'
      BY <1>1, <1>2, <1>4, <2>1, RemovesDooms
    <2>3. Gets(posted', posted, {}) /\ posted' \in Seq(Events)
      BY <1>1, <2>1, LeaveKeeps DEF Gets
    <2>4. Doomed(p)' => Doomed(p)
      BY <2>1, <2>3, DoomedBefore
    <2> QED
      BY <2>2, <2>4
  <1>5. \A p \in DOMAIN objects \ ids : SessionOf(p)' = SessionOf(p)
    BY <1>3 DEF SessionOf
  <1>6. \A p \in DOMAIN objects \cap ids : Doomed(p)
    BY <1>2 DEF Removes, Doomed, Children
  <1>7. \A s : s \in Serving <=> \E p \in DOMAIN objects : ~Doomed(p) /\ s = SessionOf(p)
    BY DEF Serving
  <1>8. \A s : s \in Ending <=> \E p \in DOMAIN objects : Doomed(p) /\ s = SessionOf(p)
    BY DEF Ending
  <1>9. Serving' = Serving
    <2>1. \A s : s \in Serving' <=> \E p \in DOMAIN objects \ ids :
                    ~Doomed(p)' /\ s = SessionOf(p)'
      BY <1>3 DEF Serving
    <2> QED
      BY <1>4, <1>5, <1>6, <1>7, <2>1
  <1>10. Ending' = Ending \ {SessionOf(p) : p \in ids}
    <2>1. \A s : s \in Ending' <=> \E p \in DOMAIN objects \ ids :
                    Doomed(p)' /\ s = SessionOf(p)'
      BY <1>3 DEF Ending
    <2>2. \A p \in DOMAIN objects : \A q : SessionOf(p) = SessionOf(q) => p = q
      BY SessionFields
    <2> QED
      BY <1>4, <1>5, <1>8, <2>1, <2>2
  <1>11. ASSUME NEW o, ids = {o} PROVE LifeStep
    <2>1. Ending' = Ending \ {SessionOf(o)}
      BY <1>10, <1>11
    <2>2. CASE SessionOf(o) \in Ending
      BY <1>1, <1>9, <2>1, <2>2 DEF LifeStep, Life!Next, Life!Release
    <2>3. CASE SessionOf(o) \notin Ending
      BY <1>1, <1>9, <2>1, <2>3 DEF LifeStep
    <2> QED
      BY <2>2, <2>3
  <1>12. ASSUME NEW c \in Clients, ids = Children(c) PROVE LifeStep
    <2>1. \A p \in DOMAIN objects : p \in ids <=> SessionOf(p).client = c
      BY <1>12, SessionFields DEF Children
    <2>2. \A p \in ids : p \in DOMAIN objects
      BY <1>12 DEF Children
    <2>3. Life!Of(c, Serving) = {}
      BY <1>6, <1>7, <2>1 DEF Life!Of
    <2>4. Ending' = Ending \ Life!Of(c, Ending)
      BY <1>8, <1>10, <2>1, <2>2 DEF Life!Of
    <2> QED
      BY <1>1, <1>9, <2>3, <2>4 DEF LifeStep, Life!Next, Life!Release
  <1> QED
    BY <1>2, <1>11, <1>12 DEF Removes

\* A frame that leaves the queue ends no session.
LEMMA ServeFrameIsNone ==
    ASSUME Base, ServeFrame PROVE LifeStep
  <1>1. posted \in Seq(Events) /\ UNCHANGED <<objects, created>>
    BY DEF Base, TypeOK, ServeFrame
  <1>2. PICK i \in DOMAIN posted : posted[i].type = "frame" /\ Leave({i})
    BY DEF ServeFrame
  <1>3. \A o : /\ ~Same(posted[i], DeleteConverter(o, 0))
               /\ ~Same(posted[i], DeleteSocket(objects[o].client, 0))
    BY <1>1, <1>2, SameObject
  <1>4. \A o : Doomed(o) => Doomed(o)'
    BY <1>1, <1>2, <1>3, LeaveDooms
  <1>5. Gets(posted', posted, {}) /\ posted' \in Seq(Events)
    BY <1>1, <1>2, LeaveKeeps DEF Gets
  <1>6. \A o : Doomed(o)' => Doomed(o)
    BY <1>1, <1>5, DoomedBefore
  <1>7. SameSessions
    BY <1>1 DEF SameSessions
  <1> QED
    BY <1>1, <1>4, <1>6, <1>7, NobodyEnds

\* List, objects and queue together keep one session at a time for a device:
\* whatever the order in which answers, timers, disconnects and deletions
\* come, a Converter is created only for a device that none serves, and
\* destroyed only when its session has ended.
THEOREM ImplementsLifetimes == Spec => FollowsLifetimes
  <1> DEFINE Inv == Base /\ NoDanglingPointer /\ Accounted /\ KnownDeletions
  <1>1. Init => Life!Init
    <2> SUFFICES ASSUME Init PROVE Life!Init
      OBVIOUS
    <2>1. DOMAIN objects = {} /\ created = 0
      BY DEF Init
    <2>2. 1 .. created = {}
      BY <2>1
    <2> QED
      BY <2>1, <2>2 DEF Life!Init, Serving, Ending
  <1>2. Inv /\ [Next]_vars => LifeStep
    <2> SUFFICES ASSUME Base, TypeOK, NoDanglingPointer, Accounted, KnownDeletions,
                        [Next]_vars
                 PROVE  LifeStep
      BY DEF Base
    <2>1. CASE \/ UNCHANGED vars \/ WebSocketClosed \/ Reconnect
               \/ \E c \in Clients : OnNewConnection(c)
      <3>1. UNCHANGED <<objects, posted, created>>
        BY <2>1 DEF vars, WebSocketClosed, Reconnect, OnNewConnection
      <3>2. SameSessions /\ Extends(posted', posted, {})
        BY <3>1, NothingPosted DEF SameSessions
      <3> QED
        BY <3>1, <3>2, HarmlessStep
    <2>2. CASE \E c \in Clients : SocketDisconnected(c)
      BY <2>2, SocketDisconnectedIsClientLeaves
    <2>3. CASE \E a \in Addresses, effect \in Effects : PostFrame(a, effect)
      <3>1. PICK a \in Addresses, effect \in Effects : PostFrame(a, effect)
        BY <2>3
      <3>2. UNCHANGED <<objects, created>> /\ posted \in Seq(Events)
            /\ posted' = Append(posted, FrameEvent(a, effect))
        BY <3>1 DEF PostFrame, TypeOK
      <3>3. Extends(posted', posted, {FrameEvent(a, effect)})
        BY <3>2, AppendExtends, DeletionTypes
      <3>4. SameSessions /\ \A e \in {FrameEvent(a, effect)} : e.type = "frame"
        BY <3>2 DEF SameSessions, FrameEvent
      <3> QED
        BY <3>2, <3>3, <3>4, HarmlessStep
    <2>4. CASE \E c \in Clients, eui \in Euis, accepted \in BOOLEAN :
                  ProcessTextMessage(c, eui, accepted)
      BY <2>4, ProcessTextMessageIsBegin
    <2>5. CASE ServeFrame \/ ServeDelete
      BY <2>5, ServeFrameIsNone, ServeDeleteIsRelease
    <2>6. CASE Deliver \/ \E o \in DOMAIN objects : AnswerTumeout(o) \/ IdleTimeout(o)
      <3>1. PICK o : EndsSession(o) \/ SetsTimers(o)
        BY <2>6, SlotsEndOrSet
      <3>2. UNCHANGED created
        BY <2>6 DEF Deliver, AnswerTumeout, IdleTimeout
      <3>3. CASE EndsSession(o)
        BY <3>2, <3>3, EndIsFinish
      <3>4. CASE SetsTimers(o)
        <4>1. SameSessions /\ Extends(posted', posted, {})
          BY <3>4, NothingPosted DEF SetsTimers, SameButTimers, SameSessions
        <4> QED
          BY <3>2, <4>1, HarmlessStep
      <3> QED
        BY <3>1, <3>3, <3>4
    <2> QED
      BY <2>1, <2>2, <2>3, <2>4, <2>5, <2>6 DEF Next, Serve
  <1>3. LifeStep <=> [Life!Next]_<<Serving, Ending, 1 .. created>>
    BY DEF LifeStep
  <1>4. Spec => []Inv
    BY BaseHolds, PointersHold, NothingForgotten, KnownHolds, PTL
  <1> QED
    BY <1>1, <1>2, <1>3, <1>4, PTL DEF Spec, FollowsLifetimes, Life!Spec

=============================================================================
