----------------------------- MODULE WebApiServer -----------------------------
(***************************************************************************)
(* WebApiServer (webapiserver.cpp): the applications' sockets, the list of *)
(* Converters, and the life and death of the objects.  What a Converter    *)
(* does between its birth and its end is module Converter; here a slot of  *)
(* it is reduced to what it does to its timers and to its place in the     *)
(* list.                                                                   *)
(*                                                                         *)
(* The list and the objects do not die together.  An object leaves the     *)
(* list when its session ends, but it is destroyed by a DeferredDelete     *)
(* event, which waits in the queue of posted events behind the frames the  *)
(* parser thread has posted.  Until then it is connected and hears every   *)
(* frame.  Net868Client::webSocketClosed runs an event loop of its own for *)
(* three seconds, in which Qt does not serve a DeferredDelete posted       *)
(* outside of it.                                                          *)
(*                                                                         *)
(* Answers that change no state, the echo of binary messages, "Invalid     *)
(* request parameters.", "Invalid JsonObject frame." and "Data already     *)
(* sent.", are stuttering steps.                                           *)
(***************************************************************************)
EXTENDS Integers, Sequences, FiniteSets, Functions

CONSTANTS
    Clients,        \* applications
    Euis,           \* the DevEUIs they ask for
    Addresses,      \* the deviceEui of a frame
    Contained,      \* the addresses DevEUI.contains() finds in each DevEUI
    MaxConverters,  \* bound on the Converters created
    MaxPosted,      \* bound on the events posted at a time by the parser
    MaxLosses       \* bound on losses of the connection to the Net868 server

VARIABLES
    m_clients,      \* the connected sockets
    sockets,        \* the socket objects that exist
    converterList,  \* from DevEUI to Converter
    objects,        \* the Converters that exist
    created,        \* how many there have been
    posted,         \* the main thread's posted events
    dispatching,    \* the frame being delivered, and to whom it still goes
    losses,         \* losses of the connection so far
    nesting,        \* 1 while the event loop of webSocketClosed is running
    crashed         \* deleteLater was called through a null pointer

vars == <<m_clients, sockets, converterList, objects, created, posted,
          dispatching, losses, nesting, crashed>>

ASSUME ServerAssumption ==
    /\ Contained \in [Euis -> SUBSET Addresses]
    /\ {MaxConverters, MaxPosted, MaxLosses} \subseteq Nat

Ids == 1 .. MaxConverters

Object == [eui : Euis, client : Clients, waitTimer : BOOLEAN, idleTimer : BOOLEAN]

\* What the slots that hear a frame do: emit a packet (or, where the frame says
\* what has been confirmed already, only await an answer again), stop waiting, or
\* answer the application and end the session.
Effects == {"packet", "wait", "answer"}

FrameEvent(a, effect) == [type |-> "frame", addr |-> a, effect |-> effect]

DeleteConverter(o, level) == [type |-> "converter", id |-> o, level |-> level]

DeleteSocket(c, level) == [type |-> "socket", client |-> c, level |-> level]

Events ==
    {FrameEvent(a, effect) : a \in Addresses, effect \in Effects}
    \cup {DeleteConverter(o, level) : o \in Ids, level \in 0 .. 1}
    \cup {DeleteSocket(c, level) : c \in Clients, level \in 0 .. 1}

TypeOK ==
    /\ m_clients \subseteq sockets
    /\ sockets \subseteq Clients
    /\ DOMAIN converterList \subseteq Euis
    /\ Range(converterList) \subseteq Ids
    /\ DOMAIN objects \subseteq 1 .. created
    /\ Range(objects) \subseteq Object
    /\ created \in 0 .. MaxConverters
    /\ posted \in Seq(Events)
    /\ dispatching \in [effect : Effects, to : Seq(Ids)]
    /\ losses \in 0 .. MaxLosses
    /\ nesting \in 0 .. 1
    /\ crashed \in BOOLEAN

Nobody == [effect |-> "wait", to |-> <<>>]

Init ==
    /\ m_clients = {}
    /\ sockets = {}
    /\ converterList = <<>>
    /\ objects = <<>>
    /\ created = 0
    /\ posted = <<>>
    /\ dispatching = Nobody
    /\ losses = 0
    /\ nesting = 0
    /\ crashed = FALSE

\* The elements of a set of numbers in their order, as a singleton.
Ascending(S) ==
    {at \in Surjection(1 .. Cardinality(S), S) :
        \A i, j \in DOMAIN at : i < j => at[i] < at[j]}

\* The main thread is between two events.
Ready == ~crashed /\ dispatching.to = <<>>

-----------------------------------------------------------------------------
(* Deletion.                                                               *)

\* deleteLater: Qt drops a second DeferredDelete for the same object.
Same(event, what) ==
    event.type = what.type /\ [event EXCEPT !.level = what.level] = what

Deleting(queue, what) == \E i \in DOMAIN queue : Same(queue[i], what)

DeleteLater(queue, what) ==
    IF Deleting(queue, what) THEN queue ELSE Append(queue, what)

\* Faulty variant: the object is taken out and not deleted.
IdleDisconnectTimeoutLeaks(eui) ==
    /\ eui \in DOMAIN converterList
    /\ converterList' = Restrict(converterList, DOMAIN converterList \ {eui})
    /\ UNCHANGED <<posted, crashed>>

\* idleDisconnectTimeout: whatever object stands under the DevEUI is taken
\* out and deleted.  Where there is none, deleteLater is called through a null
\* pointer: Qt's postEvent may survive it with a warning, or the program ends.
IdleDisconnectTimeout(eui) ==
    IF eui \in DOMAIN converterList
    THEN /\ posted' = DeleteLater(posted, DeleteConverter(converterList[eui], nesting))
         /\ converterList' = Restrict(converterList, DOMAIN converterList \ {eui})
         /\ UNCHANGED crashed
    ELSE /\ crashed' \in BOOLEAN
         /\ UNCHANGED <<posted, converterList>>

\* Faulty variant: destroyed() is not connected.
WithoutNothing(ids) == converterList

\* printMsg, on destroyed(): the entries that name the object go with it.
Without(ids) ==
    Restrict(converterList, {e \in DOMAIN converterList : converterList[e] \notin ids})

\* Faulty variant: the Converters of every application.
ChildrenOfAll(c) == DOMAIN objects

Children(c) == {o \in DOMAIN objects : objects[o].client = c}

Destroy(ids) ==
    /\ objects' = Restrict(objects, DOMAIN objects \ ids)
    /\ converterList' = Without(ids)

-----------------------------------------------------------------------------
(* Applications.                                                           *)

OnNewConnection(c) ==
    /\ Ready
    /\ c \notin sockets
    /\ m_clients' = m_clients \cup {c}
    /\ sockets' = sockets \cup {c}
    /\ UNCHANGED <<converterList, objects, created, posted, dispatching,
                   losses, nesting, crashed>>

\* A request for a DevEUI that is not in the list: a new Converter, child of
\* the client's socket.  setDataPackage sends the first packet, or refuses.
ProcessTextMessage(c, eui, accepted) ==
    /\ Ready
    /\ c \in m_clients
    /\ eui \notin DOMAIN converterList
    /\ created < MaxConverters
    /\ created' = created + 1
    /\ objects' = [o \in DOMAIN objects \cup {created'} |->
                      IF o \in DOMAIN objects THEN objects[o]
                      ELSE [eui |-> eui, client |-> c,
                            waitTimer |-> accepted, idleTimer |-> TRUE]]
    /\ converterList' = [e \in DOMAIN converterList \cup {eui} |->
                            IF e = eui THEN created' ELSE converterList[e]]
    /\ UNCHANGED <<m_clients, sockets, posted, dispatching, losses, nesting, crashed>>

\* Faulty variant: the socket stays in m_clients.
SocketDisconnectedKept(c) ==
    /\ Ready
    /\ c \in m_clients
    /\ posted' = DeleteLater(posted, DeleteSocket(c, nesting))
    /\ UNCHANGED <<m_clients, sockets, converterList, objects, created,
                   dispatching, losses, nesting, crashed>>

\* disconnected(): the socket first, then, in the order they were connected,
\* the Converters it is the parent of.
SocketDisconnected(c) ==
    /\ Ready
    /\ c \in m_clients
    /\ m_clients' = m_clients \ {c}
    /\ \E ids \in Ascending({o \in Children(c) : ~Deleting(posted, DeleteConverter(o, 0))}) :
          posted' = DeleteLater(posted, DeleteSocket(c, nesting))
                    \o [i \in DOMAIN ids |-> DeleteConverter(ids[i], nesting)]
    /\ UNCHANGED <<sockets, converterList, objects, created, dispatching,
                   losses, nesting, crashed>>

-----------------------------------------------------------------------------
(* Posted events.                                                          *)

\* The parser thread's signals are queued for the main thread.
PostFrame(a, effect) ==
    /\ ~crashed
    /\ Cardinality({i \in DOMAIN posted : posted[i].type = "frame"}) < MaxPosted
    /\ posted' = Append(posted, FrameEvent(a, effect))
    /\ UNCHANGED <<m_clients, sockets, converterList, objects, created,
                   dispatching, losses, nesting, crashed>>

\* An event loop passes over a DeferredDelete posted outside of it.
Blocked(event) == event.type # "frame" /\ event.level < nesting

\* The event at place i is the next one served.
FirstOpen(i) == ~Blocked(posted[i]) /\ \A j \in 1 .. i - 1 : Blocked(posted[j])

\* The events at some places leave the queue.
Leave(gone) ==
    \E left \in Ascending(DOMAIN posted \ gone) :
        posted' = [i \in DOMAIN left |-> posted[left[i]]]

\* Every Converter that exists hears the frame if its DevEUI contains the
\* frame's, in the order they were connected.
ServeFrame ==
    /\ Ready
    /\ \E i \in DOMAIN posted :
          LET event == posted[i]
          IN  /\ FirstOpen(i)
              /\ event.type = "frame"
              /\ Leave({i})
              /\ \E to \in Ascending({o \in DOMAIN objects :
                                event.addr \in Contained[objects[o].eui]}) :
                    dispatching' = [effect |-> event.effect, to |-> to]
    /\ UNCHANGED <<m_clients, sockets, converterList, objects, created,
                   losses, nesting, crashed>>

\* The socket takes its children with it; the events posted to what is
\* destroyed go too.
ServeDelete ==
    /\ Ready
    /\ \E i \in DOMAIN posted :
          LET event == posted[i]
              own   == {j \in DOMAIN posted : Same(posted[j], event)}
          IN  /\ FirstOpen(i)
              /\ \/ /\ event.type = "converter"
                    /\ Leave(own)
                    /\ Destroy({event.id})
                    /\ UNCHANGED sockets
                 \/ /\ event.type = "socket"
                    /\ Leave(own \cup {j \in DOMAIN posted :
                                          /\ posted[j].type = "converter"
                                          /\ posted[j].id \in Children(event.client)})
                    /\ sockets' = sockets \ {event.client}
                    /\ Destroy(Children(event.client))
    /\ UNCHANGED <<m_clients, created, dispatching, losses, nesting, crashed>>

\* The slot of the next Converter the frame goes to.
Deliver ==
    /\ ~crashed
    /\ dispatching.to # <<>>
    /\ dispatching' = [dispatching EXCEPT !.to = Tail(@)]
    /\ LET o == Head(dispatching.to)
           timers(wait, idle) ==
               objects' = [objects EXCEPT ![o].waitTimer = wait, ![o].idleTimer = idle]
       IN  \/ /\ dispatching.effect = "packet"
              /\ \E idle \in {TRUE, objects[o].idleTimer} : timers(TRUE, idle)
              /\ UNCHANGED <<posted, converterList, crashed>>
           \/ /\ dispatching.effect = "wait"
              /\ timers(FALSE, objects[o].idleTimer)
              /\ UNCHANGED <<posted, converterList, crashed>>
           \/ /\ dispatching.effect = "answer"
              /\ timers(FALSE, FALSE)
              /\ IdleDisconnectTimeout(objects[o].eui)
    /\ UNCHANGED <<m_clients, sockets, created, losses, nesting>>

-----------------------------------------------------------------------------
(* Timers.                                                                 *)

\* answerTumeout: another attempt, or, after the last, the end.
AnswerTumeout(o) ==
    /\ Ready
    /\ objects[o].waitTimer
    /\ \/ UNCHANGED <<objects, posted, converterList, crashed>>
       \/ /\ objects' = [objects EXCEPT ![o].waitTimer = FALSE, ![o].idleTimer = FALSE]
          /\ IdleDisconnectTimeout(objects[o].eui)
    /\ UNCHANGED <<m_clients, sockets, created, dispatching, losses, nesting>>

\* idleTimeout leaves the wait timer running.
IdleTimeout(o) ==
    /\ Ready
    /\ objects[o].idleTimer
    /\ objects' = [objects EXCEPT ![o].idleTimer = FALSE]
    /\ IdleDisconnectTimeout(objects[o].eui)
    /\ UNCHANGED <<m_clients, sockets, created, dispatching, losses, nesting>>

-----------------------------------------------------------------------------
(* The connection to the Net868 server.                                    *)

\* webSocketClosed: three seconds of event loop inside the slot.  The socket
\* is opened again only after them, so it cannot be lost again meanwhile.
WebSocketClosed ==
    /\ Ready
    /\ nesting = 0
    /\ losses < MaxLosses
    /\ losses' = losses + 1
    /\ nesting' = 1
    /\ UNCHANGED <<m_clients, sockets, converterList, objects, created, posted,
                   dispatching, crashed>>

Reconnect ==
    /\ Ready
    /\ nesting = 1
    /\ nesting' = 0
    /\ UNCHANGED <<m_clients, sockets, converterList, objects, created, posted,
                   dispatching, losses, crashed>>

-----------------------------------------------------------------------------
Serve == ServeFrame \/ ServeDelete \/ Deliver

Next ==
    \/ \E c \in Clients : OnNewConnection(c) \/ SocketDisconnected(c)
    \/ \E c \in Clients, eui \in Euis, accepted \in BOOLEAN :
          ProcessTextMessage(c, eui, accepted)
    \/ \E a \in Addresses, effect \in Effects : PostFrame(a, effect)
    \/ Serve
    \/ \E o \in DOMAIN objects : AnswerTumeout(o) \/ IdleTimeout(o)
    \/ WebSocketClosed
    \/ Reconnect

Spec == Init /\ [][Next]_vars

\* The event loop goes on, and the single shot that ends the inner loop is
\* served, once it is due, as soon as the main thread is between two events.
Fairness == WF_vars(Serve) /\ SF_vars(Reconnect)

FairSpec == Spec /\ Fairness

-----------------------------------------------------------------------------
(* Properties.                                                             *)

Listed(o) == o \in Range(converterList)

\* A DeferredDelete for the object or its parent is on its way.
Doomed(o) ==
    \/ Deleting(posted, DeleteConverter(o, 0))
    \/ Deleting(posted, DeleteSocket(objects[o].client, 0))

\* The raw pointers of converterList and the parent pointers never dangle,
\* whichever of timer, answer and disconnect deletes the object, in whatever
\* order the events are served, and even if an object that was to die ends
\* another one's session.
NoDanglingPointer ==
    /\ \A e \in DOMAIN converterList :
          converterList[e] \in DOMAIN objects /\ objects[converterList[e]].eui = e
    /\ \A o \in DOMAIN objects : objects[o].client \in sockets

\* Every object is either in the list, with an idle timer that will take it
\* out, or about to be destroyed: none is left behind, connected and unheard
\* of, and no DevEUI is locked for good.
Accounted ==
    \A o \in DOMAIN objects :
        Doomed(o) \/ (Listed(o) /\ objects[o].idleTimer)

\* The Converter as the session it is there for.
SessionOf(o) ==
    [id |-> o, client |-> objects[o].client, eui |-> objects[o].eui]

Serving == {SessionOf(o) : o \in {p \in DOMAIN objects : ~Doomed(p)}}

Ending == {SessionOf(o) : o \in {p \in DOMAIN objects : Doomed(p)}}

Life == INSTANCE Lifetimes WITH
            serving <- Serving, ending <- Ending, used <- 1 .. created

\* One session at a time for a device, although list and objects do not die
\* together, a finished object may end another one's session, and deletions
\* wait: a Converter is created only when every earlier one of the device is
\* on its way to destruction, and destroyed only when it has ended.
FollowsLifetimes == Life!Spec

\* An object that has left the list is destroyed in the end, also when the
\* inner event loop of webSocketClosed has passed over it.
UnlistedIsDestroyed ==
    \A o \in Ids : (o \in DOMAIN objects /\ ~Listed(o))
                       ~> (o \notin DOMAIN objects \/ crashed)

\* What idleDisconnectTimeout logs, "Converter with DevEUI: ... finished":
\* the Converter that answers the application is the one in the list, so that
\* a request gets one answer.
ListedConverterAnswers ==
    [][dispatching.to # <<>> /\ dispatching' # dispatching
       /\ dispatching.effect = "answer" => Listed(Head(dispatching.to))]_vars

=============================================================================
