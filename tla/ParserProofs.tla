----------------------------- MODULE ParserProofs -----------------------------
(***************************************************************************)
(* What ParserThread guarantees for every number of messages and packets   *)
(* and whichever frames contain "overdue": the types of its state, races   *)
(* included, and the end of the thread before the end of a client that has *)
(* waited for it.  And that it implements Pipe: as long as no two          *)
(* operations on one queue overlap, what goes in comes out, once and in    *)
(* its order.                                                              *)
(***************************************************************************)
EXTENDS ParserThread, SequenceTheorems, WellFoundedInduction, TLAPS

-----------------------------------------------------------------------------
(* Types.                                                                  *)

\* While an enqueue is in progress there is an item for it to put.
AddsAnItem ==
    /\ adding = "lora" => received > 0
    /\ adding = "query" => requested > 0

TypeInv == TypeOK /\ AddsAnItem

\* A posted event is one of the four kinds.
LEMMA EventTypes ==
    /\ \A f \in Frames \ Overdue : Event("frame", f) \in Events
    /\ \A p \in Packets : Event("packet", p) \in Events
    /\ Event("finished", 0) \in Events
    /\ Event("threadFinished", 0) \in Events
  BY DEF Events

\* An event of type "packet" carries a packet.
LEMMA PacketEvents ==
    ASSUME NEW e \in Events, e.type = "packet"
    PROVE  e.item \in Packets
  BY DEF Events, Event

\* The head and the tail of a queue are of the queue's type.
LEMMA HeadTail ==
    ASSUME NEW S, NEW queue \in Seq(S), queue # <<>>
    PROVE  Head(queue) \in S /\ Tail(queue) \in Seq(S)
  OBVIOUS

\* So is a queue with an item more.
LEMMA AppendType ==
    ASSUME NEW S, NEW queue \in Seq(S), NEW x \in S
    PROVE  Append(queue, x) \in Seq(S)
  OBVIOUS

\* Appending and taking, raced or not, leave queues of items.
LEMMA QueueTypes ==
    ASSUME NEW S, NEW queue \in Seq(S)
    PROVE  /\ \A x \in S : \A q \in Appended(queue, x) : q \in Seq(S)
           /\ queue # <<>> => \A q \in Dequeued(queue) : q \in Seq(S)
  <1>1. ASSUME NEW x \in S, NEW q \in Appended(queue, x) PROVE q \in Seq(S)
    <2>1. Append(queue, x) \in Seq(S)
      BY AppendType
    <2> QED
      BY <1>1, <2>1 DEF Appended
  <1>2. ASSUME queue # <<>>, NEW q \in Dequeued(queue) PROVE q \in Seq(S)
    <2>1. Tail(queue) \in Seq(S)
      BY <1>2, HeadTail
    <2>2. q = Tail(queue) \/ q = queue
      BY <1>2 DEF Dequeued
    <2> QED
      BY <2>1, <2>2
  <1> QED
    BY <1>1, <1>2

\* The initial state is typed.
LEMMA InitType == Init => TypeInv
  <1>1. MaxFrames \in Nat /\ MaxPackets \in Nat
    BY ParserAssumption
  <1>2. <<>> \in Seq(Frames) /\ <<>> \in Seq(Packets) /\ <<>> \in Seq(Events)
    OBVIOUS
  <1>3. ASSUME Init PROVE TypeOK
    <2>1. received \in 0 .. MaxFrames /\ requested \in 0 .. MaxPackets
      BY <1>1, <1>3 DEF Init
    <2>2. loraQue \in Seq(Frames) /\ queryDataToSend \in Seq(Packets)
          /\ posted \in Seq(Events)
      BY <1>2, <1>3 DEF Init
    <2>3. sent \subseteq Packets
      BY <1>3 DEF Init
    <2> QED
      BY <1>3, <2>1, <2>2, <2>3 DEF Init, TypeOK
  <1> QED
    BY <1>3 DEF Init, TypeInv, AddsAnItem

\* The steps of the main thread keep the types.
LEMMA MainKeepsType ==
    ASSUME TypeInv,
           MainStep \/ OnTextMessageReceived \/ AddDataToQuery \/ ExitQt
           \/ WaitCutShort \/ Exit
    PROVE  TypeInv'
  <1> USE ParserAssumption
  <1> USE DEF TypeInv, TypeOK, AddsAnItem, que, MainUnchanged, ThreadUnchanged
  <1>1. CASE Exec
    BY <1>1 DEF Exec
  <1>2. CASE OnTextMessageReceived
    BY <1>2 DEF OnTextMessageReceived
  <1>3. CASE AddDataToQuery
    BY <1>3 DEF AddDataToQuery
  <1>4. CASE EnqueueEnds
    <2>1. CASE adding = "lora" /\ loraQue' \in Appended(loraQue, received)
                               /\ UNCHANGED queryDataToSend
      <3>1. received \in Frames
        BY <2>1 DEF Frames
      <3>2. loraQue' \in Seq(Frames)
        BY <2>1, <3>1, QueueTypes
      <3> QED
        BY <1>4, <2>1, <3>2 DEF EnqueueEnds
    <2>2. CASE adding = "query" /\ queryDataToSend' \in Appended(queryDataToSend, requested)
                                /\ UNCHANGED loraQue
      <3>1. requested \in Packets
        BY <2>2 DEF Packets
      <3>2. queryDataToSend' \in Seq(Packets)
        BY <2>2, <3>1, QueueTypes
      <3> QED
        BY <1>4, <2>2, <3>2 DEF EnqueueEnds
    <2> QED
      BY <1>4, <2>1, <2>2 DEF EnqueueEnds
  <1>5. ASSUME NEW type, Serve(type) PROVE posted' \in Seq(Events)
    BY <1>5, HeadTail DEF Serve
  <1>6. CASE TransitFrame
    BY <1>5, <1>6 DEF TransitFrame, Serve
  <1>7. CASE SendMessageToNetServer
    <2>1. Head(posted).item \in Packets
      BY <1>7, HeadTail, PacketEvents DEF SendMessageToNetServer, Serve
    <2>2. sent' \subseteq Packets
      BY <1>7, <2>1 DEF SendMessageToNetServer
    <2> QED
      BY <1>5, <1>7, <2>2 DEF SendMessageToNetServer, Serve
  <1>8. CASE QuitThread
    BY <1>5, <1>8 DEF QuitThread, Serve
  <1>9. CASE WaitEnds
    BY <1>5, <1>9 DEF WaitEnds, Serve
  <1>10. CASE ExitQt
    BY <1>10 DEF ExitQt
  <1>11. CASE WaitCutShort
    BY <1>11 DEF WaitCutShort
  <1>12. CASE Exit
    BY <1>12 DEF Exit
  <1> QED
    BY <1>1, <1>2, <1>3, <1>4, <1>6, <1>7, <1>8, <1>9, <1>10, <1>11, <1>12
    DEF MainStep, Served

\* So do those of the parser thread, and the ends the program may come to.
LEMMA ThreadKeepsType ==
    ASSUME TypeInv,
           ThreadStep \/ DeleteParser \/ RaceKills \/ UseOfDestroyedQueue
    PROVE  TypeInv'
  <1> USE ParserAssumption
  <1> USE DEF TypeInv, TypeOK, AddsAnItem, que, MainUnchanged, ThreadUnchanged, Goes
  <1>1. CASE StartParser \/ Iterate \/ SeesFrame \/ SeesNoFrame \/ SeesPacket
             \/ SeesNoPacket
    BY <1>1 DEF StartParser, Iterate, SeesFrame, SeesNoFrame, SeesPacket, SeesNoPacket
  <1>2. CASE TakeFrame
    <2>1. Head(loraQue) \in Frames /\ loraQue' \in Seq(Frames)
      BY <1>2, HeadTail, QueueTypes DEF TakeFrame
    <2>2. posted' \in Seq(Events)
      BY <1>2, <2>1, EventTypes DEF TakeFrame
    <2> QED
      BY <1>2, <2>1, <2>2 DEF TakeFrame
  <1>3. CASE TakePacket
    <2>1. Head(queryDataToSend) \in Packets /\ queryDataToSend' \in Seq(Packets)
      BY <1>3, HeadTail, QueueTypes DEF TakePacket
    <2>2. posted' \in Seq(Events)
      BY <1>3, <2>1, EventTypes DEF TakePacket
    <2> QED
      BY <1>3, <2>1, <2>2 DEF TakePacket
  <1>4. CASE ParserStops \/ ThreadEnds
    <2>1. PICK e \in Events : posted' = Append(posted, e)
      <3>1. CASE ParserStops
        BY <3>1, EventTypes DEF ParserStops
      <3>2. CASE ThreadEnds
        BY <3>2, EventTypes DEF ThreadEnds
      <3> QED
        BY <1>4, <3>1, <3>2
    <2>2. posted' \in Seq(Events)
      <3>1. posted \in Seq(Events)
        OBVIOUS
      <3> QED
        BY <2>1, <3>1, AppendType
    <2> QED
      BY <1>4, <2>2 DEF ParserStops, ThreadEnds
  <1>5. CASE DeleteParser \/ RaceKills \/ UseOfDestroyedQueue
    BY <1>5 DEF DeleteParser, RaceKills, UseOfDestroyedQueue
  <1> QED
    BY <1>1, <1>2, <1>3, <1>4, <1>5 DEF ThreadStep

\* Every step does.
LEMMA NextKeepsType == TypeInv /\ [Next]_vars => TypeInv'
  <1> SUFFICES ASSUME TypeInv, [Next]_vars PROVE TypeInv'
    OBVIOUS
  <1>1. CASE UNCHANGED vars
    BY <1>1 DEF vars, que, TypeInv, TypeOK, AddsAnItem
  <1>2. CASE Next
    BY <1>2, MainKeepsType, ThreadKeepsType DEF Next
  <1> QED
    BY <1>1, <1>2

\* Queues, events and flags keep their types, whatever a data race makes of
\* the queues.
THEOREM TypeCorrect == Spec => []TypeOK
  <1>1. TypeInv => TypeOK
    BY DEF TypeInv
  <1> QED
    BY <1>1, InitType, NextKeepsType, PTL DEF Spec

-----------------------------------------------------------------------------
(* The end of the thread.                                                  *)

\* The thread's finished() is posted by its end, and nothing else lets the
\* destructor go on unless it is cut short.
EndsFirst ==
    /\ \A i \in DOMAIN posted : posted[i].type = "threadFinished" => thread = "ended"
    /\ OrderlyExit

\* What is left of the events when one has been served.
LEMMA ServedEvents ==
    ASSUME TypeOK, NEW type, Serve(type), EndsFirst, UNCHANGED thread
    PROVE  /\ \A i \in DOMAIN posted' :
                 posted'[i].type = "threadFinished" => thread' = "ended"
           /\ type = "threadFinished" => thread = "ended"
  BY DEF TypeOK, Serve, EndsFirst

\* What an event more changes.
LEMMA PostedEvents ==
    ASSUME TypeOK, EndsFirst, NEW type, NEW item,
           posted' = Append(posted, Event(type, item)),
           thread = "ended" => thread' = "ended",
           type = "threadFinished" => thread' = "ended"
    PROVE  \A i \in DOMAIN posted' :
                 posted'[i].type = "threadFinished" => thread' = "ended"
  BY DEF TypeOK, EndsFirst, Event

\* Every step keeps it.
LEMMA NextKeepsEnds == TypeOK /\ EndsFirst /\ [Next]_vars => EndsFirst'
  <1> SUFFICES ASSUME TypeOK, EndsFirst, [Next]_vars PROVE EndsFirst'
    OBVIOUS
  <1> USE DEF OrderlyExit, Gone, que, MainUnchanged, ThreadUnchanged
  <1>1. CASE UNCHANGED vars
    BY <1>1 DEF vars, EndsFirst
  <1>2. CASE TransitFrame \/ SendMessageToNetServer \/ QuitThread
    <2>1. UNCHANGED <<thread, main, impatient>>
      BY <1>2 DEF TransitFrame, SendMessageToNetServer, QuitThread
    <2>2. PICK type : Serve(type)
      BY <1>2 DEF TransitFrame, SendMessageToNetServer, QuitThread
    <2> QED
      BY <2>1, <2>2, ServedEvents DEF EndsFirst
  <1>3. CASE WaitEnds
    BY <1>3, ServedEvents DEF WaitEnds, EndsFirst
  <1>4. CASE Exec \/ EnqueueEnds \/ OnTextMessageReceived \/ AddDataToQuery
             \/ ExitQt \/ WaitCutShort \/ Exit \/ RaceKills \/ UseOfDestroyedQueue
             \/ DeleteParser
    <2>1. UNCHANGED <<thread, posted>>
      BY <1>4 DEF Exec, EnqueueEnds, OnTextMessageReceived, AddDataToQuery, ExitQt,
                  WaitCutShort, Exit, RaceKills, UseOfDestroyedQueue, DeleteParser
    <2>2. OrderlyExit'
      BY <1>4, <2>1 DEF Exec, EnqueueEnds, OnTextMessageReceived, AddDataToQuery,
                  ExitQt, WaitCutShort, Exit, RaceKills, UseOfDestroyedQueue,
                  DeleteParser, EndsFirst, Running, Looping
    <2> QED
      BY <2>1, <2>2 DEF EndsFirst
  <1>5. CASE StartParser \/ Iterate \/ SeesFrame \/ SeesNoFrame \/ SeesPacket
             \/ SeesNoPacket
    BY <1>5 DEF StartParser, Iterate, SeesFrame, SeesNoFrame, SeesPacket,
                SeesNoPacket, Goes, EndsFirst
  <1>6. CASE TakeFrame \/ TakePacket \/ ParserStops \/ ThreadEnds
    <2>1. UNCHANGED <<main, impatient>> /\ (thread = "ended" => thread' = "ended")
      BY <1>6 DEF TakeFrame, TakePacket, ParserStops, ThreadEnds, Goes
    <2>2. \/ UNCHANGED posted
          \/ \E type, item : /\ posted' = Append(posted, Event(type, item))
                             /\ type = "threadFinished" => thread' = "ended"
      BY <1>6 DEF TakeFrame, TakePacket, ParserStops, ThreadEnds, Goes
    <2> QED
      BY <2>1, <2>2, PostedEvents DEF EndsFirst
  <1> QED
    BY <1>1, <1>2, <1>3, <1>4, <1>5, <1>6 DEF Next, MainStep, Served, ThreadStep

\* A client that has waited for its thread has outlived it: only the timer or
\* a second signal can leave a thread behind that uses a destroyed queue.
THEOREM ThreadEndsFirst == Spec => []OrderlyExit
  <1>1. Init => EndsFirst
    BY DEF Init, EndsFirst, OrderlyExit, Gone
  <1>2. EndsFirst => OrderlyExit
    BY DEF EndsFirst
  <1> QED
    BY <1>1, <1>2, NextKeepsEnds, TypeCorrect, PTL DEF Spec

-----------------------------------------------------------------------------
(* Nothing destroyed is used before the shutdown.                          *)

\* The parser leaves its loop, and with it is deleted, only after the signal
\* that ends a.exec(); appends are in progress only in event loops.
StopsLate ==
    /\ ~runFlag \/ thread \in {"exec", "ended"} => main \notin {"start", "exec"}
    /\ ~parserExists => thread \in {"exec", "ended"}
    /\ adding # "none" => main \in {"exec", "wait"}
    /\ DestroyedUseIsLate

\* Every step keeps it.
LEMMA NextKeepsStops ==
    TypeOK /\ OrderlyExit /\ StopsLate /\ [Next]_vars => StopsLate'
  <1> SUFFICES ASSUME TypeOK, OrderlyExit, StopsLate, [Next]_vars PROVE StopsLate'
    OBVIOUS
  <1> USE DEF StopsLate, DestroyedUseIsLate, que, MainUnchanged, ThreadUnchanged,
              Running, Looping
  <1>1. CASE UNCHANGED vars
    BY <1>1 DEF vars
  <1>2. CASE Exec \/ EnqueueEnds \/ OnTextMessageReceived \/ ExitQt \/ WaitCutShort
             \/ Exit \/ RaceKills
    BY <1>2 DEF Exec, EnqueueEnds, OnTextMessageReceived, ExitQt, WaitCutShort, Exit,
                RaceKills, TypeOK
  <1>3. CASE TransitFrame \/ SendMessageToNetServer \/ QuitThread \/ WaitEnds
    BY <1>3 DEF TransitFrame, SendMessageToNetServer, QuitThread, WaitEnds, Serve
  <1>4. CASE AddDataToQuery
    BY <1>4 DEF AddDataToQuery
  <1>5. CASE StartParser \/ Iterate \/ SeesFrame \/ SeesNoFrame \/ SeesPacket
             \/ SeesNoPacket \/ TakeFrame \/ TakePacket \/ ParserStops \/ ThreadEnds
    BY <1>5 DEF StartParser, Iterate, SeesFrame, SeesNoFrame, SeesPacket, SeesNoPacket,
                TakeFrame, TakePacket, ParserStops, ThreadEnds, Goes
  <1>6. CASE DeleteParser
    BY <1>6 DEF DeleteParser
  <1>7. CASE UseOfDestroyedQueue
    BY <1>7 DEF UseOfDestroyedQueue, LoraQueExists, OrderlyExit, Gone
  <1> QED
    BY <1>1, <1>2, <1>3, <1>4, <1>5, <1>6, <1>7 DEF Next, MainStep, Served, ThreadStep

\* A program that uses what it has destroyed is in its shutdown: it serves a
\* packet while the destructor waits, or the destructor has not waited.
THEOREM DestroyedLate == Spec => []DestroyedUseIsLate
  <1>1. Init => StopsLate
    BY DEF Init, StopsLate, DestroyedUseIsLate
  <1>2. StopsLate => DestroyedUseIsLate
    BY DEF StopsLate
  <1> QED
    BY <1>1, <1>2, NextKeepsStops, TypeCorrect, ThreadEndsFirst, PTL DEF Spec

-----------------------------------------------------------------------------
(* The elements of a sequence that are in a set.                           *)

\* A set of numbers that has 0 and every successor has every number.
LEMMA NumbersOneByOne ==
    ASSUME NEW P \in SUBSET Nat, 0 \in P, \A n \in P : n + 1 \in P
    PROVE  P = Nat
  <1> SUFFICES ASSUME Nat \ P # {} PROVE FALSE
    OBVIOUS
  <1>1. PICK m \in Nat \ P : \A k \in Nat \ P : ~ (<<k, m>> \in OpToRel(<, Nat))
    BY WFMin, NatLessThanWellFounded, Zenon
  <1>2. \A k \in Nat \ P : ~ (k < m)
    BY <1>1 DEF OpToRel
  <1>3. m - 1 \in Nat /\ m - 1 < m
    OBVIOUS
  <1> QED
    BY <1>2, <1>3

\* f gives the selected elements among the first ones of s, up to the n-th.
Selects(f, n, s, S) ==
    /\ DOMAIN f = 0 .. n
    /\ f[0] = <<>>
    /\ \A i \in 1 .. n :
          f[i] = IF s[i] \in S THEN Append(f[i - 1], s[i]) ELSE f[i - 1]

\* There is such a function.
LEMMA SelectionExists ==
    ASSUME NEW s, NEW S, NEW n \in Nat
    PROVE  \E f : Selects(f, n, s, S)
  <1> DEFINE P == {k \in Nat : \E f : Selects(f, k, s, S)}
  <1>1. 0 \in P
    <2>1. Selects([i \in 0 .. 0 |-> <<>>], 0, s, S)
      BY DEF Selects
    <2> QED
      BY <2>1
  <1>2. ASSUME NEW k \in P PROVE k + 1 \in P
    <2>1. PICK f : Selects(f, k, s, S)
      OBVIOUS
    <2> DEFINE last == IF s[k + 1] \in S THEN Append(f[k], s[k + 1]) ELSE f[k]
               g == [i \in 0 .. k + 1 |-> IF i = k + 1 THEN last ELSE f[i]]
    <2>2. DOMAIN g = 0 .. k + 1 /\ g[0] = <<>>
      BY <2>1 DEF Selects
    <2>3. ASSUME NEW i \in 1 .. k + 1
          PROVE  g[i] = IF s[i] \in S THEN Append(g[i - 1], s[i]) ELSE g[i - 1]
      <3>1. i - 1 \in 0 .. k /\ g[i - 1] = f[i - 1]
        OBVIOUS
      <3>2. CASE i = k + 1
        <4>1. g[i] = last /\ i - 1 = k
          BY <3>2
        <4> QED
          BY <3>1, <3>2, <4>1
      <3>3. CASE i # k + 1
        <4>1. i \in 1 .. k /\ g[i] = f[i]
          BY <3>3
        <4> QED
          BY <2>1, <3>1, <4>1 DEF Selects
      <3> QED
        BY <3>2, <3>3
    <2> HIDE DEF g
    <2>4. Selects(g, k + 1, s, S)
      BY <2>2, <2>3 DEF Selects
    <2> QED
      BY <2>4
  <1> HIDE DEF P
  <1>3. P = Nat
    <2>1. P \in SUBSET Nat
      BY DEF P
    <2> QED
      BY <1>1, <1>2, <2>1, NumbersOneByOne
  <1> QED
    BY <1>3 DEF P

\* OnlyIn is the last value of one.
LEMMA OnlyInSelects ==
    ASSUME NEW s, NEW S, Len(s) \in Nat
    PROVE  \E f : Selects(f, Len(s), s, S) /\ OnlyIn(s, S) = f[Len(s)]
  <1> DEFINE Fits(h) ==
                h = [i \in 0 .. Len(s) |->
                        IF i = 0 THEN <<>>
                        ELSE IF s[i] \in S THEN Append(h[i - 1], s[i]) ELSE h[i - 1]]
             f == CHOOSE h : Fits(h)
  <1>1. ASSUME NEW h, Selects(h, Len(s), s, S), h = [i \in DOMAIN h |-> h[i]]
        PROVE  Fits(h)
    <2>1. ASSUME NEW i \in 0 .. Len(s)
          PROVE  h[i] = IF i = 0 THEN <<>>
                        ELSE IF s[i] \in S THEN Append(h[i - 1], s[i]) ELSE h[i - 1]
      BY <1>1 DEF Selects
    <2>2. DOMAIN h = 0 .. Len(s)
      BY <1>1 DEF Selects
    <2>3. h = [i \in 0 .. Len(s) |-> h[i]]
      BY <1>1, <2>2
    <2> QED
      BY <2>1, <2>3
  <1>2. ASSUME NEW h, Fits(h) PROVE Selects(h, Len(s), s, S)
    <2>1. DOMAIN h = 0 .. Len(s) /\ 0 \in 0 .. Len(s)
      BY <1>2
    <2>2. \A i \in 0 .. Len(s) :
             h[i] = IF i = 0 THEN <<>>
                    ELSE IF s[i] \in S THEN Append(h[i - 1], s[i]) ELSE h[i - 1]
      BY <1>2
    <2>3. \A i \in 1 .. Len(s) : i \in 0 .. Len(s) /\ i # 0
      OBVIOUS
    <2> HIDE DEF Fits
    <2> QED
      BY <2>1, <2>2, <2>3 DEF Selects
  <1>3. PICK g : Selects(g, Len(s), s, S)
    BY SelectionExists
  <1>4. \E h : Fits(h)
    <2> DEFINE h == [i \in DOMAIN g |-> g[i]]
    <2>1. Selects(h, Len(s), s, S) /\ h = [i \in DOMAIN h |-> h[i]]
      BY <1>3 DEF Selects
    <2> QED
      BY <1>1, <2>1
  <1>5. Fits(f)
    BY <1>4, Zenon
  <1>6. OnlyIn(s, S) = f[Len(s)]
    BY Zenon DEF OnlyIn
  <1> QED
    BY <1>2, <1>5, <1>6

\* Two sequences that begin alike select alike.
LEMMA SelectionsAgree ==
    ASSUME NEW f, NEW g, NEW s, NEW t, NEW S, NEW n \in Nat, NEW m \in Nat, n <= m,
           Selects(f, n, s, S), Selects(g, m, t, S),
           \A i \in 1 .. n : s[i] = t[i]
    PROVE  f[n] = g[n]
  <1> DEFINE P == {k \in Nat : k <= n => f[k] = g[k]}
  <1>1. 0 \in P
    BY DEF Selects
  <1>2. ASSUME NEW k \in P PROVE k + 1 \in P
    <2>1. CASE k + 1 <= n
      <3>1. k + 1 \in 1 .. n /\ k + 1 \in 1 .. m /\ k + 1 - 1 = k /\ k <= n
        BY <2>1
      <3>2. f[k + 1] = IF s[k + 1] \in S THEN Append(f[k], s[k + 1]) ELSE f[k]
        BY <3>1 DEF Selects
      <3>3. g[k + 1] = IF t[k + 1] \in S THEN Append(g[k], t[k + 1]) ELSE g[k]
        BY <3>1 DEF Selects
      <3>4. f[k + 1] = g[k + 1]
        BY <3>1, <3>2, <3>3
      <3> QED
        BY <3>4
    <2>2. CASE ~(k + 1 <= n)
      BY <2>2
    <2> QED
      BY <2>1, <2>2
  <1> HIDE DEF P
  <1>3. P = Nat
    <2>1. P \in SUBSET Nat
      BY DEF P
    <2> QED
      BY <1>1, <1>2, <2>1, NumbersOneByOne
  <1> QED
    BY <1>3 DEF P

\* What is selected is of the sequence's type.
LEMMA SelectionType ==
    ASSUME NEW T, NEW s \in Seq(T), NEW S, NEW f, Selects(f, Len(s), s, S)
    PROVE  \A i \in 0 .. Len(s) : f[i] \in Seq(T \cap S)
  <1> DEFINE P == {k \in Nat : k <= Len(s) => f[k] \in Seq(T \cap S)}
  <1>1. 0 \in P
    <2>1. f[0] = <<>> /\ <<>> \in Seq(T \cap S)
      BY DEF Selects
    <2> QED
      BY <2>1
  <1>2. ASSUME NEW k \in P PROVE k + 1 \in P
    <2>1. CASE k + 1 <= Len(s)
      <3>1. k + 1 \in 1 .. Len(s) /\ k + 1 - 1 = k /\ k <= Len(s)
        BY <2>1
      <3>2. f[k + 1] = IF s[k + 1] \in S THEN Append(f[k], s[k + 1]) ELSE f[k]
        BY <3>1 DEF Selects
      <3>3. f[k] \in Seq(T \cap S) /\ s[k + 1] \in T
        BY <3>1
      <3>4. f[k + 1] \in Seq(T \cap S)
        <4>1. CASE s[k + 1] \in S
          <5>1. s[k + 1] \in T \cap S
            BY <3>3, <4>1
          <5> QED
            BY <3>2, <3>3, <4>1, <5>1, AppendType
        <4>2. CASE s[k + 1] \notin S
          BY <3>2, <3>3, <4>2
        <4> QED
          BY <4>1, <4>2
      <3> QED
        BY <3>4
    <2>2. CASE ~(k + 1 <= Len(s))
      BY <2>2
    <2> QED
      BY <2>1, <2>2
  <1> HIDE DEF P
  <1>3. P = Nat
    <2>1. P \in SUBSET Nat
      BY DEF P
    <2> QED
      BY <1>1, <1>2, <2>1, NumbersOneByOne
  <1> QED
    BY <1>3 DEF P

\* OnlyIn gives a sequence of elements of the set.
LEMMA OnlyInType ==
    ASSUME NEW T, NEW s \in Seq(T), NEW S
    PROVE  OnlyIn(s, S) \in Seq(T \cap S)
  <1>1. Len(s) \in Nat
    OBVIOUS
  <1>2. PICK f : Selects(f, Len(s), s, S) /\ OnlyIn(s, S) = f[Len(s)]
    BY <1>1, OnlyInSelects
  <1>3. \A i \in 0 .. Len(s) : f[i] \in Seq(T \cap S)
    BY <1>2, SelectionType
  <1> QED
    BY <1>1, <1>2, <1>3

\* Of no elements it selects none.
LEMMA OnlyInNothing ==
    ASSUME NEW S
    PROVE  OnlyIn(<<>>, S) = <<>>
  <1>1. Len(<<>>) = 0
    OBVIOUS
  <1>2. PICK f : Selects(f, 0, <<>>, S) /\ OnlyIn(<<>>, S) = f[0]
    BY <1>1, OnlyInSelects
  <1> QED
    BY <1>2 DEF Selects

\* An element more is selected last, if it is in the set.
LEMMA OnlyInAppend ==
    ASSUME NEW T, NEW s \in Seq(T), NEW e \in T, NEW S
    PROVE  OnlyIn(Append(s, e), S) =
               IF e \in S THEN Append(OnlyIn(s, S), e) ELSE OnlyIn(s, S)
  <1> DEFINE t == Append(s, e)
  <1>1. Len(s) \in Nat /\ Len(t) = Len(s) + 1 /\ t[Len(s) + 1] = e
        /\ \A i \in 1 .. Len(s) : s[i] = t[i]
    OBVIOUS
  <1> HIDE DEF t
  <1>2. PICK f : Selects(f, Len(s), s, S) /\ OnlyIn(s, S) = f[Len(s)]
    BY <1>1, OnlyInSelects
  <1>3. PICK g : Selects(g, Len(t), t, S) /\ OnlyIn(t, S) = g[Len(t)]
    BY <1>1, OnlyInSelects
  <1>4. f[Len(s)] = g[Len(s)]
    <2>1. Len(t) \in Nat /\ Len(s) <= Len(t)
      BY <1>1
    <2> QED
      BY <1>1, <1>2, <1>3, <2>1, SelectionsAgree
  <1>5. g[Len(s) + 1] = IF e \in S THEN Append(g[Len(s)], e) ELSE g[Len(s)]
    <2>1. Len(s) + 1 \in 1 .. Len(t) /\ Len(s) + 1 - 1 = Len(s)
      BY <1>1
    <2> QED
      BY <1>1, <1>3, <2>1 DEF Selects
  <1>6. OnlyIn(t, S) = IF e \in S THEN Append(OnlyIn(s, S), e) ELSE OnlyIn(s, S)
    BY <1>1, <1>2, <1>3, <1>4, <1>5
  <1> QED
    BY <1>6 DEF t

\* The sequence s is e and then t.
Begins(s, e, t) == s # <<>> /\ Head(s) = e /\ Tail(s) = t

\* So it stays, when both get an element more.
LEMMA AppendBegins ==
    ASSUME NEW T, NEW s \in Seq(T), NEW e, NEW t, Begins(s, e, t), NEW x \in T
    PROVE  Begins(Append(s, x), e, Append(t, x))
  BY DEF Begins

\* The first element is selected first, if it is in the set, and then what is
\* selected of the others.
LEMMA OnlyInTail ==
    ASSUME NEW T, NEW s \in Seq(T), s # <<>>, NEW S
    PROVE  IF Head(s) \in S THEN Begins(OnlyIn(s, S), Head(s), OnlyIn(Tail(s), S))
           ELSE OnlyIn(s, S) = OnlyIn(Tail(s), S)
  <1> DEFINE t == Tail(s)
             After(x, y) == IF s[1] \in S THEN Begins(x, s[1], y) ELSE x = y
  <1>1. /\ t \in Seq(T)
        /\ Len(s) \in Nat \ {0} /\ Len(t) \in Nat /\ Len(s) = Len(t) + 1
        /\ \A i \in 1 .. Len(t) : t[i] = s[i + 1]
        /\ Head(s) = s[1] /\ s[1] \in T
    OBVIOUS
  <1> HIDE DEF t
  <1>2. PICK f : Selects(f, Len(s), s, S) /\ OnlyIn(s, S) = f[Len(s)]
    BY <1>1, OnlyInSelects
  <1>3. PICK g : Selects(g, Len(t), t, S) /\ OnlyIn(t, S) = g[Len(t)]
    BY <1>1, OnlyInSelects
  <1>4. \A i \in 0 .. Len(s) : f[i] \in Seq(T)
    <2>1. \A i \in 0 .. Len(s) : f[i] \in Seq(T \cap S)
      BY <1>2, SelectionType
    <2>2. \A q \in Seq(T \cap S) : q \in Seq(T)
      OBVIOUS
    <2> QED
      BY <2>1, <2>2
  <1> DEFINE P == {k \in Nat : k <= Len(t) => After(f[k + 1], g[k])}
  <1>5. 0 \in P
    <2>1. f[1] = IF s[1] \in S THEN Append(f[0], s[1]) ELSE f[0]
      <3>1. 1 \in 1 .. Len(s) /\ 1 - 1 = 0
        BY <1>1
      <3> QED
        BY <1>2, <3>1 DEF Selects
    <2>2. f[0] = <<>> /\ g[0] = <<>>
      BY <1>2, <1>3 DEF Selects
    <2>3. Begins(Append(<<>>, s[1]), s[1], <<>>)
      BY DEF Begins
    <2>4. After(f[0 + 1], g[0])
      BY <2>1, <2>2, <2>3
    <2> QED
      BY <2>4
  <1>6. ASSUME NEW k \in P PROVE k + 1 \in P
    <2>1. CASE k + 1 <= Len(t)
      <3>1. /\ k + 1 \in 1 .. Len(t) /\ k + 1 - 1 = k
            /\ k + 2 \in 1 .. Len(s) /\ k + 2 - 1 = k + 1 /\ k + 1 + 1 = k + 2
            /\ k + 1 \in 0 .. Len(s) /\ k \in Nat /\ k <= Len(t)
        BY <1>1, <2>1
      <3>2. g[k + 1] = IF t[k + 1] \in S THEN Append(g[k], t[k + 1]) ELSE g[k]
        BY <1>3, <3>1 DEF Selects
      <3>3. f[k + 2] = IF s[k + 2] \in S THEN Append(f[k + 1], s[k + 2]) ELSE f[k + 1]
        BY <1>2, <3>1 DEF Selects
      <3>4. t[k + 1] = s[k + 2] /\ t[k + 1] \in T
        BY <1>1, <3>1
      <3>5. After(f[k + 1], g[k]) /\ f[k + 1] \in Seq(T)
        BY <1>4, <3>1
      <3> HIDE DEF P
      <3>6. After(f[k + 2], g[k + 1])
        <4>1. CASE t[k + 1] \in S
          <5>1. g[k + 1] = Append(g[k], t[k + 1]) /\ f[k + 2] = Append(f[k + 1], t[k + 1])
            BY <3>2, <3>3, <3>4, <4>1
          <5>2. CASE s[1] \in S
            <6>1. Begins(f[k + 1], s[1], g[k])
              BY <3>5, <5>2
            <6>2. Begins(Append(f[k + 1], t[k + 1]), s[1], Append(g[k], t[k + 1]))
              BY <3>4, <3>5, <6>1, AppendBegins
            <6> QED
              BY <5>1, <5>2, <6>2
          <5>3. CASE s[1] \notin S
            BY <3>5, <5>1, <5>3
          <5> QED
            BY <5>2, <5>3
        <4>2. CASE t[k + 1] \notin S
          BY <3>2, <3>3, <3>4, <3>5, <4>2
        <4> QED
          BY <4>1, <4>2
      <3> HIDE DEF After
      <3>7. k + 1 \in Nat /\ After(f[k + 1 + 1], g[k + 1])
        BY <3>1, <3>6
      <3> QED
        BY <3>7 DEF P
    <2>2. CASE ~(k + 1 <= Len(t))
      BY <2>2
    <2> QED
      BY <2>1, <2>2
  <1> HIDE DEF P
  <1>7. P = Nat
    <2>1. P \in SUBSET Nat
      BY DEF P
    <2> QED
      BY <1>5, <1>6, <2>1, NumbersOneByOne
  <1> HIDE DEF After
  <1>8. After(OnlyIn(s, S), OnlyIn(t, S))
    <2>1. Len(t) \in P
      BY <1>1, <1>7
    <2>2. After(f[Len(t) + 1], g[Len(t)])
      BY <1>1, <2>1 DEF P
    <2> QED
      BY <1>1, <1>2, <1>3, <2>2
  <1> QED
    BY <1>1, <1>8 DEF t, After

\* Element by element.
LEMMA BeginsWith ==
    ASSUME NEW T, NEW s \in Seq(T), NEW e, NEW t, Begins(s, e, t)
    PROVE  /\ t \in Seq(T) /\ Len(s) \in Nat \ {0} /\ Len(t) = Len(s) - 1 /\ s[1] = e
           /\ \A i \in 1 .. Len(t) : t[i] = s[i + 1]
  BY DEF Begins

\* In two sequences one after the other, what the first begins with comes first.
LEMMA BothBegin ==
    ASSUME NEW T, NEW s \in Seq(T), NEW e, NEW t, Begins(s, e, t), NEW r \in Seq(T)
    PROVE  Begins(s \o r, e, t \o r)
  <1> DEFINE both == s \o r
             rest == t \o r
  <1>1. /\ t \in Seq(T) /\ Len(s) \in Nat \ {0} /\ Len(r) \in Nat
        /\ Len(t) = Len(s) - 1 /\ s[1] = e
        /\ \A i \in 1 .. Len(t) : t[i] = s[i + 1]
    BY DEF Begins
  <1>2. /\ both \in Seq(T) /\ Len(both) = Len(s) + Len(r)
        /\ \A i \in 1 .. Len(s) + Len(r) :
              both[i] = IF i <= Len(s) THEN s[i] ELSE r[i - Len(s)]
    BY ConcatProperties
  <1>3. /\ rest \in Seq(T) /\ Len(rest) = Len(t) + Len(r)
        /\ \A i \in 1 .. Len(t) + Len(r) :
              rest[i] = IF i <= Len(t) THEN t[i] ELSE r[i - Len(t)]
    BY <1>1, ConcatProperties
  <1> HIDE DEF both, rest
  <1>4. both # <<>> /\ Head(both) = e
    BY <1>1, <1>2
  <1>5. Tail(both) \in Seq(T) /\ Len(Tail(both)) = Len(rest)
        /\ \A i \in 1 .. Len(rest) : Tail(both)[i] = both[i + 1]
    BY <1>1, <1>2, <1>3
  <1>6. ASSUME NEW i \in 1 .. Len(rest) PROVE both[i + 1] = rest[i]
    <2>1. /\ i \in Nat /\ i + 1 \in 1 .. Len(s) + Len(r) /\ i \in 1 .. Len(t) + Len(r)
          /\ i <= Len(t) <=> i + 1 <= Len(s)
          /\ i + 1 - Len(s) = i - Len(t)
      BY <1>1, <1>3
    <2>2. both[i + 1] = IF i + 1 <= Len(s) THEN s[i + 1] ELSE r[i + 1 - Len(s)]
      BY <1>2, <2>1
    <2>3. rest[i] = IF i <= Len(t) THEN t[i] ELSE r[i - Len(t)]
      BY <1>3, <2>1
    <2>4. i <= Len(t) => t[i] = s[i + 1]
      BY <1>1, <2>1
    <2> QED
      BY <2>1, <2>2, <2>3, <2>4
  <1>7. Tail(both) = rest
    BY <1>3, <1>5, <1>6, SeqEqual
  <1> QED
    BY <1>4, <1>7 DEF both, rest, Begins

\* What moves from the head of the second to the end of the first stays where
\* it is in both.
LEMMA MovesOver ==
    ASSUME NEW T, NEW s \in Seq(T), NEW q \in Seq(T), NEW e \in T, NEW r,
           Begins(q, e, r), NEW more, more = Append(s, e)
    PROVE  more \o r = s \o q
  <1> DEFINE moved == more \o r
             both == s \o q
  <1>1. /\ r \in Seq(T) /\ Len(s) \in Nat /\ Len(q) \in Nat \ {0}
        /\ Len(r) = Len(q) - 1 /\ q[1] = e
        /\ \A i \in 1 .. Len(r) : r[i] = q[i + 1]
    <2>1. Len(s) \in Nat
      OBVIOUS
    <2> QED
      BY <2>1, BeginsWith
  <1>2. /\ more \in Seq(T) /\ Len(more) = Len(s) + 1 /\ more[Len(s) + 1] = e
        /\ \A i \in 1 .. Len(s) : more[i] = s[i]
    OBVIOUS
  <1>3. /\ moved \in Seq(T) /\ Len(moved) = Len(more) + Len(r)
        /\ \A i \in 1 .. Len(more) + Len(r) :
              moved[i] = IF i <= Len(more) THEN more[i] ELSE r[i - Len(more)]
    <2>1. r \in Seq(T)
      BY <1>1
    <2>2. more \in Seq(T)
      BY <1>2
    <2> QED
      BY <2>1, <2>2, ConcatProperties
  <1>4. /\ both \in Seq(T) /\ Len(both) = Len(s) + Len(q)
        /\ \A i \in 1 .. Len(s) + Len(q) :
              both[i] = IF i <= Len(s) THEN s[i] ELSE q[i - Len(s)]
    BY ConcatProperties
  <1> HIDE DEF moved, both
  <1>5. Len(moved) = Len(both)
    BY <1>1, <1>2, <1>3, <1>4
  <1>6. ASSUME NEW i \in 1 .. Len(both) PROVE moved[i] = both[i]
    <2>1. i \in 1 .. Len(s) + Len(q) /\ i \in 1 .. Len(more) + Len(r)
      BY <1>1, <1>2, <1>4
    <2>5. moved[i] = IF i <= Len(s) + 1 THEN more[i] ELSE r[i - (Len(s) + 1)]
      BY <1>2, <1>3, <2>1
    <2>6. both[i] = IF i <= Len(s) THEN s[i] ELSE q[i - Len(s)]
      BY <1>4, <2>1
    <2>2. CASE i <= Len(s)
      <3>1. i \in 1 .. Len(s) /\ i <= Len(s) + 1
        BY <1>1, <2>1, <2>2
      <3> QED
        BY <1>2, <2>2, <2>5, <2>6, <3>1
    <2>3. CASE i = Len(s) + 1
      <3>1. i <= Len(s) + 1 /\ ~(i <= Len(s)) /\ i - Len(s) = 1
        BY <1>1, <2>3
      <3> QED
        BY <1>1, <1>2, <2>3, <2>5, <2>6, <3>1
    <2>4. CASE i > Len(s) + 1
      <3>1. /\ i - (Len(s) + 1) \in 1 .. Len(r) /\ i - (Len(s) + 1) + 1 = i - Len(s)
            /\ ~(i <= Len(s) + 1) /\ ~(i <= Len(s))
        BY <1>1, <2>1, <2>4
      <3>2. r[i - (Len(s) + 1)] = q[i - Len(s)]
        BY <1>1, <3>1
      <3> QED
        BY <2>5, <2>6, <3>1, <3>2
    <2> QED
      BY <1>1, <2>1, <2>2, <2>3, <2>4
  <1>7. moved = both
    BY <1>3, <1>4, <1>5, <1>6, SeqEqual
  <1> QED
    BY <1>7 DEF moved, both

\* An element more in the second is one more in both.
LEMMA AppendToSecond ==
    ASSUME NEW T, NEW s \in Seq(T), NEW q \in Seq(T), NEW e \in T, NEW r,
           r = Append(q, e)
    PROVE  s \o r = Append(s \o q, e)
  OBVIOUS

-----------------------------------------------------------------------------
(* The items of one type among the posted events.                          *)

OfType(type) == {e \in Events : e.type = type}

ItemsOf(q) == [i \in 1 .. Len(q) |-> q[i].item]

\* Posted, in these terms.
LEMMA PostedItems ==
    ASSUME NEW type
    PROVE  Posted(type) = ItemsOf(OnlyIn(posted, OfType(type)))
  BY DEF Posted, ItemsOf, OfType

\* The items of an event more, and of an event less.
LEMMA ItemsFollow ==
    ASSUME NEW T, NEW q \in Seq(T), NEW e \in T
    PROVE  /\ ItemsOf(Append(q, e)) = Append(ItemsOf(q), e.item)
           /\ \A r : Begins(q, e, r) => Begins(ItemsOf(q), e.item, ItemsOf(r))
  <1>1. ItemsOf(Append(q, e)) = Append(ItemsOf(q), e.item)
    <2> DEFINE t == Append(q, e)
    <2>1. Len(q) \in Nat /\ Len(t) = Len(q) + 1 /\ t[Len(q) + 1] = e
          /\ \A i \in 1 .. Len(q) : t[i] = q[i]
      OBVIOUS
    <2> HIDE DEF t
    <2>2. ItemsOf(t) = Append(ItemsOf(q), e.item)
      BY <2>1 DEF ItemsOf
    <2> QED
      BY <2>2 DEF t
  <1>2. ASSUME NEW r, Begins(q, e, r)
        PROVE  Begins(ItemsOf(q), e.item, ItemsOf(r))
    <2>1. /\ Len(q) \in Nat \ {0} /\ Len(r) = Len(q) - 1 /\ q[1] = e
          /\ \A i \in 1 .. Len(r) : r[i] = q[i + 1]
      BY <1>2 DEF Begins
    <2>2. ItemsOf(q) # <<>> /\ Head(ItemsOf(q)) = e.item
      BY <2>1 DEF ItemsOf
    <2>3. Tail(ItemsOf(q)) = ItemsOf(r)
      BY <2>1 DEF ItemsOf
    <2> QED
      BY <2>2, <2>3 DEF Begins
  <1> QED
    BY <1>1, <1>2

\* They are frames, or packets.
LEMMA PostedTypes ==
    ASSUME TypeOK
    PROVE  /\ Posted("frame") \in Seq(Frames)
           /\ Posted("packet") \in Seq(Packets)
  <1>1. ASSUME NEW type, NEW S, \A e \in OfType(type) : e.item \in S
        PROVE  Posted(type) \in Seq(S)
    <2> DEFINE on == OnlyIn(posted, OfType(type))
    <2>1. posted \in Seq(Events)
      BY DEF TypeOK
    <2>2. on \in Seq(Events \cap OfType(type))
      BY <2>1, OnlyInType
    <2>3. \A i \in 1 .. Len(on) : on[i].item \in S
      BY <2>2, <1>1
    <2>4. ItemsOf(on) \in Seq(S)
      BY <2>2, <2>3 DEF ItemsOf
    <2> QED
      BY <2>4, PostedItems
  <1>2. \A e \in OfType("frame") : e.item \in Frames
    BY DEF OfType, Events, Event
  <1>3. \A e \in OfType("packet") : e.item \in Packets
    BY DEF OfType, Events, Event
  <1> QED
    BY <1>1, <1>2, <1>3

\* An event posted is the last of its type.
LEMMA PostedMore ==
    ASSUME TypeOK, NEW e \in Events, posted' = Append(posted, e), NEW type
    PROVE  Posted(type)' = IF e.type = type THEN Append(Posted(type), e.item)
                           ELSE Posted(type)
  <1> DEFINE on == OnlyIn(posted, OfType(type))
  <1>1. posted \in Seq(Events)
    BY DEF TypeOK
  <1>2. on \in Seq(Events \cap OfType(type))
    BY <1>1, OnlyInType
  <1>3. e \in OfType(type) <=> e.type = type
    BY DEF OfType
  <1>4. OnlyIn(posted', OfType(type)) = IF e \in OfType(type) THEN Append(on, e) ELSE on
    BY <1>1, OnlyInAppend
  <1>5. Posted(type)' = ItemsOf(OnlyIn(posted', OfType(type)))
    BY DEF Posted, ItemsOf, OfType
  <1> HIDE DEF on
  <1>6. CASE e.type = type
    <2>1. e \in Events \cap OfType(type) /\ OnlyIn(posted', OfType(type)) = Append(on, e)
      BY <1>3, <1>4, <1>6
    <2>2. ItemsOf(Append(on, e)) = Append(ItemsOf(on), e.item)
      BY <1>2, <2>1, ItemsFollow
    <2> QED
      BY <1>5, <1>6, <2>1, <2>2, PostedItems DEF on
  <1>7. CASE e.type # type
    BY <1>3, <1>4, <1>5, <1>7, PostedItems DEF on
  <1> QED
    BY <1>6, <1>7

\* An event served was the first of its type.
LEMMA PostedLess ==
    ASSUME TypeOK, NEW served, Serve(served), NEW type
    PROVE  IF served = type
           THEN Begins(Posted(type), Head(posted).item, Posted(type)')
           ELSE Posted(type)' = Posted(type)
  <1> DEFINE on == OnlyIn(posted, OfType(type))
             left == OnlyIn(Tail(posted), OfType(type))
             e == Head(posted)
  <1>1. posted \in Seq(Events) /\ posted # <<>> /\ posted' = Tail(posted)
        /\ e.type = served
    BY DEF TypeOK, Serve
  <1>2. e \in Events
    BY <1>1, HeadTail
  <1>3. on \in Seq(Events)
    <2>1. on \in Seq(Events \cap OfType(type))
      BY <1>1, OnlyInType
    <2>2. \A q \in Seq(Events \cap OfType(type)) : q \in Seq(Events)
      OBVIOUS
    <2> QED
      BY <2>1, <2>2
  <1>4. e \in OfType(type) <=> served = type
    BY <1>1, <1>2 DEF OfType
  <1>5. IF e \in OfType(type) THEN Begins(on, e, left) ELSE on = left
    BY <1>1, OnlyInTail
  <1>6. Posted(type) = ItemsOf(on) /\ Posted(type)' = ItemsOf(left)
    BY <1>1, PostedItems DEF Posted, ItemsOf, OfType
  <1> HIDE DEF on, left, e
  <1>7. CASE served = type
    <2>1. Begins(ItemsOf(on), e.item, ItemsOf(left))
      BY <1>2, <1>3, <1>4, <1>5, <1>7, ItemsFollow
    <2> QED
      BY <1>6, <1>7, <2>1 DEF e
  <1>8. CASE served # type
    BY <1>4, <1>5, <1>6, <1>8
  <1> QED
    BY <1>7, <1>8

-----------------------------------------------------------------------------
(* The refinement.                                                         *)

\* What is in each of the two pipes.
UpContents == IF Gone THEN <<>>
              ELSE Posted("frame") \o OnlyIn(loraQue, Frames \ Overdue)

DownContents == IF Gone THEN <<>>
                ELSE Posted("packet") \o queryDataToSend

UpStep == [Up!Next]_<<UpContents, PipeState>>

DownStep == [Down!Next]_<<DownContents, PipeState>>

\* The main thread does not leave an enqueue unfinished.
NothingAdded == Gone => adding = "none"

PipeInv == TypeInv /\ NothingAdded

\* The pipes' state, for each place the main thread may be at.
LEMMA PipeStates ==
    ASSUME TypeOK, ~raced
    PROVE  /\ main \in {"start", "exec"} => PipeState = "open"
           /\ main = "wait" => PipeState = "closing"
           /\ Gone => PipeState = "closed"
           /\ ~Gone => PipeState \in {"open", "closing"}
  BY DEF TypeOK, PipeState, Gone

\* Every step leaves no enqueue unfinished.
LEMMA NextKeepsPipeInv == PipeInv /\ [Next]_vars => PipeInv'
  <1> SUFFICES ASSUME PipeInv, [Next]_vars PROVE PipeInv'
    OBVIOUS
  <1>1. TypeInv'
    BY NextKeepsType DEF PipeInv
  <1>2. NothingAdded'
    <2> USE DEF PipeInv, NothingAdded, Gone, MainUnchanged, ThreadUnchanged, que, Goes,
                Serve, Looping, Running
    <2>1. CASE UNCHANGED vars
      BY <2>1 DEF vars
    <2>2. CASE MainStep
      BY <2>2 DEF MainStep, Served, Exec, EnqueueEnds, TransitFrame,
                  SendMessageToNetServer, QuitThread, WaitEnds
    <2>3. CASE OnTextMessageReceived \/ AddDataToQuery
      BY <2>3 DEF OnTextMessageReceived, AddDataToQuery
    <2>4. CASE ExitQt \/ WaitCutShort \/ Exit \/ DeleteParser \/ RaceKills
               \/ UseOfDestroyedQueue
      BY <2>4 DEF ExitQt, WaitCutShort, Exit, DeleteParser, RaceKills,
                  UseOfDestroyedQueue
    <2>5. CASE ThreadStep
      BY <2>5 DEF ThreadStep, StartParser, Iterate, SeesFrame, SeesNoFrame, TakeFrame,
                  SeesPacket, SeesNoPacket, TakePacket, ParserStops, ThreadEnds
    <2> QED
      BY <2>1, <2>2, <2>3, <2>4, <2>5 DEF Next
  <1> QED
    BY <1>1, <1>2 DEF PipeInv

\* A broken pipe stays broken, and what is in it is of no account.
LEMMA RacedStep ==
    ASSUME raced, raced'
    PROVE  UpStep /\ DownStep
  <1>1. PipeState = "broken" /\ PipeState' = "broken"
    BY DEF PipeState
  <1>2. Up!Broken /\ Down!Broken
    BY <1>1 DEF Up!Broken, Down!Broken
  <1> QED
    BY <1>2 DEF UpStep, DownStep, Up!Next, Down!Next

\* The pipes' state depends on where the main thread is.
LEMMA PipeStateKept ==
    ASSUME ~raced, ~raced',
           \/ main' = main
           \/ main \in {"start", "exec"} /\ main' \in {"start", "exec"}
           \/ Gone /\ Gone'
    PROVE  PipeState' = PipeState
  <1> DEFINE StateAt(m) == CASE m \in {"start", "exec"}  -> "open"
                             [] m = "wait"               -> "closing"
                             [] m \in {"gone", "exited"} -> "closed"
  <1>1. PipeState = StateAt(main) /\ PipeState' = StateAt(main')
    BY DEF PipeState, Gone
  <1>2. CASE main' = main
    BY <1>1, <1>2
  <1>3. CASE main \in {"start", "exec"} /\ main' \in {"start", "exec"}
    BY <1>1, <1>3
  <1>4. CASE Gone /\ Gone'
    BY <1>1, <1>4 DEF Gone
  <1> QED
    BY <1>2, <1>3, <1>4

\* Where neither the queues nor the events nor the main thread change, the
\* pipes stutter, or break.
LEMMA SameContents ==
    ASSUME PipeInv, ~raced, UNCHANGED <<posted, loraQue, queryDataToSend, main>>,
           raced' => ~Gone, raced' \in BOOLEAN
    PROVE  UpStep /\ DownStep
  <1>1. UNCHANGED <<UpContents, DownContents>>
    BY DEF UpContents, DownContents, Posted, OnlyIn, Gone
  <1>2. CASE raced'
    <2>1. PipeState \in {"open", "closing"} /\ PipeState' = "broken"
      BY <1>2, PipeStates DEF PipeState, PipeInv, TypeInv
    <2>2. Up!Break /\ Down!Break
      BY <1>1, <2>1 DEF Up!Break, Down!Break, Up!Works, Down!Works, UpContents,
                        DownContents
    <2> QED
      BY <2>2 DEF UpStep, DownStep, Up!Next, Down!Next
  <1>3. CASE ~raced'
    <2>1. UNCHANGED PipeState
      BY <1>3, PipeStateKept
    <2> QED
      BY <1>1, <2>1 DEF UpStep, DownStep
  <1> QED
    BY <1>2, <1>3

\* So it is where the main thread moves on within one state of the pipes.
LEMMA SameState ==
    ASSUME PipeInv, ~raced, ~raced', UNCHANGED <<posted, loraQue, queryDataToSend>>,
           \/ main \in {"start", "exec"} /\ main' \in {"start", "exec"}
           \/ Gone /\ Gone'
    PROVE  UpStep /\ DownStep
  <1>1. UNCHANGED <<UpContents, DownContents>>
    <2>1. Gone' = Gone
      BY DEF Gone
    <2>2. Posted("frame")' = Posted("frame") /\ Posted("packet")' = Posted("packet")
          /\ OnlyIn(loraQue, Frames \ Overdue)' = OnlyIn(loraQue, Frames \ Overdue)
      BY DEF Posted, OnlyIn
    <2> QED
      BY <2>1, <2>2 DEF UpContents, DownContents
  <1>2. UNCHANGED PipeState
    BY PipeStateKept
  <1> QED
    BY <1>1, <1>2 DEF UpStep, DownStep

\* What is in the pipes, of which type.
LEMMA ContentTypes ==
    ASSUME TypeOK
    PROVE  /\ Posted("frame") \in Seq(Frames) /\ Posted("packet") \in Seq(Packets)
           /\ loraQue \in Seq(Frames) /\ queryDataToSend \in Seq(Packets)
           /\ OnlyIn(loraQue, Frames \ Overdue) \in Seq(Frames)
  <1>1. loraQue \in Seq(Frames) /\ queryDataToSend \in Seq(Packets)
    BY DEF TypeOK
  <1>2. OnlyIn(loraQue, Frames \ Overdue) \in Seq(Frames)
    <2>1. OnlyIn(loraQue, Frames \ Overdue) \in Seq(Frames \cap (Frames \ Overdue))
      BY <1>1, OnlyInType
    <2>2. \A q \in Seq(Frames \cap (Frames \ Overdue)) : q \in Seq(Frames)
      OBVIOUS
    <2> QED
      BY <2>1, <2>2
  <1> QED
    BY <1>1, <1>2, PostedTypes

\* A step of a pipe that works: something is put in, taken out, or neither.
LEMMA WorkingPipes ==
    ASSUME TypeOK, ~raced, ~raced', ~Gone, main' = main
    PROVE  /\ UpContents' = UpContents => UpStep
           /\ DownContents' = DownContents => DownStep
           /\ \A f \in Frames : UpContents' = Append(UpContents, f) => UpStep
           /\ \A p \in Packets : DownContents' = Append(DownContents, p) => DownStep
           /\ \A e : Begins(UpContents, e, UpContents') => UpStep
           /\ \A e : Begins(DownContents, e, DownContents') => DownStep
  <1>1. PipeState \in {"open", "closing"}
    BY PipeStates
  <1>2. UNCHANGED PipeState
    BY PipeStateKept
  <1>3. Up!Works /\ Down!Works
    BY <1>1 DEF Up!Works, Down!Works
  <1>4. ASSUME NEW f \in Frames, UpContents' = Append(UpContents, f) PROVE UpStep
    <2>1. Up!Put
      BY <1>2, <1>3, <1>4 DEF Up!Put, UpContents
    <2> QED
      BY <2>1 DEF UpStep, Up!Next
  <1>5. ASSUME NEW p \in Packets, DownContents' = Append(DownContents, p) PROVE DownStep
    <2>1. Down!Put
      BY <1>2, <1>3, <1>5 DEF Down!Put, DownContents
    <2> QED
      BY <2>1 DEF DownStep, Down!Next
  <1>6. ASSUME NEW e, Begins(UpContents, e, UpContents') PROVE UpStep
    <2>1. Up!Take
      BY <1>2, <1>3, <1>6 DEF Up!Take, UpContents, Begins
    <2> QED
      BY <2>1 DEF UpStep, Up!Next
  <1>7. ASSUME NEW e, Begins(DownContents, e, DownContents') PROVE DownStep
    <2>1. Down!Take
      BY <1>2, <1>3, <1>7 DEF Down!Take, DownContents, Begins
    <2> QED
      BY <2>1 DEF DownStep, Down!Next
  <1> QED
    BY <1>2, <1>4, <1>5, <1>6, <1>7 DEF UpStep, DownStep

\* The pipes of a program that has gone are closed and empty.
LEMMA ClosedPipes ==
    ASSUME ~raced, ~raced', Gone, main' = main
    PROVE  UpStep /\ DownStep
  <1>1. UNCHANGED PipeState
    BY PipeStateKept
  <1>2. UNCHANGED <<UpContents, DownContents>>
    BY DEF UpContents, DownContents, Gone
  <1> QED
    BY <1>1, <1>2 DEF UpStep, DownStep

\* What the main thread does while no queue is raced: it puts the item of an
\* enqueue in, takes a served event out, closes the pipes and drops the rest.
LEMMA MainStepRefines ==
    ASSUME PipeInv, ~raced,
           MainStep \/ OnTextMessageReceived \/ AddDataToQuery \/ ExitQt
           \/ WaitCutShort \/ Exit
    PROVE  UpStep /\ DownStep
  <1> USE DEF PipeInv, NothingAdded, MainUnchanged, ThreadUnchanged, que
  <1>0. TypeOK /\ TypeInv' /\ raced' \in BOOLEAN
    BY MainKeepsType DEF TypeInv, TypeOK
  <1>1. CASE Exec
    BY <1>1, SameState DEF Exec
  <1>2. CASE OnTextMessageReceived
    BY <1>0, <1>2, SameContents DEF OnTextMessageReceived, Looping, Gone
  <1>3. CASE AddDataToQuery
    <2>1. UNCHANGED <<posted, loraQue, queryDataToSend, main>> /\ ~Gone
      BY <1>3 DEF AddDataToQuery, Looping, Gone
    <2> QED
      BY <1>0, <2>1, SameContents
  <1>4. CASE EnqueueEnds
    <2>1. ~raced' /\ ~Gone /\ UNCHANGED <<main, posted>>
      BY <1>4 DEF EnqueueEnds
    <2>2. Posted("frame")' = Posted("frame") /\ Posted("packet")' = Posted("packet")
      BY <2>1 DEF Posted, OnlyIn
    <2>3. ~Gone'
      BY <2>1 DEF Gone
    <2>4. CASE adding = "lora"
      <3>1. loraQue' = Append(loraQue, received) /\ UNCHANGED queryDataToSend
        BY <1>4, <2>4 DEF EnqueueEnds, Appended
      <3>2. received \in Frames
        BY <2>4, ParserAssumption DEF TypeInv, TypeOK, AddsAnItem, Frames
      <3>3. OnlyIn(loraQue, Frames \ Overdue)' =
                IF received \in Overdue THEN OnlyIn(loraQue, Frames \ Overdue)
                ELSE Append(OnlyIn(loraQue, Frames \ Overdue), received)
        <4>1. OnlyIn(Append(loraQue, received), Frames \ Overdue) =
                  IF received \in Frames \ Overdue
                  THEN Append(OnlyIn(loraQue, Frames \ Overdue), received)
                  ELSE OnlyIn(loraQue, Frames \ Overdue)
          BY <1>0, <3>2, ContentTypes, OnlyInAppend
        <4>2. OnlyIn(loraQue, Frames \ Overdue)' =
                  OnlyIn(Append(loraQue, received), Frames \ Overdue)
          BY <3>1 DEF OnlyIn
        <4> QED
          BY <3>2, <4>1, <4>2
      <3>4. DownContents' = DownContents
        BY <2>1, <2>2, <2>3, <3>1 DEF DownContents
      <3>5. CASE received \in Overdue
        <4>1. UpContents' = UpContents
          BY <2>1, <2>2, <2>3, <3>3, <3>5 DEF UpContents
        <4> QED
          BY <1>0, <2>1, <3>4, <4>1, WorkingPipes
      <3>6. CASE received \notin Overdue
        <4>1. Posted("frame") \o Append(OnlyIn(loraQue, Frames \ Overdue), received)
                  = Append(UpContents, received)
          BY <1>0, <2>1, <3>2, ContentTypes, AppendToSecond DEF UpContents
        <4>2. UpContents' = Append(UpContents, received)
          BY <2>2, <2>3, <3>3, <3>6, <4>1 DEF UpContents
        <4> QED
          BY <1>0, <2>1, <3>2, <3>4, <4>2, WorkingPipes
      <3> QED
        BY <3>5, <3>6
    <2>5. CASE adding = "query"
      <3>1. queryDataToSend' = Append(queryDataToSend, requested) /\ UNCHANGED loraQue
        BY <1>4, <2>5 DEF EnqueueEnds, Appended
      <3>2. requested \in Packets
        BY <2>5, ParserAssumption DEF TypeInv, TypeOK, AddsAnItem, Packets
      <3>3. UpContents' = UpContents
        <4>1. OnlyIn(loraQue, Frames \ Overdue)' = OnlyIn(loraQue, Frames \ Overdue)
          BY <3>1 DEF OnlyIn
        <4> QED
          BY <2>1, <2>2, <2>3, <4>1 DEF UpContents
      <3>4. Posted("packet") \o Append(queryDataToSend, requested)
                = Append(DownContents, requested)
        BY <1>0, <2>1, <3>2, ContentTypes, AppendToSecond DEF DownContents
      <3>5. DownContents' = Append(DownContents, requested)
        BY <2>2, <2>3, <3>1, <3>4 DEF DownContents
      <3> QED
        BY <1>0, <2>1, <3>2, <3>3, <3>5, WorkingPipes
    <2> QED
      BY <1>4, <2>4, <2>5 DEF EnqueueEnds
  <1>5. ASSUME NEW served, Serve(served)
        PROVE  /\ UNCHANGED <<loraQue, queryDataToSend, raced>> /\ ~Gone
               /\ ~Gone' /\ served \notin {"frame", "packet"} =>
                      UNCHANGED <<UpContents, DownContents>>
               /\ ~Gone' /\ served = "frame" =>
                      /\ Begins(UpContents, Head(posted).item, UpContents')
                      /\ UNCHANGED DownContents
               /\ ~Gone' /\ served = "packet" =>
                      /\ Begins(DownContents, Head(posted).item, DownContents')
                      /\ UNCHANGED UpContents
    <2>1. UNCHANGED <<loraQue, queryDataToSend, raced>> /\ ~Gone
      BY <1>5 DEF Serve, Looping, Gone
    <2>2. OnlyIn(loraQue, Frames \ Overdue)' = OnlyIn(loraQue, Frames \ Overdue)
      BY <2>1 DEF OnlyIn
    <2>3. served # "frame" => Posted("frame")' = Posted("frame")
      BY <1>0, <1>5, PostedLess
    <2>4. served # "packet" => Posted("packet")' = Posted("packet")
      BY <1>0, <1>5, PostedLess
    <2>5. ~Gone' /\ served # "frame" => UNCHANGED UpContents
      BY <2>1, <2>2, <2>3 DEF UpContents
    <2>6. ~Gone' /\ served # "packet" => UNCHANGED DownContents
      BY <2>1, <2>4 DEF DownContents
    <2>7. ASSUME ~Gone', served = "frame"
          PROVE  Begins(UpContents, Head(posted).item, UpContents')
      <3>1. Begins(Posted("frame"), Head(posted).item, Posted("frame")')
        BY <1>0, <1>5, <2>7, PostedLess
      <3>2. Begins(Posted("frame") \o OnlyIn(loraQue, Frames \ Overdue),
                   Head(posted).item,
                   Posted("frame")' \o OnlyIn(loraQue, Frames \ Overdue))
        BY <1>0, <3>1, ContentTypes, BothBegin
      <3> QED
        BY <2>1, <2>2, <2>7, <3>2 DEF UpContents
    <2>8. ASSUME ~Gone', served = "packet"
          PROVE  Begins(DownContents, Head(posted).item, DownContents')
      <3>1. Begins(Posted("packet"), Head(posted).item, Posted("packet")')
        BY <1>0, <1>5, <2>8, PostedLess
      <3>2. Begins(Posted("packet") \o queryDataToSend, Head(posted).item,
                   Posted("packet")' \o queryDataToSend)
        BY <1>0, <3>1, ContentTypes, BothBegin
      <3> QED
        BY <2>1, <2>8, <3>2 DEF DownContents
    <2> QED
      BY <2>1, <2>5, <2>6, <2>7, <2>8
  <1>6. CASE TransitFrame \/ SendMessageToNetServer \/ QuitThread
    <2>1. PICK served \in {"frame", "packet", "finished"} : Serve(served)
      BY <1>6 DEF TransitFrame, SendMessageToNetServer, QuitThread
    <2>2. main' = main
      BY <1>6 DEF TransitFrame, SendMessageToNetServer, QuitThread
    <2>3. ~Gone /\ ~Gone' /\ ~raced'
      BY <1>5, <2>1, <2>2 DEF Gone
    <2> QED
      BY <1>0, <1>5, <2>1, <2>2, <2>3, WorkingPipes
  <1>7. CASE WaitEnds \/ WaitCutShort
    <2>1. main = "wait" /\ main' = "gone" /\ ~raced'
      BY <1>7 DEF WaitEnds, WaitCutShort, Serve
    <2>2. PipeState = "closing" /\ PipeState' = "closed"
      <3>1. PipeState' = "closed"
        BY <2>1 DEF PipeState, Gone
      <3> QED
        BY <1>0, <2>1, <3>1, PipeStates
    <2>3. UpContents' = <<>> /\ DownContents' = <<>>
      BY <2>1 DEF UpContents, DownContents, Gone
    <2>4. Up!Drop /\ Down!Drop
      BY <2>2, <2>3 DEF Up!Drop, Down!Drop, UpContents, DownContents
    <2> QED
      BY <2>4 DEF UpStep, DownStep, Up!Next, Down!Next
  <1>8. CASE ExitQt
    <2>1. main = "exec" /\ main' = "wait" /\ ~raced'
          /\ UNCHANGED <<posted, loraQue, queryDataToSend>>
      BY <1>8 DEF ExitQt
    <2>2. PipeState = "open" /\ PipeState' = "closing"
      <3>1. PipeState' = "closing"
        BY <2>1 DEF PipeState, Gone
      <3> QED
        BY <1>0, <2>1, <3>1, PipeStates
    <2>3. UNCHANGED <<UpContents, DownContents>>
      <3>1. ~Gone /\ ~Gone'
        BY <2>1 DEF Gone
      <3>2. /\ Posted("frame")' = Posted("frame") /\ Posted("packet")' = Posted("packet")
            /\ OnlyIn(loraQue, Frames \ Overdue)' = OnlyIn(loraQue, Frames \ Overdue)
        BY <2>1 DEF Posted, OnlyIn
      <3> QED
        BY <2>1, <3>1, <3>2 DEF UpContents, DownContents
    <2>4. Up!Close /\ Down!Close
      BY <2>2, <2>3 DEF Up!Close, Down!Close, UpContents, DownContents
    <2> QED
      BY <2>4 DEF UpStep, DownStep, Up!Next, Down!Next
  <1>9. CASE Exit
    BY <1>9, SameState DEF Exit, Gone
  <1> QED
    BY <1>1, <1>2, <1>3, <1>4, <1>6, <1>7, <1>8, <1>9 DEF MainStep, Served

\* What the parser thread does while no queue is raced leaves what is in the
\* pipes where it is: a taken item becomes the last event of its type, and the
\* first item behind the events of its type is the one taken.
LEMMA ThreadStepRefines ==
    ASSUME PipeInv, ~raced,
           ThreadStep \/ DeleteParser \/ RaceKills \/ UseOfDestroyedQueue
    PROVE  UpStep /\ DownStep
  <1> USE DEF PipeInv, NothingAdded, MainUnchanged, ThreadUnchanged, que, Goes
  <1>0. TypeOK /\ TypeInv' /\ raced' \in BOOLEAN
    BY ThreadKeepsType DEF TypeInv, TypeOK
  <1>1. CASE StartParser \/ Iterate \/ SeesFrame \/ SeesNoFrame \/ SeesPacket
             \/ SeesNoPacket
    <2>1. UNCHANGED <<posted, loraQue, queryDataToSend, main>>
      BY <1>1 DEF StartParser, Iterate, SeesFrame, SeesNoFrame, SeesPacket, SeesNoPacket
    <2>2. raced' => adding # "none"
      BY <1>1 DEF StartParser, Iterate, SeesFrame, SeesNoFrame, SeesPacket, SeesNoPacket
    <2> QED
      BY <1>0, <2>1, <2>2, SameContents
  <1>2. CASE DeleteParser \/ RaceKills \/ UseOfDestroyedQueue
    <2>1. UNCHANGED <<posted, loraQue, queryDataToSend, main>> /\ ~raced'
      BY <1>2 DEF DeleteParser, RaceKills, UseOfDestroyedQueue
    <2> QED
      BY <1>0, <2>1, SameContents
  <1>3. CASE ~raced' /\ UNCHANGED main /\ Gone
    BY <1>3, ClosedPipes
  <1>4. CASE ParserStops \/ ThreadEnds
    <2>1. PICK type \in {"finished", "threadFinished"} :
              posted' = Append(posted, Event(type, 0))
      BY <1>4 DEF ParserStops, ThreadEnds
    <2>2. UNCHANGED <<loraQue, queryDataToSend, main>> /\ ~raced'
      BY <1>4 DEF ParserStops, ThreadEnds
    <2>3. Event(type, 0) \in Events /\ Event(type, 0).type = type
      BY EventTypes DEF Event
    <2>4. Posted("frame")' = Posted("frame") /\ Posted("packet")' = Posted("packet")
      BY <1>0, <2>1, <2>3, PostedMore
    <2>5. OnlyIn(loraQue, Frames \ Overdue)' = OnlyIn(loraQue, Frames \ Overdue)
      BY <2>2 DEF OnlyIn
    <2>6. Gone' = Gone
      BY <2>2 DEF Gone
    <2>7. UNCHANGED <<UpContents, DownContents>>
      BY <2>2, <2>4, <2>5, <2>6 DEF UpContents, DownContents
    <2> QED
      BY <1>0, <1>3, <2>2, <2>7, WorkingPipes
  <1>5. CASE TakeFrame
    <2>1. /\ loraQue # <<>> /\ loraQue' = Tail(loraQue)
          /\ UNCHANGED <<queryDataToSend, main, raced>>
          /\ posted' = IF Head(loraQue) \in Overdue THEN posted
                       ELSE Append(posted, Event("frame", Head(loraQue)))
          /\ main # "gone"
      BY <1>5 DEF TakeFrame, Dequeued, LoraQueExists
    <2>2. Gone' = Gone
      BY <2>1 DEF Gone
    <2> DEFINE f == Head(loraQue)
               on == OnlyIn(loraQue, Frames \ Overdue)
               left == OnlyIn(Tail(loraQue), Frames \ Overdue)
    <2>3. f \in Frames
      BY <1>0, <2>1, HeadTail DEF TypeOK
    <2>4. IF f \notin Overdue THEN Begins(on, f, left) ELSE on = left
      BY <1>0, <2>1, <2>3, ContentTypes, OnlyInTail
    <2>5. OnlyIn(loraQue, Frames \ Overdue)' = left
      BY <2>1 DEF OnlyIn
    <2>6. /\ Posted("frame")' = IF f \in Overdue THEN Posted("frame")
                                ELSE Append(Posted("frame"), f)
          /\ Posted("packet")' = Posted("packet")
      <3>1. CASE f \in Overdue
        <4>1. posted' = posted
          BY <2>1, <3>1
        <4>2. Posted("frame")' = Posted("frame") /\ Posted("packet")' = Posted("packet")
          BY <4>1 DEF Posted, OnlyIn
        <4> QED
          BY <3>1, <4>2
      <3>2. CASE f \notin Overdue
        <4>2. posted' = Append(posted, Event("frame", f))
          BY <2>1, <3>2
        <4>1. Event("frame", f) \in Events /\ Event("frame", f).type = "frame"
              /\ Event("frame", f).item = f
          BY <2>3, <3>2, EventTypes DEF Event
        <4>3. /\ Posted("frame")' = Append(Posted("frame"), f)
              /\ Posted("packet")' = Posted("packet")
          BY <1>0, <4>1, <4>2, PostedMore
        <4> QED
          BY <3>2, <4>3
      <3> QED
        BY <3>1, <3>2
    <2> HIDE DEF on, left, f
    <2>7. (Posted("frame") \o OnlyIn(loraQue, Frames \ Overdue))' = Posted("frame") \o on
      <3>1. CASE f \in Overdue
        BY <2>4, <2>5, <2>6, <3>1
      <3>2. CASE f \notin Overdue
        <4>1. Posted("frame")' = Append(Posted("frame"), f)
          BY <2>6, <3>2
        <4>2. on \in Seq(Frames) /\ Posted("frame") \in Seq(Frames)
          BY <1>0, ContentTypes DEF on
        <4>3. Posted("frame")' \o left = Posted("frame") \o on
          BY <2>3, <2>4, <3>2, <4>1, <4>2, MovesOver
        <4> QED
          BY <2>5, <4>3
      <3> QED
        BY <3>1, <3>2
    <2>8. UNCHANGED <<UpContents, DownContents>>
      <3>1. DownContents' = DownContents
        BY <2>1, <2>2, <2>6 DEF DownContents
      <3>2. UpContents' = UpContents
        BY <2>2, <2>7 DEF UpContents, on
      <3> QED
        BY <3>1, <3>2
    <2> QED
      BY <1>0, <1>3, <2>1, <2>8, WorkingPipes
  <1>6. CASE TakePacket
    <2>1. /\ queryDataToSend # <<>> /\ queryDataToSend' = Tail(queryDataToSend)
          /\ UNCHANGED <<loraQue, main, raced>>
          /\ posted' = Append(posted, Event("packet", Head(queryDataToSend)))
      BY <1>6 DEF TakePacket, Dequeued
    <2>2. Gone' = Gone
      BY <2>1 DEF Gone
    <2> DEFINE p == Head(queryDataToSend)
               left == Tail(queryDataToSend)
    <2>3. p \in Packets
      BY <1>0, <2>1, HeadTail DEF TypeOK
    <2>4. Begins(queryDataToSend, p, left)
      BY <2>1 DEF Begins
    <2>5. Event("packet", p) \in Events /\ Event("packet", p).type = "packet"
          /\ Event("packet", p).item = p
      BY <2>3, EventTypes DEF Event
    <2>6. Posted("packet")' = Append(Posted("packet"), p)
          /\ Posted("frame")' = Posted("frame")
      BY <1>0, <2>1, <2>5, PostedMore
    <2> HIDE DEF p, left
    <2>7. Posted("packet")' \o left = Posted("packet") \o queryDataToSend
      <3>1. queryDataToSend \in Seq(Packets) /\ Posted("packet") \in Seq(Packets)
        BY <1>0, ContentTypes
      <3> QED
        BY <2>3, <2>4, <2>6, <3>1, MovesOver
    <2>8. OnlyIn(loraQue, Frames \ Overdue)' = OnlyIn(loraQue, Frames \ Overdue)
      BY <2>1 DEF OnlyIn
    <2>9. UNCHANGED <<UpContents, DownContents>>
      <3>1. DownContents' = DownContents
        BY <2>1, <2>2, <2>7 DEF DownContents, left
      <3>2. UpContents' = UpContents
        BY <2>2, <2>6, <2>8 DEF UpContents
      <3> QED
        BY <3>1, <3>2
    <2> QED
      BY <1>0, <1>3, <2>1, <2>9, WorkingPipes
  <1> QED
    BY <1>1, <1>2, <1>4, <1>5, <1>6 DEF ThreadStep

\* A race is never forgotten.
LEMMA RacedStays == raced /\ [Next]_vars => raced'
  <1> SUFFICES ASSUME raced, [Next]_vars PROVE raced'
    OBVIOUS
  <1> USE DEF que, Serve, Goes
  <1>1. CASE UNCHANGED vars
    BY <1>1 DEF vars
  <1>2. CASE MainStep \/ OnTextMessageReceived \/ AddDataToQuery \/ ExitQt
             \/ WaitCutShort \/ Exit
    BY <1>2 DEF MainStep, Served, Exec, EnqueueEnds, TransitFrame,
                SendMessageToNetServer, QuitThread, WaitEnds, OnTextMessageReceived,
                AddDataToQuery, ExitQt, WaitCutShort, Exit
  <1>3. CASE ThreadStep \/ DeleteParser \/ RaceKills \/ UseOfDestroyedQueue
    BY <1>3 DEF ThreadStep, StartParser, Iterate, SeesFrame, SeesNoFrame, TakeFrame,
                SeesPacket, SeesNoPacket, TakePacket, ParserStops, ThreadEnds,
                DeleteParser, RaceKills, UseOfDestroyedQueue
  <1> QED
    BY <1>1, <1>2, <1>3 DEF Next

\* Every step is one of both pipes.
LEMMA NextRefines == PipeInv /\ [Next]_vars => UpStep /\ DownStep
  <1> SUFFICES ASSUME PipeInv, [Next]_vars PROVE UpStep /\ DownStep
    OBVIOUS
  <1>1. CASE raced
    BY <1>1, RacedStays, RacedStep
  <1>2. CASE ~raced /\ UNCHANGED vars
    <2>1. UNCHANGED <<posted, loraQue, queryDataToSend, main>> /\ ~raced'
      BY <1>2 DEF vars, que
    <2>2. raced' \in BOOLEAN
      BY NextKeepsType DEF PipeInv, TypeInv, TypeOK
    <2> QED
      BY <1>2, <2>1, <2>2, SameContents
  <1>3. CASE ~raced /\ Next
    BY <1>3, MainStepRefines, ThreadStepRefines DEF Next
  <1> QED
    BY <1>1, <1>2, <1>3

\* Until two operations on one queue overlap, the parser thread and its
\* queues are two pipes: frames reach the transit slots, and packets the
\* websocket, once each and in the order they came.
THEOREM ImplementsPipes == Spec => FollowsPipes
  <1>1. Init => PipeInv
    <2>1. Init => NothingAdded
      BY DEF Init, NothingAdded
    <2> QED
      BY <2>1, InitType DEF PipeInv
  <1>2. Init => Up!Init /\ Down!Init
    <2> SUFFICES ASSUME Init PROVE Up!Init /\ Down!Init
      OBVIOUS
    <2>1. posted = <<>> /\ loraQue = <<>> /\ queryDataToSend = <<>> /\ ~raced
          /\ main = "start"
      BY DEF Init
    <2>2. OnlyIn(loraQue, Frames \ Overdue) = <<>>
      BY <2>1, OnlyInNothing
    <2>3. \A type : Posted(type) = <<>>
      BY <2>1, OnlyInNothing, PostedItems DEF ItemsOf
    <2>4. PipeState = "open" /\ ~Gone
      BY <2>1 DEF PipeState, Gone
    <2>5. UpContents = <<>> /\ DownContents = <<>>
      BY <2>1, <2>2, <2>3, <2>4 DEF UpContents, DownContents
    <2> QED
      BY <2>4, <2>5 DEF Up!Init, Down!Init, UpContents, DownContents
  <1>3. Spec => []PipeInv
    BY <1>1, NextKeepsPipeInv, PTL DEF Spec
  <1>4. UpStep <=> [Up!Next]_<<IF Gone THEN <<>>
                               ELSE Posted("frame") \o OnlyIn(loraQue, Frames \ Overdue),
                               PipeState>>
    BY DEF UpStep, UpContents
  <1>5. DownStep <=> [Down!Next]_<<IF Gone THEN <<>>
                                   ELSE Posted("packet") \o queryDataToSend, PipeState>>
    BY DEF DownStep, DownContents
  <1> QED
    BY <1>2, <1>3, <1>4, <1>5, NextRefines, PTL DEF Spec, FollowsPipes, Up!Spec, Down!Spec

=============================================================================
