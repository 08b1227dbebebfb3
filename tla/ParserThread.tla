----------------------------- MODULE ParserThread -----------------------------
(***************************************************************************)
(* The parser thread (packparser.cpp) and the two queues between it and    *)
(* the main thread (net868client.cpp), from the constructor of             *)
(* Net868Client to the end of the process.                                 *)
(*                                                                         *)
(* loraQue is filled by the main thread and emptied by the parser thread,  *)
(* queryDataToSend likewise, and neither has a lock.  Every enqueue and    *)
(* dequeue therefore has a beginning and an end.  When two of them overlap *)
(* on one queue the program has a data race: an appended item may be lost, *)
(* a taken one may be taken again, or the program ends.                    *)
(*                                                                         *)
(* What the parser emits for Net868Client, and its finished(int) for the   *)
(* QThread, are events posted to the main thread and served in their       *)
(* order, by a.exec() or by the event loop of ~Net868Client.  started() is *)
(* a direct call: startParser runs before the thread has an event loop.    *)
(*                                                                         *)
(* The k-th message of the Net868 server is frame k, the k-th packet of a  *)
(* converter is packet k.                                                  *)
(***************************************************************************)
EXTENDS Integers, Sequences, SequencesExt

CONSTANTS
    MaxFrames,      \* bound on the messages of the Net868 server
    MaxPackets,     \* bound on the packets of the converters
    Overdue         \* the frames that contain the bytes of "overdue"

VARIABLES
    main,           \* "start" up to a.exec(), "exec", "wait" in the loop of
                    \* ~Net868Client, "gone" after it, "exited"
    thread,         \* what the parser thread is about to do
    runFlag,        \* PackParser::runFlag
    loraQue,        \* Net868Client::loraQue
    queryDataToSend,\* PackParser::queryDataToSend
    adding,         \* the queue the main thread is appending to, or "none"
    posted,         \* the events posted to the main thread
    quit,           \* QThread::quit() has been called
    parserExists,   \* the PackParser has not been deleted
    received,       \* frames received so far
    requested,      \* packets handed to addDataToQuery so far
    sent,           \* history: packets handed to the websocket
    raced,          \* history: two operations on one queue have overlapped
    impatient,      \* history: ~Net868Client did not wait for the thread
    fault           \* "race" or "destroyed": what the program died of

que == <<loraQue, queryDataToSend, adding, received, requested, raced>>

vars == <<main, thread, runFlag, que, posted, quit, parserExists, sent,
          impatient, fault>>

Frames == 1 .. MaxFrames
Packets == 1 .. MaxPackets

ASSUME ParserAssumption ==
    /\ {MaxFrames, MaxPackets} \subseteq Nat
    /\ Overdue \subseteq Frames

Event(type, item) == [type |-> type, item |-> item]

\* overdueRecived is connected to nothing, so no event is posted for it.
Events == {Event("frame", f) : f \in Frames \ Overdue}
          \cup {Event("packet", p) : p \in Packets}
          \cup {Event("finished", 0), Event("threadFinished", 0)}

TypeOK ==
    /\ main \in {"start", "exec", "wait", "gone", "exited"}
    /\ thread \in {"new", "test", "lora", "takingLora", "query", "takingQuery",
                   "exec", "ended"}
    /\ runFlag \in BOOLEAN
    /\ loraQue \in Seq(Frames)
    /\ queryDataToSend \in Seq(Packets)
    /\ adding \in {"none", "lora", "query"}
    /\ posted \in Seq(Events)
    /\ quit \in BOOLEAN
    /\ parserExists \in BOOLEAN
    /\ received \in 0 .. MaxFrames
    /\ requested \in 0 .. MaxPackets
    /\ sent \subseteq Packets
    /\ raced \in BOOLEAN
    /\ impatient \in BOOLEAN
    /\ fault \in {"none", "race", "destroyed"}

\* prepareParser has started the thread; the constructors return to main().
Init ==
    /\ main = "start"
    /\ thread = "new"
    /\ runFlag = TRUE
    /\ loraQue = <<>>
    /\ queryDataToSend = <<>>
    /\ adding = "none"
    /\ posted = <<>>
    /\ quit = FALSE
    /\ parserExists = TRUE
    /\ received = 0
    /\ requested = 0
    /\ sent = {}
    /\ raced = FALSE
    /\ impatient = FALSE
    /\ fault = "none"

Running == fault = "none" /\ main # "exited"

-----------------------------------------------------------------------------
(* The main thread.                                                        *)

MainUnchanged == UNCHANGED <<main, impatient>>

ThreadUnchanged == UNCHANGED <<thread, runFlag, quit, parserExists>>

\* An event loop of the main thread is between two events.
Looping == Running /\ main \in {"exec", "wait"} /\ adding = "none"

\* A signal before this is lost: QCoreApplication::exec forgets it.
Exec ==
    /\ Running
    /\ main = "start"
    /\ main' = "exec"
    /\ ThreadUnchanged
    /\ UNCHANGED <<que, posted, sent, impatient, fault>>

\* onTextMessageReceived: enqueue of AppDataMessage or of an overdue status.
OnTextMessageReceived ==
    /\ Looping
    /\ received < MaxFrames
    /\ received' = received + 1
    /\ adding' = "lora"
    /\ raced' = (raced \/ thread = "takingLora")
    /\ MainUnchanged /\ ThreadUnchanged
    /\ UNCHANGED <<loraQue, queryDataToSend, requested, posted, sent, fault>>

\* A converter emits a packet: Net868Client::addDataToQuery calls the parser
\* in the main thread, whether the parser still exists or not.
AddDataToQuery ==
    /\ Looping
    /\ requested < MaxPackets
    /\ \/ /\ parserExists
          /\ requested' = requested + 1
          /\ adding' = "query"
          /\ raced' = (raced \/ thread = "takingQuery")
          /\ UNCHANGED fault
       \/ /\ ~parserExists
          /\ fault' = "destroyed"
          /\ UNCHANGED <<requested, adding, raced>>
    /\ MainUnchanged /\ ThreadUnchanged
    /\ UNCHANGED <<loraQue, queryDataToSend, received, posted, sent>>

\* The item is in the queue, unless the race has cost it.
Appended(queue, item) == {Append(queue, item)} \cup (IF raced THEN {queue} ELSE {})

EnqueueEnds ==
    /\ Running
    /\ \/ /\ adding = "lora"
          /\ loraQue' \in Appended(loraQue, received)
          /\ UNCHANGED queryDataToSend
       \/ /\ adding = "query"
          /\ queryDataToSend' \in Appended(queryDataToSend, requested)
          /\ UNCHANGED loraQue
    /\ adding' = "none"
    /\ MainUnchanged /\ ThreadUnchanged
    /\ UNCHANGED <<received, requested, raced, posted, sent, fault>>

\* The posted event whose turn it is.
Serve(type) ==
    /\ Looping
    /\ posted # <<>>
    /\ Head(posted).type = type
    /\ posted' = Tail(posted)
    /\ UNCHANGED <<que, fault>>

\* The transit slots pass a frame on to the converters.
TransitFrame ==
    /\ Serve("frame")
    /\ MainUnchanged /\ ThreadUnchanged
    /\ UNCHANGED sent

SendMessageToNetServer ==
    /\ Serve("packet")
    /\ sent' = sent \cup {Head(posted).item}
    /\ MainUnchanged /\ ThreadUnchanged

\* Faulty variant: the loop of the destructor waits for the parser's signal.
QuitThreadAndLoop ==
    /\ Serve("finished")
    /\ quit' = TRUE
    /\ main' = "gone"
    /\ UNCHANGED <<thread, runFlag, parserExists, sent, impatient>>

\* The parser's finished(int) -> QThread::quit().
QuitThread ==
    /\ Serve("finished")
    /\ quit' = TRUE
    /\ MainUnchanged
    /\ UNCHANGED <<thread, runFlag, parserExists, sent>>

\* Faulty variant: the destructor stops the parser and does not wait.
ExitQtAtOnce ==
    /\ Looping
    /\ main = "exec"
    /\ main' = "gone"
    /\ runFlag' = FALSE
    /\ UNCHANGED <<thread, quit, parserExists, que, posted, sent, impatient, fault>>

\* SIGINT or SIGTERM: CleanExit::exitQt ends a.exec(), main() returns, and
\* ~WebApiServer deletes the client, whose destructor stops the parser and
\* enters its own loop.
ExitQt ==
    /\ Looping
    /\ main = "exec"
    /\ main' = "wait"
    /\ runFlag' = FALSE
    /\ UNCHANGED <<thread, quit, parserExists, que, posted, sent, impatient, fault>>

\* The thread's finished() ends the destructor's loop.
WaitEnds ==
    /\ main = "wait"
    /\ Serve("threadFinished")
    /\ main' = "gone"
    /\ ThreadUnchanged
    /\ UNCHANGED <<sent, impatient>>

\* So do its timer of three seconds, and a second signal, as exitQt ends
\* every event loop there is.
WaitCutShort ==
    /\ Looping
    /\ main = "wait"
    /\ main' = "gone"
    /\ impatient' = TRUE
    /\ ThreadUnchanged
    /\ UNCHANGED <<que, posted, sent, fault>>

Exit ==
    /\ Running
    /\ main = "gone"
    /\ main' = "exited"
    /\ ThreadUnchanged
    /\ UNCHANGED <<que, posted, sent, impatient, fault>>

-----------------------------------------------------------------------------
(* The parser thread.                                                      *)

\* The thread at one point of startParser goes on to the next.
Goes(from, to) == Running /\ thread = from /\ thread' = to

LoraQueExists == main # "gone"

StartParser ==
    /\ Goes("new", "test")
    /\ runFlag' = TRUE
    /\ MainUnchanged
    /\ UNCHANGED <<quit, parserExists, que, posted, sent, fault>>

Iterate ==
    /\ runFlag
    /\ Goes("test", "lora")
    /\ MainUnchanged
    /\ UNCHANGED <<runFlag, quit, parserExists, que, posted, sent, fault>>

\* isEmpty() is false once an append in progress has moved the end.
SeesFrame ==
    /\ LoraQueExists
    /\ loraQue # <<>> \/ adding = "lora"
    /\ Goes("lora", "takingLora")
    /\ raced' = (raced \/ adding = "lora")
    /\ MainUnchanged
    /\ UNCHANGED <<runFlag, quit, parserExists, loraQue, queryDataToSend, adding,
                   received, requested, posted, sent, fault>>

\* Faulty variant: no frame, next round.
SeesNoFrameContinues ==
    /\ LoraQueExists
    /\ loraQue = <<>>
    /\ Goes("lora", "test")
    /\ MainUnchanged
    /\ UNCHANGED <<runFlag, quit, parserExists, que, posted, sent, fault>>

SeesNoFrame ==
    /\ LoraQueExists
    /\ loraQue = <<>>
    /\ Goes("lora", "query")
    /\ MainUnchanged
    /\ UNCHANGED <<runFlag, quit, parserExists, que, posted, sent, fault>>

\* A race may leave a taken item in the queue, up to a bound on the events.
Dequeued(queue) ==
    {Tail(queue)} \cup (IF raced /\ Len(posted) < MaxFrames + MaxPackets
                        THEN {queue} ELSE {})

\* Faulty variant: nobody looks for "overdue".
TakeFrameUnfiltered ==
    /\ LoraQueExists
    /\ loraQue # <<>>
    /\ Goes("takingLora", "query")
    /\ posted' = Append(posted, Event("frame", Head(loraQue)))
    /\ loraQue' \in Dequeued(loraQue)
    /\ MainUnchanged
    /\ UNCHANGED <<runFlag, quit, parserExists, queryDataToSend, adding, received,
                   requested, raced, sent, fault>>

\* dequeue, and dataParser's signal, posted to Net868Client.
TakeFrame ==
    /\ LoraQueExists
    /\ loraQue # <<>>
    /\ Goes("takingLora", "query")
    /\ posted' = IF Head(loraQue) \in Overdue THEN posted
                 ELSE Append(posted, Event("frame", Head(loraQue)))
    /\ loraQue' \in Dequeued(loraQue)
    /\ MainUnchanged
    /\ UNCHANGED <<runFlag, quit, parserExists, queryDataToSend, adding, received,
                   requested, raced, sent, fault>>

SeesPacket ==
    /\ queryDataToSend # <<>> \/ adding = "query"
    /\ Goes("query", "takingQuery")
    /\ raced' = (raced \/ adding = "query")
    /\ MainUnchanged
    /\ UNCHANGED <<runFlag, quit, parserExists, loraQue, queryDataToSend, adding,
                   received, requested, posted, sent, fault>>

SeesNoPacket ==
    /\ queryDataToSend = <<>>
    /\ Goes("query", "test")
    /\ MainUnchanged
    /\ UNCHANGED <<runFlag, quit, parserExists, que, posted, sent, fault>>

\* Faulty variant: the last packet in comes out first.
TakePacketLast ==
    /\ queryDataToSend # <<>>
    /\ Goes("takingQuery", "test")
    /\ posted' = Append(posted, Event("packet", Last(queryDataToSend)))
    /\ queryDataToSend' = Front(queryDataToSend)
    /\ MainUnchanged
    /\ UNCHANGED <<runFlag, quit, parserExists, loraQue, adding, received,
                   requested, raced, sent, fault>>

\* dequeue, and sendLoraPack, posted to Net868Client.
TakePacket ==
    /\ queryDataToSend # <<>>
    /\ Goes("takingQuery", "test")
    /\ posted' = Append(posted, Event("packet", Head(queryDataToSend)))
    /\ queryDataToSend' \in Dequeued(queryDataToSend)
    /\ MainUnchanged
    /\ UNCHANGED <<runFlag, quit, parserExists, loraQue, adding, received,
                   requested, raced, sent, fault>>

\* Faulty variant: finished(int) reaches nobody but the parser itself.
ParserStopsUnheard ==
    /\ ~runFlag
    /\ Goes("test", "exec")
    /\ MainUnchanged
    /\ UNCHANGED <<runFlag, quit, parserExists, que, posted, sent, fault>>

\* The loop is left, finished(int) emitted, and the thread's event loop
\* entered, with a deleteLater of the parser in it.
ParserStops ==
    /\ ~runFlag
    /\ Goes("test", "exec")
    /\ posted' = Append(posted, Event("finished", 0))
    /\ MainUnchanged
    /\ UNCHANGED <<runFlag, quit, parserExists, que, sent, fault>>

\* A quit() before exec() is remembered.
ThreadEnds ==
    /\ quit
    /\ Goes("exec", "ended")
    /\ posted' = Append(posted, Event("threadFinished", 0))
    /\ MainUnchanged
    /\ UNCHANGED <<runFlag, quit, parserExists, que, sent, fault>>

\* By the thread's event loop or, at the latest, at the end of the thread.
DeleteParser ==
    /\ Running
    /\ thread \in {"exec", "ended"}
    /\ parserExists
    /\ parserExists' = FALSE
    /\ fault' = IF adding = "query" THEN "destroyed" ELSE "none"
    /\ MainUnchanged
    /\ UNCHANGED <<thread, runFlag, quit, que, posted, sent>>

-----------------------------------------------------------------------------
(* The ends the program may come to.                                       *)

RaceKills ==
    /\ Running
    /\ raced
    /\ adding # "none" \/ thread \in {"takingLora", "takingQuery"}
    /\ fault' = "race"
    /\ MainUnchanged /\ ThreadUnchanged
    /\ UNCHANGED <<que, posted, sent>>

UseOfDestroyedQueue ==
    /\ Running
    /\ ~LoraQueExists
    /\ thread \in {"lora", "takingLora"}
    /\ fault' = "destroyed"
    /\ MainUnchanged /\ ThreadUnchanged
    /\ UNCHANGED <<que, posted, sent>>

-----------------------------------------------------------------------------
Served == TransitFrame \/ SendMessageToNetServer \/ QuitThread \/ WaitEnds

MainStep == Exec \/ EnqueueEnds \/ Served

ThreadStep ==
    \/ StartParser
    \/ Iterate
    \/ SeesFrame \/ SeesNoFrame \/ TakeFrame
    \/ SeesPacket \/ SeesNoPacket \/ TakePacket
    \/ ParserStops
    \/ ThreadEnds

Next ==
    \/ MainStep
    \/ OnTextMessageReceived
    \/ AddDataToQuery
    \/ ExitQt
    \/ WaitCutShort
    \/ Exit
    \/ ThreadStep
    \/ DeleteParser
    \/ RaceKills
    \/ UseOfDestroyedQueue

Spec == Init /\ [][Next]_vars

\* Both threads run, and an event loop serves what is posted.  Messages,
\* packets, signals and the timer owe nothing.
Fairness == WF_vars(MainStep) /\ WF_vars(ThreadStep)

FairSpec == Spec /\ Fairness

-----------------------------------------------------------------------------
(* Properties.                                                             *)

Gone == main \in {"gone", "exited"}

\* The elements of a sequence that are in a set, in their order: SelectSeq,
\* as a function that proofs can unfold.
OnlyIn(s, S) ==
    LET first[n \in 0 .. Len(s)] ==
            IF n = 0 THEN <<>>
            ELSE IF s[n] \in S THEN Append(first[n - 1], s[n]) ELSE first[n - 1]
    IN  first[Len(s)]

\* The items of one type among the posted events.
Posted(type) == LET on == OnlyIn(posted, {e \in Events : e.type = type})
                IN  [i \in 1 .. Len(on) |-> on[i].item]

PipeState == IF raced THEN "broken"
             ELSE CASE main \in {"start", "exec"} -> "open"
                    [] main = "wait"              -> "closing"
                    [] Gone                       -> "closed"

Up == INSTANCE Pipe WITH
          Items    <- Frames,
          state    <- PipeState,
          contents <- IF Gone THEN <<>>
                      ELSE Posted("frame") \o OnlyIn(loraQue, Frames \ Overdue)

Down == INSTANCE Pipe WITH
          Items    <- Packets,
          state    <- PipeState,
          contents <- IF Gone THEN <<>>
                      ELSE Posted("packet") \o queryDataToSend

\* As long as no two operations on a queue overlap, the two threads lose,
\* double and reorder neither frames nor packets: from onTextMessageReceived
\* to the transit slots, and from addDataToQuery to sendMessageToNetServer.
FollowsPipes == Up!Spec /\ Down!Spec

\* And what is in the queues of a program nobody stops arrives: polling
\* neither queue starves the other.
PipesDeliver == Up!Delivers /\ Down!Delivers

\* A stop the parser's loop gets to see ends the wait of ~Net868Client
\* without the three seconds: the chain of finished(int), quit(), finished()
\* across the two threads does not break, whatever else is in the queues.  (A
\* thread that has raced may be stuck in a dequeue.)
StopEndsWait ==
    main = "wait" /\ ~runFlag /\ thread # "new" ~> Gone \/ raced \/ fault # "none"

\* A client that has waited for its thread leaves no thread behind that
\* could still use its queue.
OrderlyExit == Gone /\ ~impatient => thread = "ended"

\* "Data sent to device...": what the application is told of a packet that
\* has been put into the queue.  It is in it, on its way, or sent.
QueuedIsOnItsWay ==
    \A p \in 1 .. requested :
        \/ p = requested /\ adding = "query"
        \/ p \in ToSet(queryDataToSend) \cup ToSet(Posted("packet")) \cup sent
        \/ fault # "none" \/ Gone

\* What CleanExit is there for: the program ends without using an object it
\* has destroyed.
CleanlyExits == fault # "destroyed"

\* What is left of it: an object is used after its destruction only by a
\* packet that comes while the destructor waits and the parser has been
\* deleted, or by the thread of a destructor whose wait was cut short.  Up to
\* the signal, and after a wait that was not, nothing destroyed is used.
DestroyedUseIsLate ==
    fault = "destroyed" =>
        \/ main = "wait" /\ ~parserExists
        \/ main = "gone" /\ impatient

=============================================================================
