----------------------------- MODULE LogStream -----------------------------
(***************************************************************************)
(* GET .../logs?follow (coderd/provisionerjobs.go): one client follows the *)
(* logs of one job.  The handler subscribes, reads the job, reads the lines *)
(* there are, and sends them; then it sends what the subscription's         *)
(* callbacks put into a bounded channel.  The callbacks are goroutines, one *)
(* per notification (database/pubsub.go), so they run in any order.         *)
(***************************************************************************)
EXTENDS Naturals, Sequences, SequencesExt, FiniteSets

CONSTANTS
    FirstID,       \* the first id the sequence gives to a line of this job
    MaxLines,      \* bounds the lines of the job
    BatchSizes,    \* how many lines one UpdateJob may carry
    BufferSize     \* the capacity of bufferedLogs (128 in the code)

VARIABLES
    rows,          \* provisioner_job_logs: the ids of the job's lines, FirstID .. rows
    producer,      \* what the daemon's call in coderd does next
    completed,     \* provisioner_jobs.completed_at
    notes,         \* notifications on their way to this coderd, in order
    handlers,      \* the callbacks that run
    closed,        \* the channels closed and bufferedLogs are closed
    buffer,        \* bufferedLogs
    reader,        \* where the request's handler is
    done,          \* logIdsDone
    pending,       \* the lines of the query that are still to be sent
    sent,          \* what the client received
    dropped        \* lines that met a full channel

vars == <<rows, producer, completed, notes, handlers, closed, buffer, reader, done, pending, sent, dropped>>

Lines == FirstID .. FirstID + MaxLines - 1

\* The lines after an id, in the order of their ids.
Query(after) == [i \in 1 .. rows - (IF after < FirstID THEN FirstID - 1 ELSE after) |->
                    i + (IF after < FirstID THEN FirstID - 1 ELSE after)]

Init ==
    /\ rows = FirstID - 1
    /\ producer = [step |-> "idle"]
    /\ completed = FALSE
    /\ notes = <<>> /\ handlers = {} /\ closed = FALSE /\ buffer = <<>>
    /\ reader = [at |-> "start", ended |-> FALSE]
    /\ done = {} /\ pending = <<>> /\ sent = <<>> /\ dropped = {}

TypeOK ==
    /\ rows \in FirstID - 1 .. FirstID + MaxLines - 1
    /\ producer.step \in {"idle", "publish", "end", "over"}
    /\ completed \in BOOLEAN /\ closed \in BOOLEAN
    /\ reader.at \in {"start", "subscribed", "checked", "sending", "streaming", "over"}
    /\ Len(buffer) <= BufferSize
    /\ Range(buffer) \union Range(sent) \union Range(pending) \union done \union dropped \subseteq Lines

----------------------------------------------------------------------------
(* The daemon's calls: UpdateJob, one at a time, then FailJob or CompleteJob *)

\* UpdateJob: InsertProvisionerJobLogs.
InsertLogs(n) ==
    /\ producer.step = "idle" /\ rows + n <= FirstID + MaxLines - 1
    /\ rows' = rows + n
    /\ producer' = [step |-> "publish", after |-> rows]
    /\ UNCHANGED <<completed, notes, handlers, closed, buffer, reader, done, pending, sent, dropped>>

\* UpdateJob publishes the lowest id it inserted, less one.
PublishLogs ==
    /\ producer.step = "publish"
    /\ notes' = Append(notes, [after |-> producer.after, end |-> FALSE])
    /\ producer' = [step |-> "idle"]
    /\ UNCHANGED <<rows, completed, handlers, closed, buffer, reader, done, pending, sent, dropped>>

\* FailJob and CompleteJob write completed_at ...
EndJob ==
    /\ producer.step = "idle"
    /\ completed' = TRUE
    /\ producer' = [step |-> "end"]
    /\ UNCHANGED <<rows, notes, handlers, closed, buffer, reader, done, pending, sent, dropped>>

\* ... and publish the end of the logs.
PublishEnd ==
    /\ producer.step = "end"
    /\ notes' = Append(notes, [after |-> 0, end |-> TRUE])
    /\ producer' = [step |-> "over"]
    /\ UNCHANGED <<rows, completed, handlers, closed, buffer, reader, done, pending, sent, dropped>>

----------------------------------------------------------------------------
(* The subscription.                                                        *)

\* Mutant of Subscribed: the lines there are come first, the subscription then.
SubscribedLate == reader.at = "streaming"

Subscribed == reader.at \notin {"start", "over"}

\* listenReceive: a goroutine for each listener; a notification nobody listens for is gone.
Receive ==
    /\ notes # <<>>
    /\ notes' = Tail(notes)
    /\ handlers' = IF Subscribed
                   THEN handlers \union {[note |-> Head(notes), step |-> "begin", todo |-> <<>>]}
                   ELSE handlers
    /\ UNCHANGED <<rows, producer, completed, closed, buffer, reader, done, pending, sent, dropped>>

Becomes(h, g) == handlers' = (handlers \ {h}) \union g

\* The callback looks whether the stream is closed, and queries.
HandlerQuery(h) ==
    /\ h.step = "begin"
    /\ Becomes(h, IF closed THEN {}
                  ELSE {[h EXCEPT !.step = "push",
                                  !.todo = IF h.note.after # 0 THEN Query(h.note.after) ELSE <<>>]})
    /\ UNCHANGED <<rows, producer, completed, notes, closed, buffer, reader, done, pending, sent, dropped>>

\* Mutant of Full: every line is buffered.
FullNever == FALSE

Full == Len(buffer) = BufferSize

\* The callback pushes one line, with logMut held; a full channel drops it.
HandlerPush(h) ==
    /\ h.step = "push" /\ h.todo # <<>>
    /\ IF closed
       THEN Becomes(h, {}) /\ UNCHANGED <<buffer, dropped>>
       ELSE /\ Becomes(h, {[h EXCEPT !.todo = Tail(@)]})
            /\ buffer' = IF Full THEN buffer ELSE Append(buffer, Head(h.todo))
            /\ dropped' = IF Full THEN dropped \union {Head(h.todo)} ELSE dropped
    /\ UNCHANGED <<rows, producer, completed, notes, closed, reader, done, pending, sent>>

\* The callback ends; the one for the end of the logs closes the channels, once.
HandlerEnd(h) ==
    /\ h.step = "push" /\ h.todo = <<>>
    /\ Becomes(h, {})
    /\ closed' = (closed \/ h.note.end)
    /\ UNCHANGED <<rows, producer, completed, notes, buffer, reader, done, pending, sent, dropped>>

----------------------------------------------------------------------------
(* The request.                                                             *)

\* followLogs
Subscribe ==
    /\ reader.at = "start"
    /\ reader' = [reader EXCEPT !.at = "subscribed"]
    /\ UNCHANGED <<rows, producer, completed, notes, handlers, closed, buffer, done, pending, sent, dropped>>

\* Mutant of CheckJob: the job is not read again.
CheckJobBefore ==
    /\ reader.at = "subscribed"
    /\ reader' = [at |-> "checked", ended |-> FALSE]
    /\ UNCHANGED <<rows, producer, completed, notes, handlers, closed, buffer, done, pending, sent, dropped>>

\* GetProvisionerJobByID, after the subscription
CheckJob ==
    /\ reader.at = "subscribed"
    /\ reader' = [at |-> "checked", ended |-> completed]
    /\ UNCHANGED <<rows, producer, completed, notes, handlers, closed, buffer, done, pending, sent, dropped>>

\* GetProvisionerLogsByIDBetween
ReadHistory ==
    /\ reader.at = "checked"
    /\ reader' = [reader EXCEPT !.at = "sending"]
    /\ pending' = Query(0)
    /\ UNCHANGED <<rows, producer, completed, notes, handlers, closed, buffer, done, sent, dropped>>

SendHistory ==
    /\ reader.at = "sending" /\ pending # <<>>
    /\ sent' = Append(sent, Head(pending)) /\ done' = done \union {Head(pending)}
    /\ pending' = Tail(pending)
    /\ UNCHANGED <<rows, producer, completed, notes, handlers, closed, buffer, reader, dropped>>

\* Mutant of EndHistory: the job is read after the lines.
EndHistoryReread ==
    /\ reader.at = "sending" /\ pending = <<>>
    /\ reader' = [at |-> IF completed THEN "over" ELSE "streaming", ended |-> completed]
    /\ UNCHANGED <<rows, producer, completed, notes, handlers, closed, buffer, done, pending, sent, dropped>>

EndHistory ==
    /\ reader.at = "sending" /\ pending = <<>>
    /\ reader' = [reader EXCEPT !.at = IF reader.ended THEN "over" ELSE "streaming"]
    /\ UNCHANGED <<rows, producer, completed, notes, handlers, closed, buffer, done, pending, sent, dropped>>

\* Mutant of Fresh: logIdsDone is not asked.
AlwaysFresh(id) == TRUE

Fresh(id) == id \notin done

\* A line from the channel, unless the query had it.
StreamLine ==
    /\ reader.at = "streaming" /\ buffer # <<>>
    /\ sent' = IF Fresh(Head(buffer)) THEN Append(sent, Head(buffer)) ELSE sent
    /\ buffer' = Tail(buffer)
    /\ UNCHANGED <<rows, producer, completed, notes, handlers, closed, reader, done, pending, dropped>>

\* The channel is closed and empty.
StreamEnd ==
    /\ reader.at = "streaming" /\ buffer = <<>> /\ closed
    /\ reader' = [reader EXCEPT !.at = "over"]
    /\ UNCHANGED <<rows, producer, completed, notes, handlers, closed, buffer, done, pending, sent, dropped>>

\* The client leaves, or the websocket breaks.
ClientLeaves ==
    /\ reader.at \notin {"start", "over"}
    /\ reader' = [at |-> "over", ended |-> FALSE]
    /\ UNCHANGED <<rows, producer, completed, notes, handlers, closed, buffer, done, pending, sent, dropped>>

Request ==
    Subscribe \/ CheckJob \/ ReadHistory \/ SendHistory \/ EndHistory \/ StreamLine \/ StreamEnd

Handler(h) == HandlerQuery(h) \/ HandlerPush(h) \/ HandlerEnd(h)

Next ==
    \/ \E n \in BatchSizes : InsertLogs(n)
    \/ PublishLogs \/ EndJob \/ PublishEnd
    \/ Receive
    \/ \E h \in handlers : Handler(h)
    \/ Request \/ ClientLeaves

Spec == Init /\ [][Next]_vars

\* Goroutines and the request are scheduled; the daemon and the client may do nothing.
Fairness ==
    /\ WF_vars(PublishLogs) /\ WF_vars(PublishEnd) /\ WF_vars(Receive) /\ WF_vars(Request)
    /\ WF_vars(\E h \in handlers : Handler(h))

FairSpec == Spec /\ Fairness

----------------------------------------------------------------------------
\* The lines of a notification: everything after the id it names.
Covers(note) == {i \in Lines : 0 < note.after /\ note.after < i /\ i <= rows}

InFlight ==
    (UNION {Covers(notes[k]) : k \in {k \in 1 .. Len(notes) : ~notes[k].end}})
    \union (UNION {Covers(h.note) : h \in {g \in handlers : g.step = "begin" /\ ~g.note.end}})
    \union (UNION {Range(h.todo) : h \in handlers})
    \union (IF producer.step = "publish" THEN {i \in Lines : producer.after < i /\ i <= rows} ELSE {})

\* "start the subscription before we query the database, so that we don't miss any logs":
\* while the stream is open, every line there is has been sent, is in the channel, was
\* dropped from a full channel, or is still covered by a notification.
NoGap ==
    reader.at = "streaming" /\ ~closed =>
        \A i \in FirstID .. rows :
            i \in Range(sent) \union Range(buffer) \union dropped \union InFlight

\* Lines the query returned are not sent again, however late their notification arrives.
HistoryOnce ==
    \A i \in done : Cardinality({k \in 1 .. Len(sent) : sent[k] = i}) = 1

\* "meaning we got everything": a request that finds the job complete ends with all lines.
CompleteHistory ==
    reader.at = "over" /\ reader.ended => Range(sent) = FirstID .. rows

\* The client of a job that ends is not left waiting for ever: neither a completion between
\* the subscription and the look at the job, nor a full channel, loses the end of the logs.
StreamEnds == (completed /\ reader.at # "start") ~> (reader.at = "over")

\* "We might get duplicates, so we'll keep track of processed IDs.": a line is sent once.
SentOnce == IsInjective(sent)
============================================================================
