--------------------------- MODULE ServingProofs ---------------------------
(***************************************************************************)
(* Proofs about what clients are shown of builds, as MCServing composes    *)
(* it: the logs of a job (LogStream), a watched workspace                  *)
(* (WorkspaceWatch), its activity (Activity) and what terraform answers    *)
(* (TerraformProvision), each for any number of lines, readers, bumps and  *)
(* provisions.  The components share nothing: each has an inductive        *)
(* invariant of its own, and ServingInv says which one a behaviour keeps.  *)
(***************************************************************************)
EXTENDS MCServing, Integers, FiniteSetTheorems, SequenceTheorems, TLAPS

-----------------------------------------------------------------------------
(* Following the logs of a job.                                            *)

\* What the proofs need to know of the constants.  The callback takes the id 0 for none, so that a job
\* whose first line has the id 1, the first of its deployment, announces its first lines in vain.
LogBounds ==
    /\ FirstID \in Nat /\ FirstID >= 2 /\ MaxLines \in Nat /\ BatchSizes \subseteq Nat /\ BufferSize \in Nat

NoteRow == [after : Nat, end : BOOLEAN]
HandlerRow == [note : NoteRow, step : {"begin", "push"}, todo : Seq(L!Lines)]

\* A notification of lines names an id before one of the lines there are.
NoteOK(n, top) == n \in NoteRow /\ IF n.end THEN n.after = 0 ELSE n.after \in FirstID - 1 .. top
NotesOK(ns, top) == ns \in Seq(NoteRow) /\ \A k \in 1 .. Len(ns) : NoteOK(ns[k], top)
HandlersOK(hs, top) ==
    hs \subseteq HandlerRow /\ \A h \in hs : NoteOK(h.note, top) /\ (h.step = "begin" => h.todo = <<>>)

WriterOK ==
    /\ rows \in FirstID - 1 .. FirstID + MaxLines - 1
    /\ producer.step \in {"idle", "publish", "end", "over"}
    /\ producer.step = "publish" => producer.after \in FirstID - 1 .. rows
    /\ completed \in BOOLEAN
    /\ completed => producer.step \in {"end", "over"}

RequestOK ==
    /\ closed \in BOOLEAN
    /\ buffer \in Seq(L!Lines) /\ Len(buffer) <= BufferSize
    /\ reader_logs \in [at : {"start", "subscribed", "checked", "sending", "streaming", "over"}, ended : BOOLEAN]
    /\ pending \in Seq(L!Lines) /\ sent \in Seq(L!Lines)
    /\ done \subseteq L!Lines /\ dropped \subseteq L!Lines

\* What the request has sent, from the query first and from the channel then.
LogFlow ==
    /\ reader_logs.at \in {"start", "subscribed", "checked"} => sent = <<>> /\ done = {}
    /\ done \subseteq L!Range(sent)
    /\ \A j, k \in 1 .. Len(sent) : sent[j] = sent[k] /\ sent[j] \in done => j = k
    /\ reader_logs.at = "sending" =>
          /\ L!Range(sent) \subseteq done
          /\ \A k \in 1 .. Len(pending) : pending[k] \notin done
          /\ \A j, k \in 1 .. Len(pending) : pending[j] = pending[k] => j = k
    /\ reader_logs.at = "streaming" => pending = <<>> /\ ~reader_logs.ended

\* A request that has found the job complete.
LogEnd ==
    /\ reader_logs.ended => completed
    /\ reader_logs.ended /\ reader_logs.at = "sending" => L!Range(sent) \union L!Range(pending) = FirstID .. rows
    /\ reader_logs.ended /\ reader_logs.at = "over" => L!Range(sent) = FirstID .. rows

\* A line that a notification, a callback or a daemon's call is going to bring.
Tells(n, i) == ~n.end /\ 0 < n.after /\ n.after < i
Brings(h, i) == (h.step = "begin" /\ Tells(h.note, i)) \/ i \in L!Range(h.todo)
Coming(i) ==
    \/ \E k \in 1 .. Len(notes) : Tells(notes[k], i)
    \/ \E h \in handlers : Brings(h, i)
    \/ producer.step = "publish" /\ producer.after < i

\* A line that the request has.
Here(i) == i \in L!Range(sent) \/ i \in L!Range(pending) \/ i \in L!Range(buffer) \/ i \in dropped

LogCover ==
    reader_logs.at \in {"sending", "streaming"} /\ ~closed => \A i \in FirstID .. rows : Here(i) \/ Coming(i)

LogTyped == WriterOK /\ NotesOK(notes, rows) /\ HandlersOK(handlers, rows) /\ RequestOK
LogInv == LogTyped /\ LogFlow /\ LogEnd /\ LogCover

LEMMA RangeIs == ASSUME NEW S, NEW s \in Seq(S) PROVE \A x : x \in L!Range(s) <=> \E k \in 1 .. Len(s) : s[k] = x
  BY DEF L!Range

LEMMA RangeEmpty == L!Range(<<>>) = {}
  BY DEF L!Range

LEMMA RangeAppend ==
  ASSUME NEW S, NEW s \in Seq(S), NEW x \in S
  PROVE  L!Range(Append(s, x)) = L!Range(s) \union {x}
<1>0. PICK t : t = Append(s, x)
  OBVIOUS
<1>1. t = Append(s, x) /\ t \in Seq(S) /\ Len(t) = Len(s) + 1 /\ t[Len(s) + 1] = x /\ \A k \in 1 .. Len(s) : t[k] = s[k]
  BY <1>0
<1>2. ASSUME NEW y PROVE y \in L!Range(t) <=> y \in L!Range(s) \union {x}
  <2>1. y \in L!Range(t) <=> \E k \in 1 .. Len(t) : t[k] = y
    BY <1>1, RangeIs
  <2>2. y \in L!Range(s) <=> \E k \in 1 .. Len(s) : s[k] = y
    BY RangeIs
  <2>3. Len(s) \in Nat /\ Len(s) + 1 \in 1 .. Len(t) /\ \A k \in 1 .. Len(t) : k \in 1 .. Len(s) \/ k = Len(s) + 1
    BY <1>1
  <2>4. \A k \in 1 .. Len(s) : k \in 1 .. Len(t)
    BY <1>1
  <2> QED BY <1>1, <2>1, <2>2, <2>3, <2>4
<1> QED BY <1>1, <1>2

LEMMA RangeTail ==
  ASSUME NEW S, NEW s \in Seq(S), s # <<>>
  PROVE  /\ Head(s) \in S /\ Tail(s) \in Seq(S) /\ L!Range(s) = L!Range(Tail(s)) \union {Head(s)}
         /\ Len(Tail(s)) = Len(s) - 1 /\ \A k \in 1 .. Len(Tail(s)) : Tail(s)[k] = s[k + 1] /\ k + 1 \in 1 .. Len(s)
         /\ 1 \in 1 .. Len(s) /\ Head(s) = s[1]
<1>1. Head(s) \in S /\ Tail(s) \in Seq(S) /\ Len(s) \in Nat /\ Len(s) >= 1 /\ Len(Tail(s)) = Len(s) - 1 /\ Head(s) = s[1]
  OBVIOUS
<1>2. \A k \in 1 .. Len(Tail(s)) : Tail(s)[k] = s[k + 1] /\ k + 1 \in 1 .. Len(s)
  BY <1>1
<1>3. PICK t \in Seq(S) : t = Tail(s)
  BY <1>1
<1>4. ASSUME NEW y PROVE y \in L!Range(s) <=> y \in L!Range(t) \union {Head(s)}
  <2>1. y \in L!Range(t) <=> \E k \in 1 .. Len(t) : t[k] = y
    BY RangeIs
  <2>2. y \in L!Range(s) <=> \E k \in 1 .. Len(s) : s[k] = y
    BY RangeIs
  <2>3. \A k \in 1 .. Len(s) : k = 1 \/ (k - 1 \in 1 .. Len(t) /\ t[k - 1] = s[k])
    BY <1>1, <1>2, <1>3
  <2>4. 1 \in 1 .. Len(s)
    BY <1>1
  <2> QED BY <1>1, <1>2, <1>3, <2>1, <2>2, <2>3, <2>4
<1>5. L!Range(s) = L!Range(t) \union {Head(s)}
  BY <1>4
<1> QED BY <1>1, <1>2, <1>3, <1>5

\* The lines of a query.
LEMMA QueryOK ==
  ASSUME LogBounds, WriterOK, NEW after \in Nat, after <= rows \/ after < FirstID
  PROVE  /\ L!Query(after) \in Seq(L!Lines)
         /\ \A i \in FirstID .. rows : after < i => i \in L!Range(L!Query(after))
         /\ L!Range(L!Query(after)) \subseteq FirstID .. rows
         /\ \A j, k \in 1 .. Len(L!Query(after)) : L!Query(after)[j] = L!Query(after)[k] => j = k
<1>1. PICK b \in Nat : b = IF after < FirstID THEN FirstID - 1 ELSE after
  BY DEF LogBounds
<1>2. b >= FirstID - 1 /\ b <= rows /\ rows \in Nat /\ rows <= FirstID + MaxLines - 1 /\ (b > after => b = FirstID - 1) /\ b \in Nat
  BY <1>1 DEF LogBounds, WriterOK
<1>3. PICK n \in Nat : n = rows - b
  BY <1>2
<1>4. PICK q : q = [i \in 1 .. n |-> i + b]
  OBVIOUS
<1>5. L!Query(after) = q
  BY <1>1, <1>3, <1>4 DEF L!Query
<1>6. \A i \in 1 .. n : q[i] = i + b /\ i + b \in FirstID .. rows
  BY <1>2, <1>3, <1>4 DEF LogBounds
<1>7. \A i \in FirstID .. rows : i \in L!Lines
  BY <1>2 DEF L!Lines, LogBounds
<1>8. q \in [1 .. n -> L!Lines]
  BY <1>4, <1>6, <1>7
<1>9. q \in Seq(L!Lines) /\ DOMAIN q = 1 .. n /\ Len(q) = n
  BY <1>4, <1>8, SeqDef
<1>10. \A i \in FirstID .. rows : after < i => i \in L!Range(q)
  <2> SUFFICES ASSUME NEW i \in FirstID .. rows, after < i PROVE i \in L!Range(q)
    OBVIOUS
  <2>1. i \in Nat /\ i - b \in 1 .. n /\ (i - b) + b = i
    BY <1>1, <1>2, <1>3 DEF LogBounds
  <2>2. q[i - b] = i
    BY <1>4, <2>1
  <2> QED BY <1>9, <2>1, <2>2 DEF L!Range
<1>11. L!Range(q) \subseteq FirstID .. rows
  BY <1>6, <1>9 DEF L!Range
<1>12. \A j, k \in 1 .. n : q[j] = q[k] => j = k
  BY <1>4
<1> QED BY <1>5, <1>9, <1>10, <1>11, <1>12

LEMMA InitLogs == ASSUME LogBounds, L!Init PROVE LogInv
<1>1. WriterOK
  <2>1. rows = FirstID - 1 /\ producer.step = "idle" /\ completed = FALSE
    BY DEF L!Init
  <2>2. FirstID - 1 \in FirstID - 1 .. FirstID + MaxLines - 1
    BY DEF LogBounds
  <2> QED BY <2>1, <2>2 DEF WriterOK
<1>2. NotesOK(notes, rows) /\ HandlersOK(handlers, rows)
  BY DEF L!Init, NotesOK, HandlersOK
<1>3. RequestOK
  <2>1. Len(buffer) <= BufferSize /\ buffer = <<>> /\ pending = <<>> /\ sent = <<>>
    BY DEF L!Init, LogBounds
  <2>2. reader_logs \in [at : {"start", "subscribed", "checked", "sending", "streaming", "over"}, ended : BOOLEAN]
    BY DEF L!Init
  <2>3. closed = FALSE /\ done = {} /\ dropped = {}
    BY DEF L!Init
  <2>4. buffer \in Seq(L!Lines) /\ pending \in Seq(L!Lines) /\ sent \in Seq(L!Lines)
    BY <2>1
  <2> QED BY <2>1, <2>2, <2>3, <2>4 DEF RequestOK
<1>4. LogFlow /\ LogEnd /\ LogCover
  BY DEF L!Init, LogFlow, LogEnd, LogCover
<1> QED BY <1>1, <1>2, <1>3, <1>4 DEF LogInv, LogTyped

\* The writer's calls and the notifications leave the request alone.
LEMMA RequestKeeps ==
  ASSUME LogInv, UNCHANGED <<rows, completed, reader_logs, done, pending, sent>>
  PROVE  LogFlow' /\ LogEnd'
  BY DEF LogInv, LogFlow, LogEnd

LEMMA NotesGrow ==
  ASSUME LogBounds, NEW ns, NEW top \in Nat, NotesOK(ns, top), NEW n, NoteOK(n, top)
  PROVE  /\ NotesOK(Append(ns, n), top)
         /\ \A i : Tells(n, i) => \E k \in 1 .. Len(Append(ns, n)) : Tells(Append(ns, n)[k], i)
         /\ \A i : (\E k \in 1 .. Len(ns) : Tells(ns[k], i)) => \E k \in 1 .. Len(Append(ns, n)) : Tells(Append(ns, n)[k], i)
<1>1. ns \in Seq(NoteRow) /\ n \in NoteRow /\ \A k \in 1 .. Len(ns) : NoteOK(ns[k], top)
  BY DEF NotesOK, NoteOK
<1>2. PICK t : t = Append(ns, n)
  OBVIOUS
<1>3. t \in Seq(NoteRow) /\ Len(t) = Len(ns) + 1 /\ t[Len(ns) + 1] = n /\ \A k \in 1 .. Len(ns) : t[k] = ns[k]
  BY <1>1, <1>2
<1>4. /\ Len(ns) + 1 \in 1 .. Len(t) /\ \A k \in 1 .. Len(ns) : k \in 1 .. Len(t)
      /\ \A k \in 1 .. Len(t) : k \in 1 .. Len(ns) \/ k = Len(ns) + 1
  BY <1>1, <1>3
<1>5. \A k \in 1 .. Len(t) : NoteOK(t[k], top)
  BY <1>1, <1>3, <1>4
<1> QED BY <1>2, <1>3, <1>4, <1>5 DEF NotesOK

LEMMA InsertKeeps == ASSUME LogBounds, LogInv, NEW n \in BatchSizes, L!InsertLogs(n) PROVE LogInv'
<1>1. /\ producer.step = "idle" /\ rows' = rows + n /\ rows + n <= FirstID + MaxLines - 1
      /\ producer' = [step |-> "publish", after |-> rows]
      /\ UNCHANGED <<completed, notes, handlers, closed, buffer, reader_logs, done, pending, sent, dropped>>
  BY DEF L!InsertLogs
<1>2. WriterOK /\ NotesOK(notes, rows) /\ HandlersOK(handlers, rows) /\ RequestOK
  BY DEF LogInv, LogTyped
<1>3. n \in Nat /\ rows \in Nat /\ rows \in FirstID - 1 .. rows' /\ rows' \in FirstID - 1 .. FirstID + MaxLines - 1
  BY <1>1, <1>2 DEF WriterOK, LogBounds
<1>4. WriterOK' /\ ~completed
  BY <1>1, <1>2, <1>3 DEF WriterOK
<1>5. ASSUME NEW m, NoteOK(m, rows) PROVE NoteOK(m, rows')
  BY <1>3, <1>5 DEF NoteOK, LogBounds
<1>6. NotesOK(notes, rows') /\ HandlersOK(handlers, rows')
  BY <1>2, <1>5 DEF NotesOK, HandlersOK
<1>7. RequestOK'
  BY <1>1, <1>2 DEF RequestOK
<1>8. LogFlow' /\ LogEnd'
  BY <1>1, <1>4 DEF LogInv, LogFlow, LogEnd
<1>9. LogCover'
  <2> SUFFICES ASSUME reader_logs'.at \in {"sending", "streaming"}, ~closed', NEW i \in FirstID .. rows' PROVE Here(i)' \/ Coming(i)'
    BY DEF LogCover
  <2>1. CASE i > rows
    BY <1>1, <2>1 DEF Coming
  <2>2. CASE i \in FirstID .. rows
    <3>1. Here(i) \/ Coming(i)
      BY <1>1, <2>2 DEF LogInv, LogCover
    <3> QED BY <1>1, <3>1 DEF Here, Coming
  <2>3. i > rows \/ i \in FirstID .. rows
    BY <1>3 DEF LogBounds
  <2> QED BY <2>1, <2>2, <2>3
<1> QED BY <1>1, <1>4, <1>6, <1>7, <1>8, <1>9 DEF LogInv, LogTyped

LEMMA PublishLogsKeeps == ASSUME LogBounds, LogInv, L!PublishLogs PROVE LogInv'
<1>1. /\ producer.step = "publish" /\ notes' = Append(notes, [after |-> producer.after, end |-> FALSE])
      /\ producer' = [step |-> "idle"]
      /\ UNCHANGED <<rows, completed, handlers, closed, buffer, reader_logs, done, pending, sent, dropped>>
  BY DEF L!PublishLogs
<1>2. WriterOK /\ NotesOK(notes, rows) /\ HandlersOK(handlers, rows) /\ RequestOK
  BY DEF LogInv, LogTyped
<1>3. PICK m : m = [after |-> producer.after, end |-> FALSE]
  OBVIOUS
<1>4. producer.after \in FirstID - 1 .. rows /\ producer.after \in Nat /\ 0 < producer.after /\ rows \in Nat
  BY <1>1, <1>2 DEF WriterOK, LogBounds
<1>5. NoteOK(m, rows) /\ m.after = producer.after /\ ~m.end
  BY <1>3, <1>4 DEF NoteOK, NoteRow
<1>6. NotesOK(notes', rows)
  BY <1>1, <1>2, <1>3, <1>4, <1>5, NotesGrow
<1>7. WriterOK' /\ RequestOK' /\ HandlersOK(handlers', rows')
  BY <1>1, <1>2 DEF WriterOK, RequestOK
<1>8. LogFlow' /\ LogEnd'
  BY <1>1, RequestKeeps
<1>9. ASSUME NEW i, Coming(i) PROVE Coming(i)'
  <2>1. (\E k \in 1 .. Len(notes) : Tells(notes[k], i)) \/ Tells(m, i) => \E k \in 1 .. Len(notes') : Tells(notes'[k], i)
    BY <1>1, <1>2, <1>3, <1>4, <1>5, NotesGrow
  <2>2. producer.after < i => Tells(m, i)
    BY <1>4, <1>5 DEF Tells
  <2> QED BY <1>1, <1>9, <2>1, <2>2 DEF Coming
<1>10. LogCover'
  BY <1>1, <1>9 DEF LogInv, LogCover, Here
<1> QED BY <1>1, <1>6, <1>7, <1>8, <1>10 DEF LogInv, LogTyped

LEMMA EndJobKeeps == ASSUME LogBounds, LogInv, L!EndJob PROVE LogInv'
<1>1. /\ producer.step = "idle" /\ producer' = [step |-> "end"] /\ completed' = TRUE
      /\ UNCHANGED <<rows, notes, handlers, closed, buffer, reader_logs, done, pending, sent, dropped>>
  BY DEF L!EndJob
<1>2. WriterOK /\ NotesOK(notes, rows) /\ HandlersOK(handlers, rows) /\ RequestOK
  BY DEF LogInv, LogTyped
<1>3. WriterOK' /\ RequestOK' /\ NotesOK(notes', rows') /\ HandlersOK(handlers', rows')
  BY <1>1, <1>2 DEF WriterOK, RequestOK
<1>4. LogFlow' /\ LogEnd'
  BY <1>1 DEF LogInv, LogFlow, LogEnd
<1>5. LogCover'
  BY <1>1 DEF LogInv, LogCover, Here, Coming
<1> QED BY <1>3, <1>4, <1>5 DEF LogInv, LogTyped

LEMMA PublishEndKeeps == ASSUME LogBounds, LogInv, L!PublishEnd PROVE LogInv'
<1>1. /\ producer.step = "end" /\ notes' = Append(notes, [after |-> 0, end |-> TRUE]) /\ producer' = [step |-> "over"]
      /\ UNCHANGED <<rows, completed, handlers, closed, buffer, reader_logs, done, pending, sent, dropped>>
  BY DEF L!PublishEnd
<1>2. WriterOK /\ NotesOK(notes, rows) /\ HandlersOK(handlers, rows) /\ RequestOK /\ rows \in Nat
  BY DEF LogInv, LogTyped, WriterOK, LogBounds
<1>3. PICK m : m = [after |-> 0, end |-> TRUE]
  OBVIOUS
<1>4. NoteOK(m, rows)
  BY <1>3 DEF NoteOK, NoteRow
<1>5. NotesOK(notes', rows)
  BY <1>1, <1>2, <1>3, <1>4, NotesGrow
<1>6. WriterOK' /\ RequestOK' /\ HandlersOK(handlers', rows')
  BY <1>1, <1>2 DEF WriterOK, RequestOK
<1>7. LogFlow' /\ LogEnd'
  BY <1>1, RequestKeeps
<1>8. ASSUME NEW i, Coming(i) PROVE Coming(i)'
  <2>1. (\E k \in 1 .. Len(notes) : Tells(notes[k], i)) => \E k \in 1 .. Len(notes') : Tells(notes'[k], i)
    BY <1>1, <1>2, <1>3, <1>4, NotesGrow
  <2> QED BY <1>1, <1>8, <2>1 DEF Coming
<1>9. LogCover'
  BY <1>1, <1>8 DEF LogInv, LogCover, Here
<1> QED BY <1>1, <1>5, <1>6, <1>7, <1>9 DEF LogInv, LogTyped

\* A callback is done with: what it was going to bring, another does or is here.
LEMMA HandlersKeep ==
  ASSUME LogBounds, LogInv, UNCHANGED <<rows, producer, completed, notes, reader_logs, done, pending, sent>>,
         HandlersOK(handlers', rows), RequestOK',
         ~closed' => ~closed,
         ~closed' => \A i \in FirstID .. rows : Here(i) => Here(i)',
         ~closed' => \A i \in FirstID .. rows : \A h \in handlers : Brings(h, i) => Here(i)' \/ \E g \in handlers' : Brings(g, i)
  PROVE  LogInv'
<1>1. WriterOK' /\ NotesOK(notes', rows')
  BY DEF LogInv, LogTyped, WriterOK
<1>2. LogFlow' /\ LogEnd'
  BY RequestKeeps
<1>3. LogCover'
  <2> SUFFICES ASSUME reader_logs'.at \in {"sending", "streaming"}, ~closed', NEW i \in FirstID .. rows' PROVE Here(i)' \/ Coming(i)'
    BY DEF LogCover
  <2>1. i \in FirstID .. rows /\ (Here(i) \/ Coming(i))
    BY DEF LogInv, LogCover
  <2>2. CASE Here(i)
    BY <2>1, <2>2
  <2>3. CASE \E h \in handlers : Brings(h, i)
    BY <2>1, <2>3 DEF Coming
  <2>4. CASE (\E k \in 1 .. Len(notes) : Tells(notes[k], i)) \/ (producer.step = "publish" /\ producer.after < i)
    BY <2>4 DEF Coming
  <2> QED BY <2>1, <2>2, <2>3, <2>4 DEF Coming
<1> QED BY <1>1, <1>2, <1>3 DEF LogInv, LogTyped

LEMMA ReceiveKeeps == ASSUME LogBounds, LogInv, L!Receive PROVE LogInv'
<1>1. /\ notes # <<>> /\ notes' = Tail(notes)
      /\ handlers' = IF L!Subscribed THEN handlers \union {[note |-> Head(notes), step |-> "begin", todo |-> <<>>]} ELSE handlers
      /\ UNCHANGED <<rows, producer, completed, closed, buffer, reader_logs, done, pending, sent, dropped>>
  BY DEF L!Receive
<1>2. WriterOK /\ NotesOK(notes, rows) /\ HandlersOK(handlers, rows) /\ RequestOK
  BY DEF LogInv, LogTyped
<1>3. notes \in Seq(NoteRow) /\ \A k \in 1 .. Len(notes) : NoteOK(notes[k], rows)
  BY <1>2 DEF NotesOK
<1>4. /\ Head(notes) \in NoteRow /\ Tail(notes) \in Seq(NoteRow)
      /\ Len(Tail(notes)) = Len(notes) - 1 /\ \A k \in 1 .. Len(Tail(notes)) : Tail(notes)[k] = notes[k + 1] /\ k + 1 \in 1 .. Len(notes)
      /\ 1 \in 1 .. Len(notes) /\ Head(notes) = notes[1]
  BY <1>1, <1>3, RangeTail
<1>5. NotesOK(notes', rows)
  BY <1>1, <1>3, <1>4 DEF NotesOK
<1>6. PICK g : g = [note |-> Head(notes), step |-> "begin", todo |-> <<>>]
  OBVIOUS
<1>7. g \in HandlerRow /\ NoteOK(g.note, rows) /\ g.note = Head(notes) /\ g.step = "begin" /\ g.todo = <<>>
  <2>1. <<>> \in Seq(L!Lines)
    OBVIOUS
  <2>2. NoteOK(Head(notes), rows)
    BY <1>3, <1>4
  <2> QED BY <1>4, <1>6, <2>1, <2>2 DEF HandlerRow
<1>8. HandlersOK(handlers', rows)
  BY <1>1, <1>2, <1>6, <1>7 DEF HandlersOK
<1>9. WriterOK' /\ RequestOK'
  BY <1>1, <1>2 DEF WriterOK, RequestOK
<1>10. LogFlow' /\ LogEnd'
  BY <1>1, RequestKeeps
<1>11. LogCover'
  <2> SUFFICES ASSUME reader_logs'.at \in {"sending", "streaming"}, ~closed', NEW i \in FirstID .. rows' PROVE Here(i)' \/ Coming(i)'
    BY DEF LogCover
  <2>1. handlers' = handlers \union {g}
    BY <1>1, <1>6 DEF L!Subscribed
  <2>2. Here(i) \/ Coming(i)
    BY <1>1 DEF LogInv, LogCover
  <2>3. CASE Here(i)
    BY <1>1, <2>3 DEF Here
  <2>4. CASE (\E h \in handlers : Brings(h, i)) \/ (producer.step = "publish" /\ producer.after < i)
    BY <1>1, <2>1, <2>4 DEF Coming
  <2>5. ASSUME NEW k \in 1 .. Len(notes), Tells(notes[k], i) PROVE Coming(i)'
    <3>1. CASE k = 1
      <4>1. Brings(g, i)
        BY <1>4, <1>7, <2>5, <3>1 DEF Brings
      <4> QED BY <2>1, <4>1 DEF Coming
    <3>2. CASE k # 1
      <4>1. k - 1 \in 1 .. Len(Tail(notes)) /\ (k - 1) + 1 = k
        BY <1>3, <1>4, <3>2
      <4>2. Tail(notes)[k - 1] = notes[k]
        BY <1>4, <4>1
      <4>3. \E j \in 1 .. Len(notes') : Tells(notes'[j], i)
        BY <1>1, <2>5, <4>1, <4>2
      <4> QED BY <4>3 DEF Coming
    <3> QED BY <3>1, <3>2
  <2> QED BY <2>2, <2>3, <2>4, <2>5 DEF Coming
<1> QED BY <1>1, <1>5, <1>8, <1>9, <1>10, <1>11 DEF LogInv, LogTyped

LEMMA HandlerQueryKeeps == ASSUME LogBounds, LogInv, NEW h \in handlers, L!HandlerQuery(h) PROVE LogInv'
<1>1. h.step = "begin" /\ UNCHANGED <<rows, producer, completed, notes, closed, buffer, reader_logs, done, pending, sent, dropped>>
  BY DEF L!HandlerQuery
<1>2. WriterOK /\ HandlersOK(handlers, rows) /\ RequestOK /\ h \in HandlerRow /\ NoteOK(h.note, rows) /\ handlers \subseteq HandlerRow
  BY DEF LogInv, LogTyped, HandlersOK
<1>3. RequestOK' /\ \A i : Here(i) => Here(i)'
  BY <1>1, <1>2 DEF RequestOK, Here
<1>4. CASE closed
  <2>1. handlers' = handlers \ {h}
    BY <1>4 DEF L!HandlerQuery, L!Becomes
  <2>2. HandlersOK(handlers', rows)
    BY <1>2, <2>1 DEF HandlersOK
  <2> QED BY <1>1, <1>3, <1>4, <2>2, HandlersKeep
<1>5. CASE ~closed
  <2>1. PICK q : q = IF h.note.after # 0 THEN L!Query(h.note.after) ELSE <<>>
    OBVIOUS
  <2>2. PICK g : g = [h EXCEPT !.step = "push", !.todo = q]
    OBVIOUS
  <2>3. handlers' = (handlers \ {h}) \union {g}
    BY <1>5, <2>1, <2>2 DEF L!HandlerQuery, L!Becomes
  <2>4. h.note \in NoteRow /\ h.note.after \in Nat /\ (h.note.after <= rows \/ h.note.after < FirstID)
    BY <1>2 DEF NoteOK, NoteRow, LogBounds, WriterOK
  <2>5. q \in Seq(L!Lines)
    BY <1>2, <2>1, <2>4, QueryOK
  <2>6. g \in HandlerRow /\ g.note = h.note /\ g.todo = q /\ g.step = "push"
    BY <1>2, <2>2, <2>5 DEF HandlerRow
  <2>7. HandlersOK(handlers', rows)
    BY <1>2, <2>3, <2>6 DEF HandlersOK
  <2>8. ASSUME NEW i \in FirstID .. rows, NEW f \in handlers, Brings(f, i)
        PROVE  Here(i)' \/ \E e \in handlers' : Brings(e, i)
    <3>1. CASE f # h
      BY <2>3, <2>8, <3>1
    <3>2. CASE f = h /\ Tells(h.note, i)
      <4>1. h.note.after # 0 /\ h.note.after < i
        BY <2>4, <3>2 DEF Tells
      <4>2. i \in L!Range(q)
        BY <1>2, <2>1, <2>4, <4>1, QueryOK
      <4>3. Brings(g, i)
        BY <2>6, <4>2 DEF Brings
      <4> QED BY <2>3, <4>3
    <3>3. CASE f = h /\ i \in L!Range(h.todo)
      <4>1. h.todo = <<>>
        BY <1>1, <1>2 DEF HandlersOK
      <4> QED BY <3>3, <4>1, RangeEmpty
    <3> QED BY <2>8, <3>1, <3>2, <3>3 DEF Brings
  <2> QED BY <1>1, <1>3, <2>7, <2>8, HandlersKeep
<1> QED BY <1>4, <1>5

LEMMA HandlerPushKeeps == ASSUME LogBounds, LogInv, NEW h \in handlers, L!HandlerPush(h) PROVE LogInv'
<1>1. h.step = "push" /\ h.todo # <<>> /\ UNCHANGED <<rows, producer, completed, notes, closed, reader_logs, done, pending, sent>>
  BY DEF L!HandlerPush
<1>2. HandlersOK(handlers, rows) /\ RequestOK /\ h \in HandlerRow /\ NoteOK(h.note, rows) /\ handlers \subseteq HandlerRow
  BY DEF LogInv, LogTyped, HandlersOK
<1>3. CASE closed
  <2>1. handlers' = handlers \ {h} /\ UNCHANGED <<buffer, dropped>>
    BY <1>3 DEF L!HandlerPush, L!Becomes
  <2>2. HandlersOK(handlers', rows) /\ RequestOK'
    BY <1>1, <1>2, <2>1 DEF HandlersOK, RequestOK
  <2> QED BY <1>1, <1>3, <2>2, HandlersKeep
<1>4. CASE ~closed
  <2>1. PICK x, t : x = Head(h.todo) /\ t = Tail(h.todo)
    OBVIOUS
  <2>2. h.todo \in Seq(L!Lines)
    BY <1>2 DEF HandlerRow
  <2>3. x \in L!Lines /\ t \in Seq(L!Lines) /\ L!Range(h.todo) = L!Range(t) \union {x}
    BY <1>1, <2>1, <2>2, RangeTail
  <2>4. PICK g : g = [h EXCEPT !.todo = t]
    OBVIOUS
  <2>5. g \in HandlerRow /\ g.note = h.note /\ g.todo = t /\ g.step = "push"
    BY <1>1, <1>2, <2>3, <2>4 DEF HandlerRow
  <2>6. handlers' = (handlers \ {h}) \union {g}
    BY <1>4, <2>1, <2>4 DEF L!HandlerPush, L!Becomes
  <2>7. HandlersOK(handlers', rows)
    BY <1>2, <2>5, <2>6 DEF HandlersOK
  <2>8. /\ buffer' = (IF L!Full THEN buffer ELSE Append(buffer, x))
        /\ dropped' = (IF L!Full THEN dropped \union {x} ELSE dropped)
    BY <1>4, <2>1 DEF L!HandlerPush
  <2>9. buffer \in Seq(L!Lines) /\ Len(buffer) <= BufferSize /\ Len(buffer) \in Nat /\ dropped \subseteq L!Lines
    BY <1>2 DEF RequestOK
  <2>10. /\ buffer' \in Seq(L!Lines) /\ Len(buffer') <= BufferSize /\ dropped' \subseteq L!Lines
         /\ L!Range(buffer) \subseteq L!Range(buffer') /\ dropped \subseteq dropped' /\ (x \in L!Range(buffer') \/ x \in dropped')
    <3>1. CASE L!Full
      BY <2>3, <2>8, <2>9, <3>1
    <3>2. CASE ~L!Full
      <4>1. Len(buffer) + 1 <= BufferSize
        BY <2>9, <3>2 DEF L!Full, LogBounds
      <4>2. Len(Append(buffer, x)) = Len(buffer) + 1 /\ Append(buffer, x) \in Seq(L!Lines)
        BY <2>3, <2>9
      <4>3. L!Range(Append(buffer, x)) = L!Range(buffer) \union {x}
        BY <2>3, <2>9, RangeAppend
      <4> QED BY <2>8, <2>9, <3>2, <4>1, <4>2, <4>3
    <3> QED BY <3>1, <3>2
  <2>11. RequestOK'
    BY <1>1, <1>2, <2>10 DEF RequestOK
  <2>12. \A i : Here(i) => Here(i)'
    BY <1>1, <2>10 DEF Here
  <2>13. ASSUME NEW i \in FirstID .. rows, NEW f \in handlers, Brings(f, i)
        PROVE  Here(i)' \/ \E e \in handlers' : Brings(e, i)
    <3>1. CASE f # h
      BY <2>6, <2>13, <3>1
    <3>2. CASE f = h
      <4>1. i = x \/ i \in L!Range(t)
        BY <1>1, <2>3, <2>13, <3>2 DEF Brings
      <4>2. CASE i = x
        BY <2>10, <4>2 DEF Here
      <4>3. CASE i \in L!Range(t)
        BY <2>5, <2>6, <4>3 DEF Brings
      <4> QED BY <4>1, <4>2, <4>3
    <3> QED BY <3>1, <3>2
  <2> QED BY <1>1, <2>7, <2>11, <2>12, <2>13, HandlersKeep
<1> QED BY <1>3, <1>4

LEMMA HandlerEndKeeps == ASSUME LogBounds, LogInv, NEW h \in handlers, L!HandlerEnd(h) PROVE LogInv'
<1>1. /\ h.step = "push" /\ h.todo = <<>> /\ closed' = (closed \/ h.note.end) /\ handlers' = handlers \ {h}
      /\ UNCHANGED <<rows, producer, completed, notes, buffer, reader_logs, done, pending, sent, dropped>>
  BY DEF L!HandlerEnd, L!Becomes
<1>2. HandlersOK(handlers, rows) /\ RequestOK
  BY DEF LogInv, LogTyped
<1>3. closed' \in BOOLEAN /\ (~closed' => ~closed)
  BY <1>1
<1>4. HandlersOK(handlers', rows)
  BY <1>1, <1>2 DEF HandlersOK
<1>5. RequestOK'
  BY <1>1, <1>2, <1>3 DEF RequestOK
<1>6. \A i : Here(i) => Here(i)'
  BY <1>1 DEF Here
<1>7. \A i : ~Brings(h, i)
  BY <1>1, RangeEmpty DEF Brings
<1>8. \A i : \A f \in handlers : Brings(f, i) => \E e \in handlers' : Brings(e, i)
  BY <1>1, <1>7
<1> QED BY <1>1, <1>3, <1>4, <1>5, <1>6, <1>8, HandlersKeep

\* The request goes on, and nothing else does.
LEMMA ReaderKeeps ==
  ASSUME LogBounds, LogInv, UNCHANGED <<rows, producer, completed, notes, handlers, closed>>, RequestOK', LogFlow', LogEnd', LogCover'
  PROVE  LogInv'
<1>1. WriterOK' /\ NotesOK(notes', rows') /\ HandlersOK(handlers', rows')
  BY DEF LogInv, LogTyped, WriterOK
<1> QED BY <1>1 DEF LogInv, LogTyped

LEMMA BeginKeeps == ASSUME LogBounds, LogInv, L!Subscribe \/ L!CheckJob \/ L!ClientLeaves PROVE LogInv'
<1>1. UNCHANGED <<rows, producer, completed, notes, handlers, closed, buffer, done, pending, sent, dropped>>
  BY DEF L!Subscribe, L!CheckJob, L!ClientLeaves
<1>2. RequestOK /\ LogFlow /\ LogEnd /\ completed \in BOOLEAN
  BY DEF LogInv, LogTyped, WriterOK
<1>3. /\ reader_logs' \in [at : {"start", "subscribed", "checked", "sending", "streaming", "over"}, ended : BOOLEAN]
      /\ \/ reader_logs.at = "start" /\ reader_logs'.at = "subscribed" /\ reader_logs'.ended = reader_logs.ended
         \/ reader_logs.at = "subscribed" /\ reader_logs'.at = "checked" /\ reader_logs'.ended = completed
         \/ reader_logs'.at = "over" /\ ~reader_logs'.ended
  <2>1. CASE L!Subscribe
    BY <1>2, <2>1 DEF L!Subscribe, RequestOK
  <2>2. CASE L!CheckJob
    BY <1>2, <2>2 DEF L!CheckJob, RequestOK
  <2>3. CASE L!ClientLeaves
    BY <1>2, <2>3 DEF L!ClientLeaves, RequestOK
  <2> QED BY <2>1, <2>2, <2>3
<1>4. RequestOK'
  BY <1>1, <1>2, <1>3 DEF RequestOK
<1>5. LogFlow' /\ LogEnd' /\ LogCover'
  BY <1>1, <1>2, <1>3 DEF LogFlow, LogEnd, LogCover
<1> QED BY <1>1, <1>4, <1>5, ReaderKeeps

LEMMA ReadHistoryKeeps == ASSUME LogBounds, LogInv, L!ReadHistory PROVE LogInv'
<1>1. /\ reader_logs.at = "checked" /\ reader_logs' = [reader_logs EXCEPT !.at = "sending"] /\ pending' = L!Query(0)
      /\ UNCHANGED <<rows, producer, completed, notes, handlers, closed, buffer, done, sent, dropped>>
  BY DEF L!ReadHistory
<1>2. WriterOK /\ RequestOK /\ LogFlow /\ LogEnd
  BY DEF LogInv, LogTyped
<1>3. PICK q : q = L!Query(0)
  OBVIOUS
<1>4. 0 \in Nat /\ 0 < FirstID
  BY DEF LogBounds
<1>5. /\ q \in Seq(L!Lines) /\ (\A i \in FirstID .. rows : 0 < i => i \in L!Range(q)) /\ L!Range(q) \subseteq FirstID .. rows
      /\ \A j, k \in 1 .. Len(q) : q[j] = q[k] => j = k
  BY <1>2, <1>3, <1>4, QueryOK
<1>6. L!Range(q) = FirstID .. rows
  <2>1. \A i \in FirstID .. rows : 0 < i
    BY DEF LogBounds
  <2> QED BY <1>5, <2>1
<1>7. pending' = q /\ sent = <<>> /\ done = {} /\ L!Range(sent) = {}
  BY <1>1, <1>2, <1>3, RangeEmpty DEF LogFlow
<1>8. /\ reader_logs' \in [at : {"start", "subscribed", "checked", "sending", "streaming", "over"}, ended : BOOLEAN]
      /\ reader_logs'.at = "sending" /\ reader_logs'.ended = reader_logs.ended
  BY <1>1, <1>2 DEF RequestOK
<1>9. RequestOK'
  BY <1>1, <1>2, <1>5, <1>7, <1>8 DEF RequestOK
<1>10. LogFlow'
  BY <1>1, <1>2, <1>5, <1>7, <1>8 DEF LogFlow
<1>11. LogEnd'
  BY <1>1, <1>2, <1>6, <1>7, <1>8 DEF LogEnd
<1>12. LogCover'
  BY <1>1, <1>6, <1>7 DEF LogCover, Here
<1> QED BY <1>1, <1>9, <1>10, <1>11, <1>12, ReaderKeeps

LEMMA SendHistoryKeeps == ASSUME LogBounds, LogInv, L!SendHistory PROVE LogInv'
<1>1. /\ reader_logs.at = "sending" /\ pending # <<>>
      /\ sent' = Append(sent, Head(pending)) /\ done' = done \union {Head(pending)} /\ pending' = Tail(pending)
      /\ UNCHANGED <<rows, producer, completed, notes, handlers, closed, buffer, reader_logs, dropped>>
  BY DEF L!SendHistory
<1>2. RequestOK /\ LogFlow /\ LogEnd /\ LogCover /\ pending \in Seq(L!Lines) /\ sent \in Seq(L!Lines) /\ done \subseteq L!Lines
  BY DEF LogInv, LogTyped, RequestOK
<1>3. PICK x, t, s : x = Head(pending) /\ t = Tail(pending) /\ s = Append(sent, x)
  OBVIOUS
<1>4. /\ x \in L!Lines /\ t \in Seq(L!Lines) /\ L!Range(pending) = L!Range(t) \union {x}
      /\ \A k \in 1 .. Len(t) : t[k] = pending[k + 1] /\ k + 1 \in 1 .. Len(pending)
      /\ 1 \in 1 .. Len(pending) /\ x = pending[1]
  BY <1>1, <1>2, <1>3, RangeTail
<1>5. s \in Seq(L!Lines) /\ Len(s) = Len(sent) + 1 /\ s[Len(sent) + 1] = x /\ \A k \in 1 .. Len(sent) : s[k] = sent[k]
  BY <1>2, <1>3, <1>4
<1>6. L!Range(s) = L!Range(sent) \union {x}
  BY <1>2, <1>3, <1>4, RangeAppend
<1>7. x \notin done /\ done = L!Range(sent)
  BY <1>1, <1>2, <1>4 DEF LogFlow
<1>8. sent' = s /\ pending' = t /\ done' = done \union {x}
  BY <1>1, <1>3
<1>9. RequestOK'
  BY <1>1, <1>2, <1>4, <1>5, <1>8 DEF RequestOK
<1>10. \A k \in 1 .. Len(sent) : sent[k] \in L!Range(sent)
  BY <1>2, RangeIs
<1>11. \A k \in 1 .. Len(s) : (k \in 1 .. Len(sent) /\ s[k] \in done) \/ k = Len(sent) + 1
  <2>1. \A k \in 1 .. Len(s) : k \in 1 .. Len(sent) \/ k = Len(sent) + 1
    BY <1>2, <1>5
  <2> QED BY <1>5, <1>7, <1>10, <2>1
<1>12. \A j, k \in 1 .. Len(s) : s[j] = s[k] => j = k
  <2> SUFFICES ASSUME NEW j \in 1 .. Len(s), NEW k \in 1 .. Len(s), s[j] = s[k] PROVE j = k
    OBVIOUS
  <2>1. CASE j = Len(sent) + 1 \/ k = Len(sent) + 1
    BY <1>5, <1>7, <1>11, <2>1
  <2>2. CASE j \in 1 .. Len(sent) /\ k \in 1 .. Len(sent)
    <3>1. sent[j] = sent[k] /\ sent[j] \in done
      BY <1>5, <1>7, <1>10, <2>2
    <3> QED BY <1>2, <2>2, <3>1 DEF LogFlow
  <2> QED BY <1>11, <2>1, <2>2
<1>13. /\ \A k \in 1 .. Len(t) : t[k] \notin done \union {x}
       /\ \A j, k \in 1 .. Len(t) : t[j] = t[k] => j = k
  <2>1. \A j, k \in 1 .. Len(pending) : pending[j] = pending[k] => j = k
    BY <1>1, <1>2 DEF LogFlow
  <2>2. \A k \in 1 .. Len(pending) : pending[k] \notin done
    BY <1>1, <1>2 DEF LogFlow
  <2>3. \A k \in 1 .. Len(t) : t[k] \notin done \union {x}
    <3>1. ASSUME NEW k \in 1 .. Len(t) PROVE pending[k + 1] # x
      <4>1. k + 1 # 1 /\ k + 1 \in 1 .. Len(pending)
        BY <1>4
      <4> QED BY <1>4, <2>1, <4>1
    <3> QED BY <1>4, <2>2, <3>1
  <2>4. ASSUME NEW j \in 1 .. Len(t), NEW k \in 1 .. Len(t), t[j] = t[k] PROVE j = k
    <3>1. j + 1 = k + 1
      BY <1>4, <2>1, <2>4
    <3> QED BY <3>1
  <2> QED BY <2>3, <2>4
<1>14. LogFlow'
  <2>1. reader_logs'.at = "sending"
    BY <1>1
  <2>2. done' \subseteq L!Range(s) /\ L!Range(s) \subseteq done'
    BY <1>6, <1>7, <1>8
  <2> QED BY <1>8, <1>12, <1>13, <2>1, <2>2 DEF LogFlow
<1>15. LogEnd'
  <2>1. L!Range(s) \union L!Range(t) = L!Range(sent) \union L!Range(pending)
    BY <1>4, <1>6
  <2> QED BY <1>1, <1>2, <1>8, <2>1 DEF LogEnd
<1>16. ASSUME NEW i, Here(i) PROVE Here(i)'
  BY <1>1, <1>4, <1>6, <1>8, <1>16 DEF Here
<1>17. LogCover'
  BY <1>1, <1>2, <1>16 DEF LogCover, Coming
<1> QED BY <1>1, <1>9, <1>14, <1>15, <1>17, ReaderKeeps

LEMMA EndHistoryKeeps == ASSUME LogBounds, LogInv, L!EndHistory PROVE LogInv'
<1>1. /\ reader_logs.at = "sending" /\ pending = <<>>
      /\ reader_logs' = [reader_logs EXCEPT !.at = IF reader_logs.ended THEN "over" ELSE "streaming"]
      /\ UNCHANGED <<rows, producer, completed, notes, handlers, closed, buffer, done, pending, sent, dropped>>
  BY DEF L!EndHistory
<1>2. RequestOK /\ LogFlow /\ LogEnd /\ LogCover
  BY DEF LogInv, LogTyped
<1>3. /\ reader_logs' \in [at : {"start", "subscribed", "checked", "sending", "streaming", "over"}, ended : BOOLEAN]
      /\ reader_logs'.ended = reader_logs.ended
      /\ reader_logs'.at = IF reader_logs.ended THEN "over" ELSE "streaming"
  BY <1>1, <1>2 DEF RequestOK
<1>4. RequestOK'
  BY <1>1, <1>2, <1>3 DEF RequestOK
<1>5. LogFlow'
  BY <1>1, <1>2, <1>3 DEF LogFlow
<1>6. LogEnd'
  BY <1>1, <1>2, <1>3, RangeEmpty DEF LogEnd
<1>7. LogCover'
  BY <1>1, <1>2, <1>3 DEF LogCover, Here, Coming
<1> QED BY <1>1, <1>4, <1>5, <1>6, <1>7, ReaderKeeps

LEMMA StreamLineKeeps == ASSUME LogBounds, LogInv, L!StreamLine PROVE LogInv'
<1>1. /\ reader_logs.at = "streaming" /\ buffer # <<>> /\ buffer' = Tail(buffer)
      /\ sent' = IF L!Fresh(Head(buffer)) THEN Append(sent, Head(buffer)) ELSE sent
      /\ UNCHANGED <<rows, producer, completed, notes, handlers, closed, reader_logs, done, pending, dropped>>
  BY DEF L!StreamLine
<1>2. /\ RequestOK /\ LogFlow /\ LogEnd /\ LogCover /\ buffer \in Seq(L!Lines) /\ sent \in Seq(L!Lines)
      /\ Len(buffer) <= BufferSize /\ done \subseteq L!Range(sent)
  BY DEF LogInv, LogTyped, RequestOK, LogFlow
<1>3. PICK x, t : x = Head(buffer) /\ t = Tail(buffer)
  OBVIOUS
<1>4. /\ x \in L!Lines /\ t \in Seq(L!Lines) /\ L!Range(buffer) = L!Range(t) \union {x} /\ Len(t) = Len(buffer) - 1
  BY <1>1, <1>2, <1>3, RangeTail
<1>5. Len(t) <= BufferSize
  BY <1>2, <1>4 DEF LogBounds
<1>6. PICK s : s = sent'
  OBVIOUS
<1>7. /\ s \in Seq(L!Lines) /\ L!Range(sent) \subseteq L!Range(s) /\ x \in L!Range(s)
      /\ \A j, k \in 1 .. Len(s) : s[j] = s[k] /\ s[j] \in done => j = k
  <2>1. \A j, k \in 1 .. Len(sent) : sent[j] = sent[k] /\ sent[j] \in done => j = k
    BY <1>2 DEF LogFlow
  <2>2. CASE x \in done
    <3>1. s = sent
      BY <1>1, <1>3, <1>6, <2>2 DEF L!Fresh
    <3> QED BY <1>2, <2>1, <2>2, <3>1
  <2>3. CASE x \notin done
    <3>1. s = Append(sent, x)
      BY <1>1, <1>3, <1>6, <2>3 DEF L!Fresh
    <3>2. L!Range(s) = L!Range(sent) \union {x}
      BY <1>2, <1>4, <3>1, RangeAppend
    <3>3. s \in Seq(L!Lines) /\ Len(s) = Len(sent) + 1 /\ s[Len(sent) + 1] = x /\ \A k \in 1 .. Len(sent) : s[k] = sent[k]
      BY <1>2, <1>4, <3>1
    <3>4. \A k \in 1 .. Len(s) : k \in 1 .. Len(sent) \/ k = Len(sent) + 1
      BY <1>2, <3>3
    <3>5. \A k \in 1 .. Len(s) : s[k] \in done => k \in 1 .. Len(sent)
      BY <2>3, <3>3, <3>4
    <3>6. \A j, k \in 1 .. Len(s) : s[j] = s[k] /\ s[j] \in done => j = k
      BY <2>1, <3>3, <3>5
    <3> QED BY <3>2, <3>3, <3>6
  <2> QED BY <2>2, <2>3
<1>8. sent' = s /\ buffer' = t
  BY <1>1, <1>3, <1>6
<1>9. RequestOK'
  BY <1>1, <1>2, <1>4, <1>5, <1>7, <1>8 DEF RequestOK
<1>10. LogFlow'
  BY <1>1, <1>2, <1>7, <1>8 DEF LogFlow
<1>11. LogEnd'
  BY <1>1, <1>2 DEF LogEnd
<1>12. ASSUME NEW i, Here(i) PROVE Here(i)'
  BY <1>1, <1>4, <1>7, <1>8, <1>12 DEF Here
<1>13. LogCover'
  BY <1>1, <1>2, <1>12 DEF LogCover, Coming
<1> QED BY <1>1, <1>9, <1>10, <1>11, <1>13, ReaderKeeps

LEMMA StreamEndKeeps == ASSUME LogBounds, LogInv, L!StreamEnd PROVE LogInv'
<1>1. /\ reader_logs.at = "streaming" /\ reader_logs' = [reader_logs EXCEPT !.at = "over"]
      /\ UNCHANGED <<rows, producer, completed, notes, handlers, closed, buffer, done, pending, sent, dropped>>
  BY DEF L!StreamEnd
<1>2. RequestOK /\ LogFlow /\ LogEnd
  BY DEF LogInv, LogTyped
<1>3. /\ reader_logs' \in [at : {"start", "subscribed", "checked", "sending", "streaming", "over"}, ended : BOOLEAN]
      /\ reader_logs'.ended = reader_logs.ended /\ reader_logs'.at = "over" /\ ~reader_logs.ended
  BY <1>1, <1>2 DEF RequestOK, LogFlow
<1>4. RequestOK'
  BY <1>1, <1>2, <1>3 DEF RequestOK
<1>5. LogFlow' /\ LogEnd' /\ LogCover'
  BY <1>1, <1>2, <1>3 DEF LogFlow, LogEnd, LogCover
<1> QED BY <1>1, <1>4, <1>5, ReaderKeeps

LEMMA NextLogs == ASSUME LogBounds, LogInv, [L!Next]_(L!vars) PROVE LogInv'
<1>1. CASE UNCHANGED L!vars
  BY <1>1 DEF L!vars, LogInv, LogTyped, WriterOK, RequestOK, LogFlow, LogEnd, LogCover, Here, Coming
<1>2. CASE L!Next
  <2>1. CASE (\E n \in BatchSizes : L!InsertLogs(n)) \/ L!PublishLogs \/ L!EndJob \/ L!PublishEnd
    BY <2>1, InsertKeeps, PublishLogsKeeps, EndJobKeeps, PublishEndKeeps
  <2>2. CASE L!Receive \/ \E h \in handlers : L!Handler(h)
    BY <2>2, ReceiveKeeps, HandlerQueryKeeps, HandlerPushKeeps, HandlerEndKeeps DEF L!Handler
  <2>3. CASE L!Request \/ L!ClientLeaves
    BY <2>3, BeginKeeps, ReadHistoryKeeps, SendHistoryKeeps, EndHistoryKeeps, StreamLineKeeps, StreamEndKeeps DEF L!Request
  <2> QED BY <1>2, <2>1, <2>2, <2>3 DEF L!Next
<1> QED BY <1>1, <1>2

LEMMA LogsSafe == ASSUME LogBounds, LogInv PROVE L!TypeOK /\ L!NoGap /\ L!HistoryOnce /\ L!CompleteHistory
<1>1. WriterOK /\ RequestOK /\ LogFlow /\ LogEnd /\ LogCover
  BY DEF LogInv, LogTyped
<1>2. L!TypeOK
  <2>1. \A s \in Seq(L!Lines) : L!Range(s) \subseteq L!Lines
    BY DEF L!Range
  <2> QED BY <1>1, <2>1 DEF L!TypeOK, WriterOK, RequestOK
<1>3. L!NoGap
  <2> SUFFICES ASSUME reader_logs.at = "streaming", ~closed, NEW i \in FirstID .. rows
               PROVE  i \in L!Range(sent) \union L!Range(buffer) \union dropped \union L!InFlight
    BY DEF L!NoGap
  <2>0. /\ UNION {L!Covers(notes[k]) : k \in {k \in 1 .. Len(notes) : ~notes[k].end}} \subseteq L!InFlight
        /\ UNION {L!Covers(h.note) : h \in {g \in handlers : g.step = "begin" /\ ~g.note.end}} \subseteq L!InFlight
        /\ UNION {L!Range(h.todo) : h \in handlers} \subseteq L!InFlight
        /\ (IF producer.step = "publish" THEN {j \in L!Lines : producer.after < j /\ j <= rows} ELSE {}) \subseteq L!InFlight
    <3>1. ASSUME NEW a, NEW b, NEW c, NEW d
          PROVE  /\ a \subseteq ((a \union b) \union c) \union d /\ b \subseteq ((a \union b) \union c) \union d
                 /\ c \subseteq ((a \union b) \union c) \union d /\ d \subseteq ((a \union b) \union c) \union d
      OBVIOUS
    <3>2. PICK a : a = UNION {L!Covers(notes[k]) : k \in {k \in 1 .. Len(notes) : ~notes[k].end}}
      OBVIOUS
    <3>3. PICK b : b = UNION {L!Covers(h.note) : h \in {g \in handlers : g.step = "begin" /\ ~g.note.end}}
      OBVIOUS
    <3>4. PICK c : c = UNION {L!Range(h.todo) : h \in handlers}
      OBVIOUS
    <3>5. PICK d : d = IF producer.step = "publish" THEN {j \in L!Lines : producer.after < j /\ j <= rows} ELSE {}
      OBVIOUS
    <3>6. L!InFlight = ((a \union b) \union c) \union d
      BY <3>2, <3>3, <3>4, <3>5, Zenon DEF L!InFlight
    <3> QED BY <3>1, <3>2, <3>3, <3>4, <3>5, <3>6, Zenon
  <2>1. Here(i) \/ Coming(i)
    BY <1>1 DEF LogCover
  <2>2. i \in L!Lines /\ i <= rows
    BY <1>1 DEF L!Lines, WriterOK, LogBounds
  <2>3. i \notin L!Range(pending)
    BY <1>1, RangeEmpty DEF LogFlow
  <2>4. ASSUME NEW k \in 1 .. Len(notes), Tells(notes[k], i) PROVE i \in L!InFlight
    <3>1. i \in L!Covers(notes[k]) /\ ~notes[k].end
      BY <2>2, <2>4 DEF L!Covers, Tells
    <3> QED BY <3>1, <2>0
  <2>5. ASSUME NEW h \in handlers, Brings(h, i) PROVE i \in L!InFlight
    <3>1. CASE i \in L!Range(h.todo)
      BY <2>0, <3>1
    <3>2. CASE h.step = "begin" /\ Tells(h.note, i)
      <4>1. i \in L!Covers(h.note) /\ ~h.note.end
        BY <2>2, <3>2 DEF L!Covers, Tells
      <4> QED BY <2>0, <3>2, <4>1
    <3> QED BY <2>5, <3>1, <3>2 DEF Brings
  <2>6. ASSUME producer.step = "publish" /\ producer.after < i PROVE i \in L!InFlight
    BY <2>0, <2>2, <2>6
  <2>7. Coming(i) => i \in L!InFlight
    BY <2>4, <2>5, <2>6 DEF Coming
  <2> QED BY <2>1, <2>3, <2>7 DEF Here
<1>4. L!HistoryOnce
  <2> SUFFICES ASSUME NEW i \in done PROVE L!Cardinality({k \in 1 .. Len(sent) : sent[k] = i}) = 1
    BY DEF L!HistoryOnce
  <2>1. sent \in Seq(L!Lines) /\ i \in L!Range(sent)
    BY <1>1 DEF RequestOK, LogFlow
  <2>2. PICK j \in 1 .. Len(sent) : sent[j] = i
    BY <2>1, RangeIs
  <2>3. {k \in 1 .. Len(sent) : sent[k] = i} = {j}
    BY <1>1, <2>2 DEF LogFlow
  <2>4. Cardinality({j}) = 1
    BY FS_Singleton
  <2>5. L!Cardinality({j}) = 1
    BY <2>4 DEF L!Cardinality, Cardinality
  <2> QED BY <2>3, <2>5
<1>5. L!CompleteHistory
  BY <1>1 DEF LogEnd, L!CompleteHistory
<1> QED BY <1>2, <1>3, <1>4, <1>5

\* For any number of lines, batches of lines and callbacks, and a channel of any size: while the
\* stream is open every line there is has been sent, is in the channel, met a full channel or is
\* still announced; nothing the first query returned is sent again; and a request that finds the
\* job complete has sent every line when it ends (followLogs and provisionerJobLogs of
\* coderd/provisionerjobs.go).
THEOREM LogsHaveNoGap ==
  ASSUME LogBounds PROVE L!Spec => [](L!NoGap /\ L!HistoryOnce /\ L!CompleteHistory)
<1>1. L!Init => LogInv
  BY InitLogs
<1>2. LogInv /\ [L!Next]_(L!vars) => LogInv'
  BY NextLogs
<1>3. LogInv => L!NoGap /\ L!HistoryOnce /\ L!CompleteHistory
  BY LogsSafe
<1> QED BY <1>1, <1>2, <1>3, PTL DEF L!Spec

-----------------------------------------------------------------------------
(* Watching a workspace.  A build that has succeeded stays so and has its  *)
(* resources, and a reader looks at the job before it looks at them.       *)

\* What the proofs need to know of the constants: a workspace may begin with two builds.
WatchBounds == MaxBuilds \in Nat /\ MaxBuilds >= 2 /\ MaxChanges \in Nat /\ MaxLost \in Nat

BuildRow == [transition : {"start", "delete"}, status : W!Statuses, resources : BOOLEAN]
ViewRow == [active : Nat, build : Nat, status : W!Statuses, resources : BOOLEAN]
ReaderRow ==
    [kind : W!Kinds \union {"none"}, pc : {"idle", "templates", "builds", "jobs", "resources", "convert", "send"},
     start : 0 .. MaxChanges, view : ViewRow]

BuildOK(b) == b.status = "succeeded" /\ b.transition = "start" => b.resources

\* What a reader has seen of the builds bs.
ReaderOK(r, bs) ==
    /\ r.pc \in {"jobs", "resources", "convert", "send"} => r.view.build \in 1 .. Len(bs)
    /\ r.pc = "resources" /\ r.view.status = "succeeded" => bs[r.view.build].status = "succeeded"
    /\ r.pc = "convert" /\ r.view.status = "succeeded" /\ bs[r.view.build].transition = "start" => r.view.resources

BuildsOK(bs) == bs \in Seq(BuildRow) /\ Len(bs) \in 1 .. MaxBuilds /\ \A b \in 1 .. Len(bs) : BuildOK(bs[b])

\* The publications to come are of writes that were made.
WatchTyped ==
    /\ deleted \in BOOLEAN /\ tpl \in [active : Nat, deleted : BOOLEAN]
    /\ out \in [W!Channels -> Nat] /\ clock \in 0 .. MaxChanges
    /\ out["workspace"] + out["template"] <= clock
    /\ watch \in {"none", "off", "workspace", "on", "leaving", "over"}
    /\ spawned \in Nat
    /\ panics \subseteq W!Kinds
    /\ heard \in 0 .. MaxChanges /\ since \in 0 .. MaxChanges /\ lost \in 0 .. MaxLost

WatchInv ==
    /\ WatchTyped /\ BuildsOK(builds)
    /\ reader_watch \in [Readers -> ReaderRow]
    /\ \A r \in Readers : ReaderOK(reader_watch[r], builds)

LEMMA NothingSeen == W!Nothing \in ViewRow
  BY DEF W!Nothing, ViewRow, W!Statuses

LEMMA IdleOK == ASSUME WatchBounds, NEW bs PROVE W!Idle \in ReaderRow /\ ReaderOK(W!Idle, bs)
  BY DEF WatchBounds, W!Idle, W!Nothing, ReaderRow, ViewRow, W!Statuses, W!Kinds, ReaderOK

LEMMA InitWatch == ASSUME WatchBounds, W!Init PROVE WatchInv
<1>1. WatchTyped
  <2>1. deleted \in BOOLEAN /\ tpl \in [active : Nat, deleted : BOOLEAN] /\ panics \subseteq W!Kinds
    BY DEF W!Init
  <2>2. out \in [W!Channels -> Nat] /\ out["workspace"] = 0 /\ out["template"] = 0
    BY DEF W!Init, W!Channels
  <2>3. /\ clock = 0 /\ heard = 0 /\ since = 0 /\ lost = 0 /\ spawned = 0
        /\ watch \in {"none", "off", "workspace", "on", "leaving", "over"}
    BY DEF W!Init
  <2>4. 0 \in 0 .. MaxChanges /\ 0 \in 0 .. MaxLost
    BY DEF WatchBounds
  <2> QED BY <2>1, <2>2, <2>3, <2>4 DEF WatchTyped
<1>2. BuildsOK(builds)
  <2>1. PICK s \in {"pending", "running"}, t \in {"start", "delete"} :
          builds = IF t = "start" THEN <<[transition |-> "start", status |-> s, resources |-> s = "succeeded"]>>
                   ELSE <<[[transition |-> "start", status |-> s, resources |-> s = "succeeded"]
                             EXCEPT !.status = "succeeded", !.resources = TRUE],
                          [[transition |-> "start", status |-> s, resources |-> s = "succeeded"]
                             EXCEPT !.transition = "delete", !.resources = FALSE]>>
    BY DEF W!Init
  <2>2. CASE t = "start"
    <3>1. PICK b \in BuildRow : builds = <<b>> /\ b.status # "succeeded"
      <4>1. [transition |-> "start", status |-> s, resources |-> s = "succeeded"] \in BuildRow
        BY DEF BuildRow, W!Statuses
      <4> QED BY <2>1, <2>2, <4>1
    <3>2. builds \in Seq(BuildRow) /\ Len(builds) = 1 /\ builds[1] = b
      BY <3>1
    <3> QED BY <3>1, <3>2 DEF BuildsOK, BuildOK, WatchBounds
  <2>3. CASE t # "start"
    <3>1. PICK b \in BuildRow, c \in BuildRow : builds = <<b, c>> /\ b.resources /\ c.status # "succeeded"
      <4>1. [transition |-> "start", status |-> s, resources |-> s = "succeeded"] \in BuildRow
        BY DEF BuildRow, W!Statuses
      <4>2. PICK f : f = [transition |-> "start", status |-> s, resources |-> s = "succeeded"]
        OBVIOUS
      <4>3. f \in BuildRow /\ f.status = s
        BY <4>1, <4>2
      <4>4. PICK b : b = [f EXCEPT !.status = "succeeded", !.resources = TRUE]
        OBVIOUS
      <4>5. b \in BuildRow /\ b.resources
        BY <4>3, <4>4 DEF BuildRow, W!Statuses
      <4>6. PICK c : c = [f EXCEPT !.transition = "delete", !.resources = FALSE]
        OBVIOUS
      <4>7. c \in BuildRow /\ c.status = s
        BY <4>3, <4>6 DEF BuildRow, W!Statuses
      <4>8. builds = <<b, c>>
        BY <2>1, <2>3, <4>2, <4>4, <4>6
      <4> QED BY <4>5, <4>7, <4>8
    <3>2. builds \in Seq(BuildRow) /\ Len(builds) = 2 /\ builds[1] = b /\ builds[2] = c
      BY <3>1
    <3>3. \A k \in 1 .. Len(builds) : BuildOK(builds[k])
      BY <3>1, <3>2 DEF BuildOK
    <3> QED BY <3>2, <3>3 DEF BuildsOK, WatchBounds
  <2> QED BY <2>2, <2>3
<1> QED BY <1>1, <1>2, IdleOK DEF W!Init, WatchInv

\* Builds are added, and one that has succeeded stays so.
Follow(bs, cs) ==
    /\ Len(bs) \in Nat /\ Len(cs) \in Nat /\ Len(bs) <= Len(cs)
    /\ \A k \in 1 .. Len(bs) : /\ cs[k].transition = bs[k].transition
                               /\ bs[k].status = "succeeded" => cs[k].status = "succeeded"

LEMMA ReaderFollows ==
  ASSUME NEW r, NEW bs, NEW cs, ReaderOK(r, bs), Follow(bs, cs)
  PROVE  ReaderOK(r, cs)
<1>1. r.pc \in {"jobs", "resources", "convert", "send"} => r.view.build \in 1 .. Len(bs) /\ r.view.build \in 1 .. Len(cs)
  BY DEF ReaderOK, Follow
<1> QED BY <1>1 DEF ReaderOK, Follow

\* The writers leave the readers alone.
LEMMA WriterKeeps ==
  ASSUME WatchInv, WatchTyped', UNCHANGED reader_watch, BuildsOK(builds'), Follow(builds, builds')
  PROVE  WatchInv'
<1>1. ASSUME NEW r \in Readers PROVE ReaderOK(reader_watch[r], builds')
  BY ReaderFollows DEF WatchInv
<1> QED BY <1>1 DEF WatchInv

LEMMA SameBuilds == ASSUME WatchInv PROVE Follow(builds, builds)
  BY DEF WatchInv, BuildsOK, Follow

\* A write is counted with its publication.
LEMMA WroteTyped ==
  ASSUME WatchBounds, WatchTyped, NEW c \in W!Channels, W!Wrote(c),
         deleted' \in BOOLEAN, tpl' \in [active : Nat, deleted : BOOLEAN]
  PROVE  WatchTyped'
<1>1. /\ clock' = clock + 1 /\ clock < MaxChanges /\ out' = [out EXCEPT ![c] = out[c] + 1]
      /\ UNCHANGED <<watch, spawned, heard, since, panics, lost>>
  BY DEF W!Wrote, W!pubsub, W!reading
<1>2. out \in [W!Channels -> Nat] /\ clock \in 0 .. MaxChanges /\ out["workspace"] + out["template"] <= clock
  BY DEF WatchTyped
<1>3. out' \in [W!Channels -> Nat]
  BY <1>1, <1>2
<1>4. out'["workspace"] + out'["template"] <= clock'
  BY <1>1, <1>2 DEF W!Channels
<1>5. clock' \in 0 .. MaxChanges
  BY <1>1, <1>2 DEF WatchBounds
<1> QED BY <1>1, <1>3, <1>4, <1>5 DEF WatchTyped

\* The latest build changes, in a way that keeps what it may have settled.
LEMMA LatestMoves ==
  ASSUME WatchBounds, WatchInv, NEW b \in BuildRow, builds' = [builds EXCEPT ![Len(builds)] = b], BuildOK(b),
         b.transition = builds[Len(builds)].transition, builds[Len(builds)].status # "succeeded"
  PROVE  BuildsOK(builds') /\ Follow(builds, builds')
<1>1. builds \in Seq(BuildRow) /\ Len(builds) \in 1 .. MaxBuilds /\ \A k \in 1 .. Len(builds) : BuildOK(builds[k])
  BY DEF WatchInv, BuildsOK
<1>2. PICK n \in Nat : n = Len(builds) /\ n \in 1 .. n /\ builds \in [1 .. n -> BuildRow]
  <2>1. Len(builds) \in Nat /\ Len(builds) \in 1 .. Len(builds)
    BY <1>1
  <2>2. builds \in [1 .. Len(builds) -> BuildRow]
    BY <1>1, LenProperties
  <2> QED BY <2>1, <2>2
<1>3. PICK row : row = builds'
  OBVIOUS
<1>4. row = [builds EXCEPT ![n] = b] /\ n \in 1 .. n
  <2>1. row = [builds EXCEPT ![n] = b]
    BY <1>2, <1>3
  <2>2. n \in 1 .. n
    BY <1>2
  <2> QED BY <2>1, <2>2
<1>5. row \in [1 .. n -> BuildRow] /\ row[n] = b
  BY <1>2, <1>4
<1>6. \A k \in 1 .. n : k # n => row[k] = builds[k]
  BY <1>2, <1>4
<1>7. row \in Seq(BuildRow) /\ Len(row) = n
  <2>1. row \in Seq(BuildRow)
    BY <1>2, <1>5, SeqDef
  <2>2. Len(row) \in Nat /\ 1 .. n = 1 .. Len(row)
    BY <1>5, <2>1, LenProperties
  <2>3. n \in 1 .. Len(row)
    BY <1>4, <2>2
  <2>4. Len(row) \in 1 .. n
    BY <2>2, <2>3
  <2>5. PICK m \in Nat : m = Len(row)
    BY <2>2
  <2>6. n \in 1 .. m /\ m \in 1 .. n
    BY <2>3, <2>4, <2>5
  <2>7. m = n
    BY <2>6
  <2> QED BY <2>1, <2>5, <2>7
<1>8. \A k \in 1 .. n : BuildOK(row[k])
  BY <1>1, <1>2, <1>5, <1>6
<1>9. BuildsOK(builds')
  <2>1. n \in 1 .. MaxBuilds
    BY <1>1, <1>2
  <2> QED BY <1>3, <1>7, <1>8, <2>1 DEF BuildsOK
<1>10. builds[n].transition = b.transition /\ builds[n].status # "succeeded"
  BY <1>2
<1>11. \A k \in 1 .. n : /\ row[k].transition = builds[k].transition
                         /\ builds[k].status = "succeeded" => row[k].status = "succeeded"
  BY <1>2, <1>5, <1>6, <1>10
<1>12. Follow(builds, row)
  <2>1. Len(builds) = n /\ Len(row) = n
    BY <1>2, <1>7
  <2>2. n <= n
    OBVIOUS
  <2> QED BY <1>11, <2>1, <2>2 DEF Follow
<1> QED BY <1>3, <1>9, <1>12

LEMMA WriteKeeps == ASSUME WatchBounds, WatchInv, W!Write PROVE WatchInv'
<1>1. WatchTyped /\ BuildsOK(builds) /\ deleted \in BOOLEAN /\ tpl \in [active : Nat, deleted : BOOLEAN]
  BY DEF WatchInv, WatchTyped
<1>2. "workspace" \in W!Channels /\ "template" \in W!Channels
  BY DEF W!Channels
<1>3. \A c \in W!Channels : W!Wrote(c) => UNCHANGED reader_watch
  BY DEF W!Wrote, W!reading
<1>4. /\ builds \in Seq(BuildRow) /\ Len(builds) \in 1 .. MaxBuilds /\ builds[Len(builds)] \in BuildRow
  <2>1. builds \in Seq(BuildRow) /\ Len(builds) \in 1 .. MaxBuilds
    BY <1>1 DEF BuildsOK
  <2>2. Len(builds) \in 1 .. Len(builds)
    BY <2>1
  <2> QED BY <2>1, <2>2
<1>5. PICK old \in BuildRow : old = builds[Len(builds)]
  BY <1>4
<1>6. CASE UNCHANGED builds /\ UNCHANGED deleted /\ tpl' \in [active : Nat, deleted : BOOLEAN] /\ \E c \in W!Channels : W!Wrote(c)
  <2>1. WatchTyped' /\ UNCHANGED reader_watch
    BY <1>1, <1>3, <1>6, WroteTyped
  <2>2. BuildsOK(builds') /\ Follow(builds, builds')
    BY <1>1, <1>6, SameBuilds
  <2> QED BY <2>1, <2>2, WriterKeeps
<1>7. CASE W!patchWorkspace \/ \E b \in 1 .. W!Last : W!AgentChanges(b)
  BY <1>1, <1>2, <1>6, <1>7 DEF W!patchWorkspace, W!AgentChanges, W!rows
<1>8. CASE W!patchActiveTemplateVersion
  <2>1. tpl' \in [active : Nat, deleted : BOOLEAN]
    BY <1>1, <1>8 DEF W!patchActiveTemplateVersion
  <2> QED BY <1>2, <1>6, <1>8, <2>1 DEF W!patchActiveTemplateVersion
<1>9. CASE W!deleteTemplate
  <2>1. tpl' \in [active : Nat, deleted : BOOLEAN]
    BY <1>1, <1>9 DEF W!deleteTemplate
  <2>2. WatchTyped' /\ UNCHANGED <<reader_watch, builds>>
    BY <1>1, <1>9, <2>1 DEF W!deleteTemplate, WatchTyped, W!pubsub, W!reading
  <2>3. BuildsOK(builds') /\ Follow(builds, builds')
    BY <1>1, <2>2, SameBuilds
  <2> QED BY <2>2, <2>3, WriterKeeps
<1>10. ASSUME NEW b \in BuildRow, builds' = [builds EXCEPT ![Len(builds)] = b], BuildOK(b), b.transition = old.transition,
              old.status # "succeeded", deleted' \in BOOLEAN, UNCHANGED tpl, W!Wrote("workspace")
       PROVE  WatchInv'
  <2>1. WatchTyped' /\ UNCHANGED reader_watch
    BY <1>1, <1>2, <1>3, <1>10, WroteTyped
  <2>2. BuildsOK(builds') /\ Follow(builds, builds')
    BY <1>5, <1>10, LatestMoves
  <2> QED BY <2>1, <2>2, WriterKeeps
<1>11. ASSUME NEW s \in {"running", "canceled", "canceling", "failed"}, W!SetStatus(s), old.status # "succeeded",
              UNCHANGED <<deleted, tpl>>, W!Wrote("workspace")
       PROVE  WatchInv'
  <2>1. PICK b \in BuildRow : b = [old EXCEPT !.status = s]
    BY DEF BuildRow, W!Statuses
  <2>2. b.status = s /\ b.transition = old.transition
    BY <2>1 DEF BuildRow
  <2>3. builds' = [builds EXCEPT ![Len(builds)] = b]
    BY <1>5, <1>11, <2>1 DEF W!SetStatus, W!Last
  <2>4. BuildOK(b)
    BY <2>2 DEF BuildOK
  <2> QED BY <1>1, <1>10, <1>11, <2>2, <2>3, <2>4
<1>12. CASE W!AcquireJob \/ W!FailJob
  BY <1>5, <1>11, <1>12 DEF W!AcquireJob, W!FailJob, W!Last
<1>13. CASE W!patchCancelWorkspaceBuild
  <2>1. PICK s \in {"canceled", "canceling"} : s = IF old.status = "pending" THEN "canceled" ELSE "canceling"
    OBVIOUS
  <2>2. W!SetStatus(s) /\ old.status # "succeeded" /\ UNCHANGED <<deleted, tpl>> /\ W!Wrote("workspace")
    BY <1>5, <1>13, <2>1 DEF W!patchCancelWorkspaceBuild, W!Last
  <2> QED BY <1>11, <2>2
<1>14. CASE W!CompleteJob
  <2>1. PICK st \in BOOLEAN : st = (old.transition = "start")
    OBVIOUS
  <2>2. PICK b \in BuildRow : b = [old EXCEPT !.status = "succeeded", !.resources = st]
    BY DEF BuildRow, W!Statuses
  <2>3. b.resources = st /\ b.transition = old.transition
    BY <2>2 DEF BuildRow
  <2>4. builds' = [builds EXCEPT ![Len(builds)] = b]
    BY <1>5, <1>14, <2>1, <2>2 DEF W!CompleteJob, W!Last
  <2>5. BuildOK(b)
    BY <2>1, <2>3 DEF BuildOK
  <2>6. deleted' \in BOOLEAN /\ UNCHANGED tpl /\ W!Wrote("workspace") /\ old.status # "succeeded"
    BY <1>5, <1>14 DEF W!CompleteJob, W!Last
  <2> QED BY <1>10, <2>3, <2>4, <2>5, <2>6
<1>15. CASE W!postWorkspaceBuilds
  <2>1. PICK t \in {"start", "delete"} : builds' = Append(builds, [transition |-> t, status |-> "pending", resources |-> FALSE])
    BY <1>15 DEF W!postWorkspaceBuilds
  <2>2. PICK b \in BuildRow : b = [transition |-> t, status |-> "pending", resources |-> FALSE]
    BY DEF BuildRow, W!Statuses
  <2>3. /\ builds' \in Seq(BuildRow) /\ Len(builds') = Len(builds) + 1 /\ builds'[Len(builds) + 1] = b
        /\ \A k \in 1 .. Len(builds) : builds'[k] = builds[k]
    BY <1>4, <2>1, <2>2
  <2>4. \A k \in 1 .. Len(builds') : BuildOK(builds'[k])
    BY <1>1, <1>4, <2>2, <2>3 DEF BuildOK, BuildsOK
  <2>5. Len(builds') \in 1 .. MaxBuilds
    BY <1>4, <1>15, <2>3 DEF W!postWorkspaceBuilds, W!Last, WatchBounds
  <2>6. BuildsOK(builds') /\ Follow(builds, builds')
    BY <1>4, <2>3, <2>4, <2>5 DEF BuildsOK, Follow
  <2>7. WatchTyped' /\ UNCHANGED reader_watch
    BY <1>1, <1>2, <1>3, <1>15, WroteTyped DEF W!postWorkspaceBuilds
  <2> QED BY <2>6, <2>7, WriterKeeps
<1> QED BY <1>7, <1>8, <1>9, <1>12, <1>13, <1>14, <1>15 DEF W!Write, W!BuildStep

LEMMA PubsubKeeps ==
  ASSUME WatchBounds, WatchInv,
         (\E c \in W!Channels : W!Publish(c) \/ W!Lose(c)) \/ W!Subscribe \/ W!Leave \/ W!SenderClosed
  PROVE  WatchInv'
<1>1. WatchTyped /\ BuildsOK(builds)
  BY DEF WatchInv
<1>2. UNCHANGED <<reader_watch, builds, deleted, tpl, panics, clock, heard>>
  BY DEF W!Publish, W!Lose, W!Subscribe, W!Leave, W!SenderClosed, W!rows, W!reading, W!pubsub
<1>3. WatchTyped'
  <2>1. ASSUME NEW c \in W!Channels, W!Publish(c) \/ W!Lose(c)
        PROVE  out' \in [W!Channels -> Nat] /\ out'["workspace"] + out'["template"] <= clock
    BY <1>1, <2>1 DEF W!Publish, W!Lose, WatchTyped, W!Channels
  <2>2. ASSUME NEW c \in W!Channels, W!Publish(c) PROVE WatchTyped'
    <3>1. spawned' \in Nat /\ UNCHANGED <<watch, since, lost>>
      BY <1>1, <2>2 DEF W!Publish, WatchTyped
    <3>2. out' \in [W!Channels -> Nat] /\ out'["workspace"] + out'["template"] <= clock
      BY <2>1, <2>2
    <3> QED BY <1>1, <1>2, <3>1, <3>2 DEF WatchTyped
  <2>3. ASSUME NEW c \in W!Channels, W!Lose(c) PROVE WatchTyped'
    <3>1. lost' \in 0 .. MaxLost /\ UNCHANGED <<watch, since, spawned>>
      BY <1>1, <2>3 DEF W!Lose, WatchTyped, W!pubsub, WatchBounds
    <3>2. out' \in [W!Channels -> Nat] /\ out'["workspace"] + out'["template"] <= clock
      BY <2>1, <2>3
    <3> QED BY <1>1, <1>2, <3>1, <3>2 DEF WatchTyped
  <2>4. CASE W!Subscribe \/ W!Leave \/ W!SenderClosed
    BY <1>1, <1>2, <2>4 DEF W!Subscribe, W!Leave, W!SenderClosed, WatchTyped
  <2> QED BY <2>2, <2>3, <2>4
<1>4. BuildsOK(builds') /\ Follow(builds, builds')
  BY <1>1, <1>2, SameBuilds
<1> QED BY <1>2, <1>3, <1>4, WriterKeeps

\* One reader goes on, and no build changes.
LEMMA ReaderMoves ==
  ASSUME WatchInv, NEW r \in Readers, NEW v \in ReaderRow, ReaderOK(v, builds), UNCHANGED builds, WatchTyped',
         W!Served(r, v)
  PROVE  WatchInv'
<1>1. reader_watch' = [reader_watch EXCEPT ![r] = v] /\ reader_watch \in [Readers -> ReaderRow] /\ BuildsOK(builds)
  BY DEF W!Served, WatchInv
<1>2. reader_watch' \in [Readers -> ReaderRow]
  BY <1>1
<1>3. ASSUME NEW q \in Readers PROVE ReaderOK(reader_watch'[q], builds)
  BY <1>1 DEF WatchInv
<1> QED BY <1>1, <1>2, <1>3 DEF WatchInv

\* A reader has made its next query.
LEMMA ReadKeeps ==
  ASSUME WatchInv, NEW r \in Readers, NEW at \in {"builds", "jobs", "resources", "convert", "send"}, NEW v \in ViewRow,
         W!Read(r, at, v),
         at \in {"jobs", "resources", "convert", "send"} => v.build \in 1 .. Len(builds),
         at = "resources" /\ v.status = "succeeded" => builds[v.build].status = "succeeded",
         at = "convert" /\ v.status = "succeeded" /\ builds[v.build].transition = "start" => v.resources
  PROVE  WatchInv'
<1>1. reader_watch[r] \in ReaderRow
  BY DEF WatchInv
<1>2. PICK w : w = [reader_watch[r] EXCEPT !.pc = at, !.view = v]
  OBVIOUS
<1>3. w \in ReaderRow /\ w.pc = at /\ w.view = v
  BY <1>1, <1>2 DEF ReaderRow
<1>4. ReaderOK(w, builds)
  BY <1>3 DEF ReaderOK
<1>5. W!Served(r, w) /\ UNCHANGED builds
  BY <1>2 DEF W!Read, W!Only, W!rows
<1>6. WatchTyped'
  BY DEF WatchInv, WatchTyped, W!Read, W!Only, W!rows
<1> QED BY <1>3, <1>4, <1>5, <1>6, ReaderMoves

LEMMA AskKeeps ==
  ASSUME WatchBounds, WatchInv, NEW r \in Readers,
         W!workspace(r) \/ \E b \in 1 .. W!Last : W!workspaceBuild(r, b) \/ W!provisionerJobResources(r, b)
  PROVE  WatchInv'
<1>1. UNCHANGED <<builds, deleted, tpl, out, watch, heard, since, clock, lost, spawned, panics>>
  BY DEF W!workspace, W!workspaceBuild, W!provisionerJobResources, W!Only, W!rows
<1>2. WatchTyped'
  BY <1>1 DEF WatchInv, WatchTyped
<1>3. BuildsOK(builds) /\ builds \in Seq(BuildRow) /\ Len(builds) \in 1 .. MaxBuilds
  BY DEF WatchInv, BuildsOK
<1>4. CASE W!workspace(r)
  <2>1. PICK k \in {"get", "list"} : W!Served(r, [kind |-> k, pc |-> "templates", start |-> 0, view |-> W!Nothing])
    BY <1>4 DEF W!workspace
  <2>2. PICK v : v = [kind |-> k, pc |-> "templates", start |-> 0, view |-> W!Nothing]
    OBVIOUS
  <2>3. v \in ReaderRow /\ ReaderOK(v, builds)
    BY <2>2 DEF ReaderRow, ViewRow, W!Nothing, W!Kinds, W!Statuses, ReaderOK, WatchBounds
  <2> QED BY <1>1, <1>2, <2>1, <2>2, <2>3, ReaderMoves
<1>5. ASSUME NEW b \in 1 .. W!Last, W!workspaceBuild(r, b) PROVE WatchInv'
  <2>1. b \in 1 .. Len(builds) /\ b \in Nat
    BY <1>3 DEF W!Last
  <2>2. PICK w \in ViewRow : w = [W!Nothing EXCEPT !.build = b] /\ w.build = b
    <3>1. PICK z \in ViewRow : z = W!Nothing
      BY NothingSeen
    <3>2. PICK w : w = [z EXCEPT !.build = b]
      OBVIOUS
    <3>3. w \in ViewRow /\ w.build = b
      BY <2>1, <3>2 DEF ViewRow
    <3> QED BY <3>1, <3>2, <3>3
  <2>3. PICK v \in ReaderRow : v = [kind |-> "build", pc |-> "jobs", start |-> 0, view |-> w]
    <3>1. 0 \in 0 .. MaxChanges
      BY DEF WatchBounds
    <3> QED BY <3>1 DEF ReaderRow, W!Kinds
  <2>4. ReaderOK(v, builds) /\ W!Served(r, v)
    BY <1>5, <2>1, <2>2, <2>3 DEF ReaderOK, W!workspaceBuild
  <2> QED BY <1>1, <1>2, <2>3, <2>4, ReaderMoves
<1>6. ASSUME NEW b \in 1 .. W!Last, W!provisionerJobResources(r, b) PROVE WatchInv'
  <2>1. b \in 1 .. Len(builds) /\ b \in Nat
    BY <1>3 DEF W!Last
  <2>2. builds[b] \in BuildRow
    BY <1>3, <2>1
  <2>3. PICK s \in W!Statuses : s = builds[b].status
    BY <2>2 DEF BuildRow
  <2>4. PICK w \in ViewRow : w = [W!Nothing EXCEPT !.build = b, !.status = s] /\ w.build = b /\ w.status = s
    <3>1. PICK z \in ViewRow : z = W!Nothing
      BY NothingSeen
    <3>2. PICK w : w = [z EXCEPT !.build = b, !.status = s]
      OBVIOUS
    <3>3. w \in ViewRow /\ w.build = b /\ w.status = s
      BY <2>1, <3>2 DEF ViewRow
    <3> QED BY <3>1, <3>2, <3>3
  <2>5. PICK v \in ReaderRow : v = [kind |-> "resources", pc |-> "resources", start |-> 0, view |-> w]
    <3>1. 0 \in 0 .. MaxChanges
      BY DEF WatchBounds
    <3> QED BY <3>1 DEF ReaderRow, W!Kinds
  <2>6. ReaderOK(v, builds)
    BY <2>1, <2>3, <2>4, <2>5 DEF ReaderOK
  <2>7. W!Served(r, v)
    BY <1>6, <2>3, <2>4, <2>5 DEF W!provisionerJobResources
  <2> QED BY <1>1, <1>2, <2>6, <2>7, ReaderMoves
<1> QED BY <1>4, <1>5, <1>6

LEMMA DroppedKeeps == ASSUME WatchBounds, WatchInv, NEW r \in Readers, W!Dropped(r) PROVE WatchInv'
<1>1. UNCHANGED builds /\ W!Served(r, W!Idle)
  BY DEF W!Dropped, W!Only, W!rows
<1>2. WatchTyped'
  BY DEF WatchInv, WatchTyped, W!Dropped, W!Only, W!rows
<1> QED BY <1>1, <1>2, IdleOK, ReaderMoves

LEMMA ReaderStepKeeps == ASSUME WatchBounds, WatchInv, NEW r \in Readers, W!ReaderStep(r) PROVE WatchInv'
<1>1. WatchTyped /\ BuildsOK(builds) /\ reader_watch[r] \in ReaderRow /\ ReaderOK(reader_watch[r], builds)
  BY DEF WatchInv
<1>2. PICK v \in ViewRow : v = reader_watch[r].view
  BY <1>1 DEF ReaderRow
<1>3. builds \in Seq(BuildRow) /\ Len(builds) \in 1 .. MaxBuilds /\ \A b \in 1 .. Len(builds) : builds[b] \in BuildRow /\ BuildOK(builds[b])
  BY <1>1 DEF BuildsOK
<1>4. CASE W!sendUpdate(r)
  <2>1. PICK w : w = [kind |-> "watch", pc |-> "templates", start |-> clock, view |-> W!Nothing]
    OBVIOUS
  <2>2. w \in ReaderRow /\ ReaderOK(w, builds)
    BY <1>1, <2>1 DEF ReaderRow, ViewRow, W!Nothing, W!Kinds, W!Statuses, ReaderOK, WatchTyped
  <2>3. W!Served(r, w) /\ UNCHANGED builds
    BY <1>4, <2>1 DEF W!sendUpdate, W!Only, W!rows
  <2>4. WatchTyped'
    BY <1>1, <1>4 DEF W!sendUpdate, W!Only, W!rows, WatchTyped
  <2> QED BY <2>2, <2>3, <2>4, ReaderMoves
<1>5. CASE W!Templates(r)
  <2>1. PICK n \in Nat : n = IF tpl.deleted THEN 0 ELSE tpl.active
    BY <1>1 DEF WatchTyped
  <2>2. [v EXCEPT !.active = n] \in ViewRow
    BY DEF ViewRow
  <2>3. W!Read(r, "builds", [v EXCEPT !.active = n])
    BY <1>2, <1>5, <2>1 DEF W!Templates
  <2> QED BY <2>2, <2>3, ReadKeeps
<1>6. CASE W!Builds(r)
  <2>1. PICK w : w = [v EXCEPT !.build = Len(builds)]
    OBVIOUS
  <2>2. w \in ViewRow /\ w.build \in 1 .. Len(builds)
    BY <1>3, <2>1 DEF ViewRow
  <2>3. W!Read(r, "jobs", w)
    BY <1>2, <1>6, <2>1 DEF W!Builds, W!Last
  <2> QED BY <2>2, <2>3, ReadKeeps
<1>7. CASE reader_watch[r].pc = "jobs" /\ W!Read(r, "resources", [v EXCEPT !.status = builds[v.build].status])
  <2>1. v.build \in 1 .. Len(builds)
    BY <1>1, <1>2, <1>7 DEF ReaderOK
  <2>2. PICK w : w = [v EXCEPT !.status = builds[v.build].status]
    OBVIOUS
  <2>3. builds[v.build].status \in W!Statuses
    BY <1>3, <2>1 DEF BuildRow
  <2>4. w \in ViewRow /\ w.build = v.build /\ w.status = builds[v.build].status
    BY <2>2, <2>3 DEF ViewRow
  <2> QED BY <1>7, <2>1, <2>2, <2>4, ReadKeeps
<1>8. CASE reader_watch[r].pc = "resources" /\ W!Read(r, "convert", [v EXCEPT !.resources = builds[v.build].resources])
  <2>1. v.build \in 1 .. Len(builds) /\ (v.status = "succeeded" => builds[v.build].status = "succeeded")
    BY <1>1, <1>2, <1>8 DEF ReaderOK
  <2>2. PICK w : w = [v EXCEPT !.resources = builds[v.build].resources]
    OBVIOUS
  <2>3. builds[v.build].resources \in BOOLEAN /\ BuildOK(builds[v.build])
    BY <1>3, <2>1 DEF BuildRow
  <2>4. w \in ViewRow /\ w.build = v.build /\ w.status = v.status /\ w.resources = builds[v.build].resources
    BY <2>2, <2>3 DEF ViewRow
  <2>5. w.status = "succeeded" /\ builds[w.build].transition = "start" => w.resources
    BY <2>1, <2>3, <2>4 DEF BuildOK
  <2> QED BY <1>8, <2>1, <2>2, <2>4, <2>5, ReadKeeps
<1>9. CASE W!convertWorkspace(r)
  <2>1. CASE W!Read(r, "send", v) /\ reader_watch[r].pc = "convert"
    <3>1. v.build \in 1 .. Len(builds)
      BY <1>1, <1>2, <2>1 DEF ReaderOK
    <3> QED BY <2>1, <3>1, ReadKeeps
  <2>2. CASE W!Dropped(r)
    BY <2>2, DroppedKeeps
  <2> QED BY <1>2, <1>9, <2>1, <2>2 DEF W!convertWorkspace
<1>10. CASE W!Panic(r)
  <2>1. panics' \subseteq W!Kinds
    BY <1>1, <1>10 DEF W!Panic, WatchTyped, W!Missing, W!Kinds
  <2>2. UNCHANGED <<deleted, tpl, builds, heard, since, clock, lost>>
    BY <1>10 DEF W!Panic, W!rows
  <2>3. CASE reader_watch[r].kind = "watch"
    <3>1. /\ reader_watch' = [q \in Readers |-> W!Idle] /\ out' = [c \in W!Channels |-> 0] /\ spawned' = 0 /\ watch' = "over"
      BY <1>10, <2>3 DEF W!Panic
    <3>2. WatchTyped'
      BY <1>1, <2>1, <2>2, <3>1 DEF WatchTyped, W!Channels
    <3> QED BY <1>1, <2>2, <3>1, <3>2, IdleOK DEF WatchInv
  <2>4. CASE reader_watch[r].kind # "watch"
    <3>1. W!Served(r, W!Idle) /\ UNCHANGED <<out, spawned, watch>>
      BY <1>10, <2>4 DEF W!Panic
    <3>2. WatchTyped'
      BY <1>1, <2>1, <2>2, <3>1 DEF WatchTyped
    <3> QED BY <2>2, <3>1, <3>2, IdleOK, ReaderMoves
  <2> QED BY <2>3, <2>4
<1>11. CASE W!sendEvent(r)
  <2>1. heard' \in 0 .. MaxChanges
    BY <1>1, <1>11 DEF W!sendEvent, WatchTyped, ReaderRow
  <2>2. UNCHANGED builds /\ W!Served(r, W!Idle) /\ WatchTyped'
    BY <1>1, <1>11, <2>1 DEF W!sendEvent, WatchTyped, W!rows
  <2> QED BY <2>2, IdleOK, ReaderMoves
<1>12. CASE W!SendFails(r)
  BY <1>12, DroppedKeeps DEF W!SendFails
<1> QED BY <1>2, <1>4, <1>5, <1>6, <1>7, <1>8, <1>9, <1>10, <1>11, <1>12 DEF W!ReaderStep, W!workspaceBuildsData

LEMMA NextWatch == ASSUME WatchBounds, WatchInv, [W!Next]_(W!vars) PROVE WatchInv'
<1>1. CASE UNCHANGED W!vars
  BY <1>1 DEF W!vars, WatchInv, WatchTyped
<1> QED BY <1>1, WriteKeeps, PubsubKeeps, AskKeeps, ReaderStepKeeps DEF W!Next

LEMMA WatchSafe == ASSUME WatchBounds, WatchInv PROVE W!TypeOK /\ W!SucceededShowsResources
<1>1. W!SucceededShowsResources
  BY DEF WatchInv, ReaderOK, W!SucceededShowsResources
<1>2. WatchTyped /\ builds \in Seq(BuildRow) /\ Len(builds) \in 1 .. MaxBuilds /\ reader_watch \in [Readers -> ReaderRow]
  BY DEF WatchInv, BuildsOK
<1>3. out \in [W!Channels -> 0 .. MaxChanges + MaxBuilds]
  BY <1>2 DEF WatchTyped, WatchBounds, W!Channels
<1>4. \A b \in 1 .. Len(builds) : builds[b].status \in W!Statuses /\ builds[b].transition \in {"start", "delete"}
  <2>1. \A b \in 1 .. Len(builds) : builds[b] \in BuildRow
    BY <1>2
  <2> QED BY <2>1 DEF BuildRow
<1>5. \A r \in Readers : reader_watch[r].kind \in W!Kinds \cup {"none"}
  BY <1>2 DEF ReaderRow
<1> QED BY <1>1, <1>2, <1>3, <1>4, <1>5 DEF W!TypeOK, WatchTyped

\* For any number of readers, builds, changes and lost notifications: a view that says that a start
\* has succeeded has the resources of the build, although each comes from a query of its own, outside
\* of any transaction, while builds complete (workspaceData, workspaceBuildsData and watchWorkspace
\* of coderd/workspaces.go and coderd/workspacebuilds.go).
THEOREM SuccessShowsResources ==
  ASSUME WatchBounds PROVE W!Spec => [](W!SucceededShowsResources)
<1>1. W!Init => WatchInv
  BY InitWatch
<1>2. WatchInv /\ [W!Next]_(W!vars) => WatchInv'
  BY NextWatch
<1>3. WatchInv => W!SucceededShowsResources
  BY WatchSafe
<1> QED BY <1>1, <1>2, <1>3, PTL DEF W!Spec

-----------------------------------------------------------------------------
(* Activity.  A bump never earns more than the threshold from now on, so a *)
(* bump that writes later cannot fall short of what an earlier one earned. *)

\* What the proofs need to know of the constants.
BumpTimes ==
    /\ BumpAmount \in Nat /\ BumpThreshold \in Nat /\ BumpThreshold <= BumpAmount
    /\ Soon \in Nat /\ MaxTime \in Nat /\ MaxTraffic \in Nat /\ MaxFailures \in Nat

ActivityInv == A!TypeOK /\ A!ActivityKeepsOn /\ kept <= now + BumpThreshold

LEMMA InitActivity == ASSUME BumpTimes, A!Init PROVE ActivityInv
  BY DEF BumpTimes, A!Init, ActivityInv, A!TypeOK, A!ActivityKeepsOn, A!NoReport

LEMMA NextActivity == ASSUME BumpTimes, ActivityInv, [A!Next]_(A!vars) PROVE ActivityInv'
<1> USE DEF BumpTimes, ActivityInv, A!TypeOK, A!ActivityKeepsOn, A!NoReport
<1>1. CASE A!Tick
  BY <1>1 DEF A!Tick
<1>2. CASE A!Use
  BY <1>2 DEF A!Use
<1>3. CASE A!getStats
  BY <1>3 DEF A!getStats
<1>4. CASE A!PostFails
  BY <1>4 DEF A!PostFails
<1>5. CASE A!ReportStats
  <2>1. UNCHANGED <<protocol, now, deadline, traffic, kept, failed>> /\ report' \in 0 .. MaxTraffic + 1 /\ report \in 0 .. MaxTraffic
    BY <1>5 DEF A!ReportStats
  <2>2. CASE UNCHANGED <<bump, lastReport, served>>
    BY <2>1, <2>2
  <2>3. CASE ~UNCHANGED <<bump, lastReport, served>>
    <3>1. bump' \in [Bumps -> {"idle", "begin", "write", "done"}]
      BY <1>5, <2>3 DEF A!ReportStats
    <3>2. lastReport' \in 0 .. MaxTraffic
      BY <1>5, <2>1, <2>3 DEF A!ReportStats
    <3>3. served' \in 0 .. MaxTraffic
      BY <1>5, <2>1, <2>3 DEF A!ReportStats, A!Earlier
    <3> QED BY <2>1, <3>1, <3>2, <3>3
  <2> QED BY <2>2, <2>3
<1>6. ASSUME NEW b \in Bumps, A!BumpRead(b) PROVE ActivityInv'
  BY <1>6 DEF A!BumpRead, A!BumpNeeded, A!Later
<1>7. ASSUME NEW b \in Bumps, A!BumpWrite(b) PROVE ActivityInv'
  BY <1>7 DEF A!BumpWrite, A!Later
<1>8. ASSUME NEW b \in Bumps, A!BumpFails(b) PROVE ActivityInv'
  BY <1>8 DEF A!BumpFails
<1>9. ASSUME NEW d \in Soon .. MaxTime + BumpAmount, A!Extend(d) PROVE ActivityInv'
  BY <1>9 DEF A!Extend, A!Earlier
<1>10. CASE UNCHANGED A!vars
  BY <1>10 DEF A!vars
<1> QED BY <1>1, <1>2, <1>3, <1>4, <1>5, <1>6, <1>7, <1>8, <1>9, <1>10 DEF A!Next

\* For any number of bumps at a time, and any amounts and thresholds: once a bump has been through the
\* deadline is no earlier than what it earned, whatever the bumps and extensions that overlap it
\* write (activityBumpWorkspace of coderd/activitybump.go and putExtendWorkspace).
THEOREM ActiveWorkspaceStaysOn ==
  ASSUME BumpTimes PROVE A!Spec => [](A!ActivityKeepsOn)
<1>1. A!Init => ActivityInv
  BY InitActivity
<1>2. ActivityInv /\ [A!Next]_(A!vars) => ActivityInv'
  BY NextActivity
<1>3. ActivityInv => A!ActivityKeepsOn
  BY DEF ActivityInv
<1> QED BY <1>1, <1>2, <1>3, PTL DEF A!Spec

-----------------------------------------------------------------------------
(* Terraform.  Until apply runs the resources are those the job began      *)
(* with; a command that exits has written the state file, and a process    *)
(* that is killed, which has not, is one whose stream has ended.           *)

\* What the proofs need to know of the constants.
Asked == Configs \subseteq [Provisions -> [kind : {"plan", "apply"}, destroy : BOOLEAN, state : {0, 1}]]

Places == P!Commands \union {"recv", "version", "state", "lock", "returned"}
Answers == [answer : {"none", "nothing", "error", "complete", "lost"}, state : {0, 1, 2}]

StreamsTyped ==
    /\ config \in [Provisions -> [kind : {"plan", "apply"}, destroy : BOOLEAN, state : {0, 1}]]
    /\ pc \in [Provisions -> Places]
    /\ proc \in [Provisions -> {"none", "running", "interrupted", "dead"}]
    /\ ended \in [Provisions -> BOOLEAN] /\ killed \in [Provisions -> BOOLEAN]
    /\ world \in [Provisions -> {0, 1, 2}] /\ tfstate \in [Provisions -> {0, 1, 2}]
    /\ outcome \in [Provisions -> Answers]
    /\ initMut = {} \/ \E p \in Provisions : initMut = {p}

\* A stream that asked for c: where it is, its process, contexts, resources and state file.
StreamOK(c, at, pr, en, ki, wo, tf, oc) ==
    /\ wo \in {c.state, 2}
    /\ at = "plan" => c.kind = "plan"
    /\ at = "apply" => c.kind = "apply"
    /\ c.kind = "plan" \/ at \notin {"apply", "show", "graph", "returned"} => wo = c.state
    /\ at \in {"lock", "init"} \/ (at = "apply" /\ pr = "none") => tf = c.state
    /\ at = "apply" /\ pr = "none" => wo = c.state
    /\ c.kind = "apply" /\ at \in {"show", "graph"} => tf = wo
    /\ ki /\ at # "returned" => en
    /\ pr = "dead" => ki
    /\ pr # "none" => at \in P!Commands
    /\ at = "returned" /\ oc.answer # "lost" => wo = (IF oc.state # 0 THEN oc.state ELSE c.state)

Stream(p) == StreamOK(config[p], pc[p], proc[p], ended[p], killed[p], world[p], tfstate[p], outcome[p])

TerraformInv == StreamsTyped /\ \A p \in Provisions : Stream(p)

LEMMA InitTerraform == ASSUME Asked, P!Init PROVE TerraformInv
<1>1. config \in [Provisions -> [kind : {"plan", "apply"}, destroy : BOOLEAN, state : {0, 1}]]
  BY DEF Asked, P!Init
<1>2. StreamsTyped
  BY <1>1 DEF P!Init, StreamsTyped, Places, Answers, P!Unanswered, P!Empty
<1>3. ASSUME NEW p \in Provisions PROVE Stream(p)
  BY <1>1 DEF P!Init, Stream, StreamOK
<1> QED BY <1>2, <1>3 DEF TerraformInv

\* A step of p leaves the other streams alone.
Aside(p) ==
    /\ UNCHANGED config
    /\ \A q \in Provisions \ {p} :
          /\ pc'[q] = pc[q] /\ proc'[q] = proc[q] /\ ended'[q] = ended[q] /\ killed'[q] = killed[q]
          /\ world'[q] = world[q] /\ tfstate'[q] = tfstate[q] /\ outcome'[q] = outcome[q]

LEMMA StreamMoves ==
  ASSUME TerraformInv, NEW p \in Provisions, StreamsTyped', Aside(p), Stream(p)'
  PROVE  TerraformInv'
<1>1. ASSUME NEW q \in Provisions, q # p PROVE Stream(q)'
  BY <1>1 DEF TerraformInv, Aside, Stream
<1> QED BY <1>1 DEF TerraformInv

\* The stream goes on to its next step.
LEMMA GoesOn ==
  ASSUME TerraformInv, NEW p \in Provisions, NEW to \in Places, P!Goes(p, to), UNCHANGED <<config, world>>,
         NEW tf \in {0, 1, 2}, tfstate' = [tfstate EXCEPT ![p] = tf],
         NEW pr \in {"none", "running", "interrupted", "dead"}, proc' = [proc EXCEPT ![p] = pr],
         initMut' = {} \/ \E q \in Provisions : initMut' = {q},
         StreamOK(config[p], to, pr, ended[p], killed[p], world[p], tf, outcome[p])
  PROVE  TerraformInv'
<1>1. StreamsTyped /\ UNCHANGED <<ended, killed, outcome>>
  BY DEF TerraformInv, P!Goes, P!contexts
<1>2. pc' = [pc EXCEPT ![p] = to]
  BY DEF P!Goes
<1>3. StreamsTyped'
  BY <1>1, <1>2 DEF StreamsTyped
<1>4. Aside(p) /\ pc'[p] = to /\ proc'[p] = pr /\ tfstate'[p] = tf
  BY <1>1, <1>2 DEF StreamsTyped, Aside
<1>5. Stream(p)'
  BY <1>1, <1>4 DEF Stream
<1> QED BY <1>3, <1>4, <1>5, StreamMoves

\* The stream returns: what it answers is what there is, or the answer is lost.
LEMMA ReturnsNow ==
  ASSUME TerraformInv, NEW p \in Provisions, NEW ans \in {"nothing", "error", "complete"}, NEW st \in {0, 1, 2},
         P!Returns(p, ans, st), UNCHANGED <<config, world>>,
         NEW tf \in {0, 1, 2}, tfstate' = [tfstate EXCEPT ![p] = tf],
         proc' = [proc EXCEPT ![p] = "none"],
         initMut' = {} \/ \E q \in Provisions : initMut' = {q},
         ended[p] \/ world[p] = (IF st # 0 THEN st ELSE config[p].state)
  PROVE  TerraformInv'
<1>1. StreamsTyped /\ Stream(p) /\ UNCHANGED ended
  BY DEF TerraformInv, P!Returns
<1>2. PICK oc \in Answers : oc = IF ended[p] THEN [answer |-> "lost", state |-> P!Empty] ELSE [answer |-> ans, state |-> st]
  <2>1. [answer |-> "lost", state |-> 0] \in Answers /\ [answer |-> ans, state |-> st] \in Answers
    BY DEF Answers
  <2>2. CASE ended[p]
    BY <2>1, <2>2 DEF P!Empty
  <2>3. CASE ~ended[p]
    BY <2>1, <2>3
  <2> QED BY <2>2, <2>3
<1>3. /\ pc' = [pc EXCEPT ![p] = "returned"] /\ killed' = [killed EXCEPT ![p] = TRUE]
      /\ outcome' = [outcome EXCEPT ![p] = oc]
  BY <1>2 DEF P!Returns
<1>4. "returned" \in Places
  BY DEF Places
<1>5. StreamsTyped'
  BY <1>1, <1>3, <1>4 DEF StreamsTyped
<1>6. Aside(p) /\ pc'[p] = "returned" /\ killed'[p] = TRUE /\ outcome'[p] = oc /\ proc'[p] = "none" /\ tfstate'[p] = tf
  BY <1>1, <1>3 DEF StreamsTyped, Aside
<1>7. oc.answer # "lost" => world[p] = (IF oc.state # 0 THEN oc.state ELSE config[p].state)
  BY <1>2 DEF P!Empty
<1>8. world[p] \in {config[p].state, 2} /\ (config[p].kind = "plan" => world[p] = config[p].state)
  BY <1>1 DEF Stream, StreamOK
<1>9. Stream(p)'
  BY <1>1, <1>6, <1>7, <1>8 DEF Stream, StreamOK
<1> QED BY <1>5, <1>6, <1>9, StreamMoves

\* A command returns, well or not.
LEMMA CommandIs ==
  ASSUME TerraformInv, NEW p \in Provisions, NEW ok \in BOOLEAN, pc[p] \in P!Commands, P!CommandReturns(p, ok)
  PROVE  /\ initMut' = {} \/ \E q \in Provisions : initMut' = {q}
         /\ \/ ok /\ pc[p] = "init" /\ P!Goes(p, config[p].kind)
            \/ ok /\ pc[p] \in {"plan", "apply"} /\ P!Goes(p, "show")
            \/ ok /\ pc[p] = "show" /\ P!Goes(p, "graph")
            \/ /\ config[p].kind = "plan" \/ pc[p] = "init"
               /\ \E ans \in {"error", "complete"} : P!Returns(p, ans, 0)
            \/ config[p].kind = "apply" /\ pc[p] # "init" /\ P!Returns(p, "complete", tfstate'[p])
<1>1. config[p].kind \in {"plan", "apply"} /\ (initMut = {} \/ \E q \in Provisions : initMut = {q})
  BY DEF TerraformInv, StreamsTyped
<1>2. initMut' = {} \/ \E q \in Provisions : initMut' = {q}
  BY <1>1 DEF P!CommandReturns
<1>3. CASE ok
  <2>1. P!Succeeded(p)
    BY <1>3 DEF P!CommandReturns
  <2>2. CASE pc[p] = "init"
    BY <1>2, <1>3, <2>1, <2>2 DEF P!Succeeded, P!Empty
  <2>3. CASE pc[p] \in {"plan", "apply"}
    BY <1>2, <1>3, <2>1, <2>3 DEF P!Succeeded
  <2>4. CASE pc[p] = "show"
    BY <1>2, <1>3, <2>1, <2>4 DEF P!Succeeded
  <2>5. CASE pc[p] = "graph"
    <3>1. P!Returns(p, "complete", IF config[p].kind = "apply" THEN tfstate'[p] ELSE P!Empty)
      BY <2>1, <2>5 DEF P!Succeeded
    <3>2. CASE config[p].kind = "apply"
      BY <1>2, <2>5, <3>1, <3>2
    <3>3. CASE config[p].kind = "plan"
      BY <1>2, <3>1, <3>3 DEF P!Empty
    <3> QED BY <1>1, <3>2, <3>3
  <2> QED BY <2>2, <2>3, <2>4, <2>5 DEF P!Commands
<1>4. CASE ~ok
  <2>1. P!Failed(p)
    BY <1>4 DEF P!CommandReturns
  <2>2. CASE config[p].kind = "apply" /\ pc[p] # "init"
    BY <1>2, <2>1, <2>2 DEF P!Failed
  <2>3. CASE ~(config[p].kind = "apply" /\ pc[p] # "init") /\ canceled[p]
    BY <1>1, <1>2, <2>1, <2>3 DEF P!Failed, P!Empty
  <2>4. CASE ~(config[p].kind = "apply" /\ pc[p] # "init") /\ ~canceled[p]
    BY <1>1, <1>2, <2>1, <2>4 DEF P!Failed, P!Empty
  <2> QED BY <2>2, <2>3, <2>4
<1> QED BY <1>3, <1>4

\* The state file holds what there is, unless the answer is lost.
LEMMA CommandKeeps ==
  ASSUME TerraformInv, NEW p \in Provisions, NEW ok \in BOOLEAN, pc[p] \in P!Commands, P!CommandReturns(p, ok),
         UNCHANGED <<config, world>>, proc' = [proc EXCEPT ![p] = "none"],
         NEW tf \in {0, 1, 2}, tfstate' = [tfstate EXCEPT ![p] = tf],
         pc[p] = "apply" => tf = world[p] \/ (~ok /\ ended[p]),
         pc[p] # "apply" => tf = tfstate[p]
  PROVE  TerraformInv'
<1>1. StreamsTyped /\ Stream(p)
  BY DEF TerraformInv
<1>2. tfstate'[p] = tf /\ config[p].kind \in {"plan", "apply"} /\ config[p].state \in {0, 1} /\ pc[p] \in Places
  BY <1>1 DEF StreamsTyped
<1>3. initMut' = {} \/ \E q \in Provisions : initMut' = {q}
  BY CommandIs
<1>4. {"show", "graph", "plan", "apply"} \subseteq Places
  BY DEF Places, P!Commands
<1>5. CASE ok /\ pc[p] = "init" /\ P!Goes(p, config[p].kind)
  <2>1. StreamOK(config[p], config[p].kind, "none", ended[p], killed[p], world[p], tf, outcome[p])
    BY <1>1, <1>2, <1>5 DEF Stream, StreamOK
  <2> QED BY <1>2, <1>3, <1>4, <1>5, <2>1, GoesOn
<1>6. CASE ok /\ pc[p] \in {"plan", "apply"} /\ P!Goes(p, "show")
  <2>1. StreamOK(config[p], "show", "none", ended[p], killed[p], world[p], tf, outcome[p])
    BY <1>1, <1>2, <1>6 DEF Stream, StreamOK
  <2> QED BY <1>3, <1>4, <1>6, <2>1, GoesOn
<1>7. CASE ok /\ pc[p] = "show" /\ P!Goes(p, "graph")
  <2>1. StreamOK(config[p], "graph", "none", ended[p], killed[p], world[p], tf, outcome[p])
    BY <1>1, <1>2, <1>7 DEF Stream, StreamOK
  <2> QED BY <1>3, <1>4, <1>7, <2>1, GoesOn
<1>8. CASE /\ config[p].kind = "plan" \/ pc[p] = "init"
           /\ \E ans \in {"error", "complete"} : P!Returns(p, ans, 0)
  <2>1. world[p] = config[p].state
    BY <1>1, <1>8 DEF Stream, StreamOK
  <2> QED BY <1>3, <1>8, <2>1, ReturnsNow
<1>9. CASE config[p].kind = "apply" /\ pc[p] # "init" /\ P!Returns(p, "complete", tfstate'[p])
  <2>1. ended[p] \/ tf = world[p]
    BY <1>1, <1>9 DEF Stream, StreamOK, P!Commands
  <2>2. ended[p] \/ world[p] = (IF tf # 0 THEN tf ELSE config[p].state)
    BY <1>1, <1>2, <2>1 DEF Stream, StreamOK
  <2> QED BY <1>2, <1>3, <1>9, <2>2, ReturnsNow
<1> QED BY <1>5, <1>6, <1>7, <1>8, <1>9, CommandIs

\* Nothing but the process and the contexts of the stream change.
LEMMA ContextKeeps ==
  ASSUME TerraformInv, NEW p \in Provisions, UNCHANGED <<config, pc, initMut, tfstate, outcome>>,
         NEW pr \in {"none", "running", "interrupted", "dead"}, proc' = [proc EXCEPT ![p] = pr],
         NEW en \in BOOLEAN, ended' = [ended EXCEPT ![p] = en], NEW ki \in BOOLEAN, killed' = [killed EXCEPT ![p] = ki],
         NEW wo \in {0, 1, 2}, world' = [world EXCEPT ![p] = wo],
         StreamOK(config[p], pc[p], pr, en, ki, wo, tfstate[p], outcome[p])
  PROVE  TerraformInv'
<1>1. StreamsTyped
  BY DEF TerraformInv
<1>2. StreamsTyped'
  BY <1>1 DEF StreamsTyped
<1>3. Aside(p) /\ proc'[p] = pr /\ ended'[p] = en /\ killed'[p] = ki /\ world'[p] = wo
  BY <1>1 DEF StreamsTyped, Aside
<1>4. Stream(p)'
  BY <1>3 DEF Stream
<1> QED BY <1>2, <1>3, <1>4, StreamMoves

LEMMA StepKeeps ==
  ASSUME TerraformInv, NEW p \in Provisions,
         \/ P!Recv(p) \/ P!checkMinVersion(p) \/ P!WriteState(p) \/ P!LockInit(p)
         \/ P!Start(p) \/ (\E ok \in BOOLEAN : P!Exit(p, ok)) \/ P!Wait(p)
  PROVE  TerraformInv'
<1>1. StreamsTyped /\ Stream(p)
  BY DEF TerraformInv
<1>2. /\ proc = [proc EXCEPT ![p] = proc[p]] /\ proc[p] \in {"none", "running", "interrupted", "dead"}
      /\ tfstate = [tfstate EXCEPT ![p] = tfstate[p]] /\ tfstate[p] \in {0, 1, 2}
      /\ initMut = {} \/ \E q \in Provisions : initMut = {q}
      /\ config[p].state \in {0, 1} /\ world[p] \in {0, 1, 2} /\ pc[p] \in Places
  BY <1>1 DEF StreamsTyped
<1>3. {"version", "state", "lock", "init"} \subseteq Places
  BY DEF Places, P!Commands
<1>4. pc[p] \in {"recv", "version", "state"} => world[p] = config[p].state /\ proc[p] = "none"
  BY <1>1 DEF Stream, StreamOK, P!Commands
<1>5. CASE P!Recv(p) \/ P!checkMinVersion(p)
  <2>1. UNCHANGED <<config, proc, initMut, world, tfstate>> /\ pc[p] \in {"recv", "version"}
    BY <1>5 DEF P!Recv, P!checkMinVersion
  <2>2. \/ \E to \in {"version", "state"} : P!Goes(p, to)
        \/ \E ans \in {"nothing", "error"} : P!Returns(p, ans, 0)
    BY <1>5 DEF P!Recv, P!checkMinVersion, P!Empty
  <2>3. ASSUME NEW to \in {"version", "state"}, P!Goes(p, to) PROVE TerraformInv'
    <3>1. StreamOK(config[p], to, proc[p], ended[p], killed[p], world[p], tfstate[p], outcome[p])
      BY <1>1, <1>4, <2>1 DEF Stream, StreamOK
    <3>2. to \in Places
      BY <1>3
    <3> QED BY <1>2, <2>1, <2>3, <3>1, <3>2, GoesOn
  <2>4. ASSUME NEW ans \in {"nothing", "error"}, P!Returns(p, ans, 0) PROVE TerraformInv'
    <3>1. tfstate' = [tfstate EXCEPT ![p] = tfstate[p]] /\ proc' = [proc EXCEPT ![p] = "none"]
      BY <1>2, <1>4, <2>1
    <3> QED BY <1>2, <1>4, <2>1, <2>4, <3>1, ReturnsNow
  <2> QED BY <2>2, <2>3, <2>4
<1>6. CASE P!WriteState(p)
  <2>1. /\ UNCHANGED <<config, proc, initMut, world>> /\ pc[p] = "state"
        /\ tfstate' = [tfstate EXCEPT ![p] = config[p].state]
    BY <1>6 DEF P!WriteState
  <2>2. /\ config[p].state \in {0, 1, 2} /\ proc' = [proc EXCEPT ![p] = "none"]
        /\ initMut' = {} \/ \E q \in Provisions : initMut' = {q}
    BY <1>2, <1>4, <2>1
  <2>3. CASE P!Goes(p, "lock")
    <3>1. StreamOK(config[p], "lock", "none", ended[p], killed[p], world[p], config[p].state, outcome[p])
      BY <1>1, <2>1 DEF Stream, StreamOK
    <3>2. "lock" \in Places
      BY <1>3
    <3>3. PICK st \in {0, 1, 2} :
             /\ tfstate' = [tfstate EXCEPT ![p] = st]
             /\ StreamOK(config[p], "lock", "none", ended[p], killed[p], world[p], st, outcome[p])
      BY <2>1, <2>2, <3>1
    <3>4. "none" \in {"none", "running", "interrupted", "dead"} /\ UNCHANGED <<config, world>>
      BY <2>1
    <3> QED BY <2>2, <2>3, <3>2, <3>3, <3>4, GoesOn
  <2>4. CASE P!Returns(p, "complete", 0)
    <3>1. world[p] = config[p].state
      BY <1>4, <2>1
    <3> QED BY <2>1, <2>2, <2>4, <3>1, ReturnsNow
  <2> QED BY <1>6, <2>3, <2>4 DEF P!WriteState, P!Empty
<1>7. CASE P!LockInit(p)
  <2>1. StreamOK(config[p], "init", proc[p], ended[p], killed[p], world[p], tfstate[p], outcome[p])
    BY <1>1, <1>7 DEF Stream, StreamOK, P!LockInit, P!Commands
  <2> QED BY <1>2, <1>3, <1>7, <2>1, GoesOn DEF P!LockInit
<1>8. CASE P!Start(p)
  <2>1. UNCHANGED <<config, world, tfstate>> /\ pc[p] \in P!Commands /\ proc[p] = "none"
    BY <1>8 DEF P!Start
  <2>2. CASE proc' = [proc EXCEPT ![p] = "running"] /\ UNCHANGED <<pc, ended, killed, outcome, initMut>>
    <3>1. StreamOK(config[p], pc[p], "running", ended[p], killed[p], world[p], tfstate[p], outcome[p])
      BY <1>1, <2>1 DEF Stream, StreamOK
    <3>2. /\ ended = [ended EXCEPT ![p] = ended[p]] /\ ended[p] \in BOOLEAN
          /\ killed = [killed EXCEPT ![p] = killed[p]] /\ killed[p] \in BOOLEAN
          /\ world = [world EXCEPT ![p] = world[p]]
      BY <1>1 DEF StreamsTyped
    <3>3. /\ ended' = [ended EXCEPT ![p] = ended[p]] /\ killed' = [killed EXCEPT ![p] = killed[p]]
          /\ world' = [world EXCEPT ![p] = world[p]] /\ UNCHANGED <<config, pc, initMut, tfstate, outcome>>
      BY <2>1, <2>2, <3>2
    <3> QED BY <1>2, <2>2, <3>1, <3>2, <3>3, ContextKeeps, ZenonT(60)
  <2>3. CASE UNCHANGED proc /\ P!CommandReturns(p, FALSE)
    <3>1. pc[p] = "apply" => tfstate[p] = world[p]
      BY <1>1, <2>1 DEF Stream, StreamOK
    <3>2. proc' = [proc EXCEPT ![p] = "none"]
      BY <1>2, <2>1, <2>3
    <3>3. tfstate' = [tfstate EXCEPT ![p] = tfstate[p]]
      BY <1>2, <2>1
    <3> QED BY <1>2, <2>1, <2>3, <3>1, <3>2, <3>3, CommandKeeps
  <2> QED BY <1>8, <2>2, <2>3 DEF P!Start, P!contexts
<1>9. ASSUME NEW ok \in BOOLEAN, P!Exit(p, ok) PROVE TerraformInv'
  <2>1. UNCHANGED <<config, world>> /\ proc' = [proc EXCEPT ![p] = "none"] /\ P!CommandReturns(p, ok)
    BY <1>9 DEF P!Exit
  <2>2. CASE pc[p] = "apply"
    <3>1. tfstate' = [tfstate EXCEPT ![p] = world[p]] /\ pc[p] \in P!Commands
      BY <1>9, <2>2 DEF P!Exit, P!Commands
    <3> QED BY <1>2, <2>1, <2>2, <3>1, CommandKeeps
  <2>3. CASE pc[p] # "apply" /\ pc[p] \in P!Commands
    <3>1. tfstate' = [tfstate EXCEPT ![p] = tfstate[p]]
      BY <1>2, <1>9, <2>3 DEF P!Exit
    <3> QED BY <1>2, <2>1, <2>3, <3>1, CommandKeeps
  <2>4. pc[p] \in P!Commands
    BY <1>1, <1>9 DEF P!Exit, P!Alive, Stream, StreamOK
  <2> QED BY <2>2, <2>3, <2>4
<1>10. CASE P!Wait(p)
  <2>1. /\ UNCHANGED <<config, world, tfstate>> /\ proc' = [proc EXCEPT ![p] = "none"]
        /\ P!CommandReturns(p, FALSE) /\ pc[p] \in P!Commands /\ proc[p] = "dead"
    BY <1>10 DEF P!Wait
  <2>2. ended[p]
    BY <1>1, <2>1 DEF Stream, StreamOK, P!Commands
  <2>3. tfstate' = [tfstate EXCEPT ![p] = tfstate[p]]
    BY <1>2, <2>1
  <2> QED BY <1>2, <2>1, <2>2, <2>3, CommandKeeps
<1> QED BY <1>5, <1>6, <1>7, <1>8, <1>9, <1>10

LEMMA SignalKeeps ==
  ASSUME TerraformInv, NEW p \in Provisions,
         \/ P!interruptCommandOnCancel(p) \/ P!Apply(p) \/ P!LongLine(p) \/ P!Killed(p)
         \/ P!Cancel(p) \/ P!End(p) \/ P!ExitTimeout(p)
  PROVE  TerraformInv'
<1>1. StreamsTyped /\ Stream(p)
  BY DEF TerraformInv
<1>2. /\ proc = [proc EXCEPT ![p] = proc[p]] /\ proc[p] \in {"none", "running", "interrupted", "dead"}
      /\ ended = [ended EXCEPT ![p] = ended[p]] /\ ended[p] \in BOOLEAN
      /\ killed = [killed EXCEPT ![p] = killed[p]] /\ killed[p] \in BOOLEAN
      /\ world = [world EXCEPT ![p] = world[p]] /\ world[p] \in {0, 1, 2}
  BY <1>1 DEF StreamsTyped
<1>3. CASE P!interruptCommandOnCancel(p)
  <2>1. /\ UNCHANGED <<config, pc, initMut, tfstate, outcome, ended, killed, world>>
        /\ proc' = [proc EXCEPT ![p] = "interrupted"] /\ proc[p] = "running"
    BY <1>3 DEF P!interruptCommandOnCancel, P!contexts
  <2>2. StreamOK(config[p], pc[p], "interrupted", ended[p], killed[p], world[p], tfstate[p], outcome[p])
    BY <1>1, <2>1 DEF Stream, StreamOK
  <2>3. PICK pr \in {"none", "running", "interrupted", "dead"}, en \in BOOLEAN, ki \in BOOLEAN, wo \in {0, 1, 2} :
           pr = "interrupted" /\ en = ended[p] /\ ki = killed[p] /\ wo = world[p]
    BY <1>2
  <2>4. proc' = [proc EXCEPT ![p] = pr]
    BY <1>2, <2>1, <2>3
  <2>5. ended' = [ended EXCEPT ![p] = en]
    BY <1>2, <2>1, <2>3
  <2>6. killed' = [killed EXCEPT ![p] = ki]
    BY <1>2, <2>1, <2>3
  <2>7. world' = [world EXCEPT ![p] = wo]
    BY <1>2, <2>1, <2>3
  <2>8. StreamOK(config[p], pc[p], pr, en, ki, wo, tfstate[p], outcome[p])
    BY <2>2, <2>3
  <2>9. UNCHANGED <<config, pc, initMut, tfstate, outcome>>
    BY <2>1
  <2> QED BY <2>4, <2>5, <2>6, <2>7, <2>8, <2>9, ContextKeeps, ZenonT(60)
<1>4. CASE P!Apply(p)
  <2>1. /\ UNCHANGED <<config, pc, initMut, tfstate, outcome, ended, killed, proc>>
        /\ world' = [world EXCEPT ![p] = 2] /\ proc[p] \in {"running", "interrupted"} /\ pc[p] = "apply"
    BY <1>4 DEF P!Apply, P!contexts, P!After, P!Alive
  <2>2. StreamOK(config[p], pc[p], proc[p], ended[p], killed[p], 2, tfstate[p], outcome[p])
    BY <1>1, <2>1 DEF Stream, StreamOK
  <2>3. PICK pr \in {"none", "running", "interrupted", "dead"}, en \in BOOLEAN, ki \in BOOLEAN, wo \in {0, 1, 2} :
           pr = proc[p] /\ en = ended[p] /\ ki = killed[p] /\ wo = 2
    BY <1>2
  <2>4. proc' = [proc EXCEPT ![p] = pr]
    BY <1>2, <2>1, <2>3
  <2>5. ended' = [ended EXCEPT ![p] = en]
    BY <1>2, <2>1, <2>3
  <2>6. killed' = [killed EXCEPT ![p] = ki]
    BY <1>2, <2>1, <2>3
  <2>7. world' = [world EXCEPT ![p] = wo]
    BY <1>2, <2>1, <2>3
  <2>8. StreamOK(config[p], pc[p], pr, en, ki, wo, tfstate[p], outcome[p])
    BY <2>2, <2>3
  <2>9. UNCHANGED <<config, pc, initMut, tfstate, outcome>>
    BY <2>1
  <2> QED BY <2>4, <2>5, <2>6, <2>7, <2>8, <2>9, ContextKeeps, ZenonT(60)
<1>5. CASE P!Killed(p)
  <2>1. /\ UNCHANGED <<config, pc, initMut, tfstate, outcome, ended, killed, world>>
        /\ proc' = [proc EXCEPT ![p] = "dead"] /\ killed[p]
    BY <1>5 DEF P!Killed, P!contexts
  <2>2. StreamOK(config[p], pc[p], "dead", ended[p], killed[p], world[p], tfstate[p], outcome[p])
    BY <1>1, <1>5, <2>1 DEF Stream, StreamOK, P!Killed, P!Alive
  <2>3. PICK pr \in {"none", "running", "interrupted", "dead"}, en \in BOOLEAN, ki \in BOOLEAN, wo \in {0, 1, 2} :
           pr = "dead" /\ en = ended[p] /\ ki = killed[p] /\ wo = world[p]
    BY <1>2
  <2>4. proc' = [proc EXCEPT ![p] = pr]
    BY <1>2, <2>1, <2>3
  <2>5. ended' = [ended EXCEPT ![p] = en]
    BY <1>2, <2>1, <2>3
  <2>6. killed' = [killed EXCEPT ![p] = ki]
    BY <1>2, <2>1, <2>3
  <2>7. world' = [world EXCEPT ![p] = wo]
    BY <1>2, <2>1, <2>3
  <2>8. StreamOK(config[p], pc[p], pr, en, ki, wo, tfstate[p], outcome[p])
    BY <2>2, <2>3
  <2>9. UNCHANGED <<config, pc, initMut, tfstate, outcome>>
    BY <2>1
  <2> QED BY <2>4, <2>5, <2>6, <2>7, <2>8, <2>9, ContextKeeps, ZenonT(60)
<1>6. CASE P!End(p)
  <2>1. /\ UNCHANGED <<config, pc, initMut, tfstate, outcome, proc, killed, world>>
        /\ ended' = [ended EXCEPT ![p] = TRUE]
    BY <1>6 DEF P!End
  <2>2. StreamOK(config[p], pc[p], proc[p], TRUE, killed[p], world[p], tfstate[p], outcome[p])
    BY <1>1, <2>1 DEF Stream, StreamOK
  <2>3. PICK pr \in {"none", "running", "interrupted", "dead"}, en \in BOOLEAN, ki \in BOOLEAN, wo \in {0, 1, 2} :
           pr = proc[p] /\ en = TRUE /\ ki = killed[p] /\ wo = world[p]
    BY <1>2
  <2>4. proc' = [proc EXCEPT ![p] = pr]
    BY <1>2, <2>1, <2>3
  <2>5. ended' = [ended EXCEPT ![p] = en]
    BY <1>2, <2>1, <2>3
  <2>6. killed' = [killed EXCEPT ![p] = ki]
    BY <1>2, <2>1, <2>3
  <2>7. world' = [world EXCEPT ![p] = wo]
    BY <1>2, <2>1, <2>3
  <2>8. StreamOK(config[p], pc[p], pr, en, ki, wo, tfstate[p], outcome[p])
    BY <2>2, <2>3
  <2>9. UNCHANGED <<config, pc, initMut, tfstate, outcome>>
    BY <2>1
  <2> QED BY <2>4, <2>5, <2>6, <2>7, <2>8, <2>9, ContextKeeps, ZenonT(60)
<1>7. CASE P!ExitTimeout(p)
  <2>1. /\ UNCHANGED <<config, pc, initMut, tfstate, outcome, proc, ended, world>>
        /\ killed' = [killed EXCEPT ![p] = TRUE] /\ ended[p]
    BY <1>7 DEF P!ExitTimeout
  <2>2. StreamOK(config[p], pc[p], proc[p], ended[p], TRUE, world[p], tfstate[p], outcome[p])
    BY <1>1, <2>1 DEF Stream, StreamOK
  <2>3. PICK pr \in {"none", "running", "interrupted", "dead"}, en \in BOOLEAN, ki \in BOOLEAN, wo \in {0, 1, 2} :
           pr = proc[p] /\ en = ended[p] /\ ki = TRUE /\ wo = world[p]
    BY <1>2
  <2>4. proc' = [proc EXCEPT ![p] = pr]
    BY <1>2, <2>1, <2>3
  <2>5. ended' = [ended EXCEPT ![p] = en]
    BY <1>2, <2>1, <2>3
  <2>6. killed' = [killed EXCEPT ![p] = ki]
    BY <1>2, <2>1, <2>3
  <2>7. world' = [world EXCEPT ![p] = wo]
    BY <1>2, <2>1, <2>3
  <2>8. StreamOK(config[p], pc[p], pr, en, ki, wo, tfstate[p], outcome[p])
    BY <2>2, <2>3
  <2>9. UNCHANGED <<config, pc, initMut, tfstate, outcome>>
    BY <2>1
  <2> QED BY <2>4, <2>5, <2>6, <2>7, <2>8, <2>9, ContextKeeps, ZenonT(60)
<1>8. CASE P!LongLine(p) \/ P!Cancel(p)
  <2>1. UNCHANGED <<config, pc, proc, ended, killed, initMut, world, tfstate, outcome>>
    BY <1>8 DEF P!LongLine, P!Cancel, P!contexts
  <2> QED BY <2>1 DEF TerraformInv, StreamsTyped, Stream
<1> QED BY <1>3, <1>4, <1>5, <1>6, <1>7, <1>8

LEMMA NextTerraform == ASSUME TerraformInv, [P!Next]_(P!vars) PROVE TerraformInv'
<1>1. CASE UNCHANGED P!vars
  BY <1>1 DEF P!vars, TerraformInv, StreamsTyped, Stream
<1> QED BY <1>1, StepKeeps, SignalKeeps DEF P!Next

LEMMA TerraformSafe == ASSUME TerraformInv PROVE P!TypeOK /\ P!StateReported
<1>1. Cardinality(initMut) <= 1 /\ initMut \subseteq Provisions
  <2>1. CASE initMut = {}
    BY <2>1, FS_EmptySet
  <2>2. ASSUME NEW p \in Provisions, initMut = {p} PROVE Cardinality(initMut) <= 1 /\ initMut \subseteq Provisions
    BY <2>2, FS_Singleton
  <2> QED BY <2>1, <2>2 DEF TerraformInv, StreamsTyped
<1>2. P!TypeOK
  <2>1. ASSUME NEW p \in Provisions
        PROVE  /\ pc[p] \in Places /\ proc[p] \in {"none", "running", "interrupted", "dead"}
               /\ world[p] \in {0, 1, 2} /\ tfstate[p] \in {0, 1, 2} /\ outcome[p] \in Answers
    BY DEF TerraformInv, StreamsTyped
  <2>2. ASSUME NEW a \in Answers PROVE a.answer \in {"none", "nothing", "error", "complete", "lost"} /\ a.state \in {0, 1, 2}
    BY DEF Answers
  <2>3. P!Commands \cup {"recv", "version", "state", "lock", "returned"} = Places
    BY DEF Places
  <2>4. ASSUME NEW p \in Provisions
        PROVE  /\ {world[p], tfstate[p], outcome[p].state} \subseteq {0, 1, 2}
               /\ outcome[p].answer \in {"none", "nothing", "error", "complete", "lost"}
    BY <2>1, <2>2
  <2>5. P!Cardinality(initMut) <= 1
    BY <1>1 DEF P!Cardinality, Cardinality
  <2>6. \A p \in Provisions : pc[p] \in P!Commands \cup {"recv", "version", "state", "lock", "returned"}
    BY <2>1, <2>3
  <2> QED BY <1>1, <2>1, <2>5, <2>6, <2>4 DEF P!TypeOK, P!Empty, P!Before, P!After
<1>3. P!StateReported
  BY DEF P!StateReported, P!Empty, TerraformInv, Stream, StreamOK
<1> QED BY <1>2, <1>3

\* For any number of provisions at a time, whatever each asks for: a caller that hears from terraform
\* can tell from the answer, or from the state it sent when the answer has none, which resources
\* there are, whatever failed or was canceled and when (provisioner/terraform/provision.go and
\* executor.go).
THEOREM TerraformStateIsReported ==
  ASSUME Asked PROVE P!Spec => [](P!StateReported)
<1>1. P!Init => TerraformInv
  BY InitTerraform
<1>2. TerraformInv /\ [P!Next]_(P!vars) => TerraformInv'
  BY NextTerraform
<1>3. TerraformInv => P!StateReported
  BY TerraformSafe
<1> QED BY <1>1, <1>2, <1>3, PTL DEF P!Spec

-----------------------------------------------------------------------------
(* What clients are shown.                                                 *)

\* What each component needs to know of its constants.
ServingConstants == LogBounds /\ WatchBounds /\ BumpTimes /\ Asked

\* Each component keeps its invariant in its own behaviours.
ServingInv ==
    /\ part = "logs" => LogInv
    /\ part = "watch" => WatchInv
    /\ part = "activity" => ActivityInv
    /\ part = "terraform" => TerraformInv

LEMMA InitServing == ASSUME ServingConstants, Init PROVE ServingInv
<1>1. LogInv
  BY InitLogs DEF Init, ServingConstants
<1>2. WatchInv
  BY InitWatch DEF Init, ServingConstants
<1>3. ActivityInv
  BY InitActivity DEF Init, ServingConstants
<1>4. TerraformInv
  BY InitTerraform DEF Init, ServingConstants
<1> QED BY <1>1, <1>2, <1>3, <1>4 DEF ServingInv

\* A step is one of the component that the behaviour is of.
LEMMA ServingSteps ==
  ASSUME [Next]_vars
  PROVE  /\ part' = part
         /\ part = "logs" => [L!Next]_(L!vars)
         /\ part = "watch" => [W!Next]_(W!vars)
         /\ part = "activity" => [A!Next]_(A!vars)
         /\ part = "terraform" => [P!Next]_(P!vars)
<1>1. CASE Next
  BY <1>1 DEF Next
<1>2. CASE UNCHANGED vars
  BY <1>2 DEF vars, varsL, varsW, varsA, varsP, L!vars, W!vars, A!vars, P!vars
<1> QED BY <1>1, <1>2

LEMMA NextServing == ASSUME ServingConstants, ServingInv, [Next]_vars PROVE ServingInv'
<1>1. part' = part
  BY ServingSteps
<1>2. part = "logs" => LogInv'
  BY ServingSteps, NextLogs DEF ServingInv, ServingConstants
<1>3. part = "watch" => WatchInv'
  BY ServingSteps, NextWatch DEF ServingInv, ServingConstants
<1>4. part = "activity" => ActivityInv'
  BY ServingSteps, NextActivity DEF ServingInv, ServingConstants
<1>5. part = "terraform" => TerraformInv'
  BY ServingSteps, NextTerraform DEF ServingInv, ServingConstants
<1> QED BY <1>1, <1>2, <1>3, <1>4, <1>5 DEF ServingInv

LEMMA ServingFollows == ASSUME ServingConstants, ServingInv PROVE ServingSafe
<1>1. part = "logs" => L!TypeOK /\ L!NoGap /\ L!HistoryOnce /\ L!CompleteHistory
  BY LogsSafe DEF ServingInv, ServingConstants
<1>2. part = "watch" => W!TypeOK /\ W!SucceededShowsResources
  BY WatchSafe DEF ServingInv, ServingConstants
<1>3. part = "activity" => A!TypeOK /\ A!ActivityKeepsOn
  BY DEF ServingInv, ActivityInv
<1>4. part = "terraform" => P!TypeOK /\ P!StateReported
  BY TerraformSafe DEF ServingInv, ServingConstants
<1> QED BY <1>1, <1>2, <1>3, <1>4 DEF ServingSafe

(* What clients are shown is what there is, in every behaviour of the      *)
(* components that serve builds and those who watch them: the log stream,  *)
(* the views of a workspace, its deadline and terraform's answers.         *)
THEOREM ServingIsSafe ==
  ASSUME ServingConstants
  PROVE  Spec => []ServingSafe
<1>1. Init => ServingInv
  BY InitServing
<1>2. ServingInv /\ [Next]_vars => ServingInv'
  BY NextServing
<1>3. ServingInv => ServingSafe
  BY ServingFollows
<1> QED BY <1>1, <1>2, <1>3, PTL DEF Spec
=============================================================================
