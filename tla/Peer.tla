-------------------------------- MODULE Peer --------------------------------
(***************************************************************************)
(* A p2p neighbour (src/unnamed/part_002, package p2p, type Peer).         *)
(*                                                                         *)
(*   - Goroutines of the node call SendMessage, which puts the message on  *)
(*     the buffered channel of its priority (urgentMsgCh, normalMsgCh).    *)
(*   - The one writeLoop goroutine takes messages, urgent first in its     *)
(*     first select, either priority in its second, and writes each on a   *)
(*     stream: getStream takes a free stream from the buffered channel     *)
(*     streams or opens one (newStream) while streamCount is below         *)
(*     maxStreamCount; a written stream goes back to the pool, a failed    *)
(*     one is closed (CloseStream).                                        *)
(*   - The remote side opens streams, which the peer manager hands to      *)
(*     AddStream.                                                          *)
(*   - AddStream starts a readLoop goroutine on each stream it adds: it   *)
(*     reads a frame header, allocates dataBegin+length bytes, reads the   *)
(*     body, parses it and hands it to handleMessage, until a read or the  *)
(*     parse fails.  Streams opened by newStream have no reader.           *)
(*   - Stop closes quitWriteCh and the connection.                         *)
(* streamMutex makes AddStream, newStream and CloseStream atomic steps.    *)
(* The frame layout (dataBegin, dataLengthBegin) is outside src/: the      *)
(* model keeps only the 4-byte big-endian length inside a header of        *)
(* DataBegin bytes, and parseP2PMessage and the peer manager's handling    *)
(* are abstracted to "parsed or not" and a count of handled frames.        *)
(***************************************************************************)
EXTENDS Naturals, Sequences, FiniteSets

CONSTANTS
  Streams,         \* stream identities (more than MaxStreamCount, reused after close)
  MaxStreamCount,  \* maxStreamCount
  MsgChanSize,     \* msgChanSize, the capacity of each message channel
  UrgentMsgs,      \* messages sent with UrgentMessage priority
  NormalMsgs,      \* messages sent with NormalMessage priority
  Callers,         \* goroutines calling SendMessage
  WriteCanFail,    \* whether SetWriteDeadline / Write may fail on a live connection
  StopAllowed,     \* whether Stop is called
  DataBegin,       \* dataBegin, the header length (the length field lies within it)
  Headers,         \* the 4 length bytes of the frame headers the remote side sends
  MaxFrames        \* bound on the frame headers read over all streams

ASSUME
  /\ Cardinality(Streams) > MaxStreamCount
  /\ MaxStreamCount \in Nat \ {0}
  /\ MsgChanSize \in Nat \ {0}
  /\ UrgentMsgs \cap NormalMsgs = {}
  /\ WriteCanFail \in BOOLEAN /\ StopAllowed \in BOOLEAN
  /\ DataBegin \in 4..64
  /\ Headers \subseteq [1..4 -> 0..255]
  /\ MaxFrames \in Nat

Msgs == UrgentMsgs \cup NormalMsgs
None == "none"  \* no stream or message
\* The stream NewPeer is created with.
FirstStream == CHOOSE s \in Streams : TRUE

VARIABLES
  pool,         \* the streams in the channel p.streams
  streamCount,  \* p.streamCount
  held,         \* the stream writeLoop took from getStream, or None
  urgentCh,     \* p.urgentMsgCh
  normalCh,     \* p.normalMsgCh
  quit,         \* quitWriteCh closed and the connection closed (Stop)
  wpc,          \* control point of writeLoop
  wmsg,         \* the message writeLoop is writing
  spc,          \* the message a SendMessage caller is putting, or None
  sent,         \* history: messages handed to SendMessage
  written,      \* history: messages written on a stream
  connClosed,   \* p.conn closed
  reader,       \* state of the readLoop goroutine of each stream
  frames,       \* frame headers read so far
  lost          \* history: messages whose write returned an error

vars == <<pool, streamCount, held, urgentCh, normalCh, quit, wpc, wmsg, spc,
          sent, written, connClosed, reader, frames, lost>>
\* The connection, the readers and the loss history: what most writer steps
\* leave alone.
rvars == <<connClosed, reader, frames, lost>>

ReaderStates == {"none", "header", "body", "done", "panic"}

WriterStates == {"top", "sel", "get", "new", "write", "wait", "done"}

\* Streams open on the connection: free in the pool or held by the writer.
InUse == pool \cup (IF held = None THEN {} ELSE {held})

\* Identities a stream added by the remote side may take: not open, and no
\* readLoop still reading an earlier stream of that identity (CloseStream
\* closes only for writing).  newStream's streams get no reader, so any
\* identity not open will do for them.
Reusable == {s \in Streams \ InUse : reader[s] \in {"none", "done"}}

-----------------------------------------------------------------------------
\* NewPeer: the pool holds the stream the peer was created with (AddStream),
\* and Start runs writeLoop.
Init ==
  /\ pool = {FirstStream}
  /\ streamCount = 1
  /\ held = None
  /\ urgentCh = <<>> /\ normalCh = <<>>
  /\ quit = FALSE
  /\ wpc = "top" /\ wmsg = None
  /\ spc = [c \in Callers |-> None]
  /\ sent = {} /\ written = <<>>
  /\ connClosed = FALSE
  /\ reader = [s \in Streams |-> IF s = FirstStream THEN "header" ELSE "none"]
  /\ frames = 0
  /\ lost = {}

(* ---- SendMessage ------------------------------------------------------ *)
\* A caller picks a message and priority.
SendMessage(c, m) ==
  /\ spc[c] = None
  /\ m \in Msgs \ sent
  /\ spc' = [spc EXCEPT ![c] = m]
  /\ sent' = sent \cup {m}
  /\ UNCHANGED <<pool, streamCount, held, urgentCh, normalCh, quit, wpc, wmsg, written, rvars>>

\* The channel send, which blocks while the channel is full.
Enqueue(c) ==
  LET m == spc[c] IN
  /\ m # None
  /\ IF m \in UrgentMsgs
       THEN /\ Len(urgentCh) < MsgChanSize
            /\ urgentCh' = Append(urgentCh, m)
            /\ UNCHANGED normalCh
       ELSE /\ Len(normalCh) < MsgChanSize
            /\ normalCh' = Append(normalCh, m)
            /\ UNCHANGED urgentCh
  /\ spc' = [spc EXCEPT ![c] = None]
  /\ UNCHANGED <<pool, streamCount, held, quit, wpc, wmsg, sent, written, rvars>>

(* ---- AddStream, Stop -------------------------------------------------- *)
\* Fault: the count check lets one stream too many in.
AddStreamOver(s) ==
  /\ s \in Reusable
  /\ streamCount <= MaxStreamCount
  /\ pool' = pool \cup {s}
  /\ streamCount' = streamCount + 1
  /\ reader' = [reader EXCEPT ![s] = "header"]
  /\ UNCHANGED <<held, urgentCh, normalCh, quit, wpc, wmsg, spc, sent, written,
                 connClosed, frames, lost>>

\* A stream opened by the remote side; refused at maxStreamCount.  It
\* joins the pool and a readLoop goroutine starts reading it.
AddStream(s) ==
  /\ s \in Reusable
  /\ streamCount < MaxStreamCount
  /\ pool' = pool \cup {s}
  /\ streamCount' = streamCount + 1
  /\ reader' = [reader EXCEPT ![s] = "header"]
  /\ UNCHANGED <<held, urgentCh, normalCh, quit, wpc, wmsg, spc, sent, written,
                 connClosed, frames, lost>>

\* close(p.quitWriteCh); p.conn.Close().
Stop ==
  /\ StopAllowed
  /\ ~quit
  /\ quit' = TRUE
  /\ connClosed' = TRUE
  /\ UNCHANGED <<pool, streamCount, held, urgentCh, normalCh, wpc, wmsg, spc, sent, written,
                 reader, frames, lost>>

(* ---- writeLoop -------------------------------------------------------- *)
\* writeLoop takes message m from a channel and calls write(m).
Take(m) ==
  /\ wmsg' = m
  /\ wpc' = "get"

\* First select: quit, or an urgent message, else fall through (default).
TopQuit ==
  /\ wpc = "top" /\ quit
  /\ wpc' = "done"
  /\ UNCHANGED <<pool, streamCount, held, urgentCh, normalCh, quit, wmsg, spc, sent, written, rvars>>

TopUrgent ==
  /\ wpc = "top" /\ urgentCh # <<>>
  /\ urgentCh' = Tail(urgentCh)
  /\ Take(Head(urgentCh))
  /\ UNCHANGED <<pool, streamCount, held, normalCh, quit, spc, sent, written, rvars>>

TopDefault ==
  /\ wpc = "top" /\ ~quit /\ urgentCh = <<>>
  /\ wpc' = "sel"
  /\ UNCHANGED <<pool, streamCount, held, urgentCh, normalCh, quit, wmsg, spc, sent, written, rvars>>

\* Second select: blocks until one case is ready; Go picks among the ready.
SelQuit ==
  /\ wpc = "sel" /\ quit
  /\ wpc' = "done"
  /\ UNCHANGED <<pool, streamCount, held, urgentCh, normalCh, quit, wmsg, spc, sent, written, rvars>>

SelUrgent ==
  /\ wpc = "sel" /\ urgentCh # <<>>
  /\ urgentCh' = Tail(urgentCh)
  /\ Take(Head(urgentCh))
  /\ UNCHANGED <<pool, streamCount, held, normalCh, quit, spc, sent, written, rvars>>

SelNormal ==
  /\ wpc = "sel" /\ normalCh # <<>>
  /\ normalCh' = Tail(normalCh)
  /\ Take(Head(normalCh))
  /\ UNCHANGED <<pool, streamCount, held, urgentCh, quit, spc, sent, written, rvars>>

(* ---- write: getStream, newStream, CloseStream -------------------------- *)
\* getStream's first select: a free stream from the pool.
GetPooled ==
  /\ wpc = "get"
  /\ \E s \in pool : /\ held' = s
                     /\ pool' = pool \ {s}
  /\ wpc' = "write"
  /\ UNCHANGED <<streamCount, urgentCh, normalCh, quit, wmsg, spc, sent, written, rvars>>

\* The pool is empty: the select's default case calls newStream.
GetDefault ==
  /\ wpc = "get" /\ pool = {}
  /\ wpc' = "new"
  /\ UNCHANGED <<pool, streamCount, held, urgentCh, normalCh, quit, wmsg, spc, sent, written, rvars>>

\* Fault: ErrStreamCountExceed is returned as write's error, and the
\* message is dropped without an error being reported for it.
NewStreamGiveUp ==
  /\ wpc = "new"
  /\ IF streamCount >= MaxStreamCount \/ connClosed
       THEN /\ wpc' = "top"
            /\ UNCHANGED <<streamCount, held>>
       ELSE \E s \in Streams \ InUse :
              /\ held' = s
              /\ streamCount' = streamCount + 1
              /\ wpc' = "write"
  /\ UNCHANGED <<pool, urgentCh, normalCh, quit, wmsg, spc, sent, written, rvars>>

\* newStream under streamMutex.  At maxStreamCount getStream falls back to
\* <-p.streams; on a closed connection NewStream fails and write returns
\* the error (the message is dropped); otherwise a stream is opened and
\* counted.
NewStream ==
  /\ wpc = "new"
  /\ IF streamCount >= MaxStreamCount
       THEN /\ wpc' = "wait"
            /\ UNCHANGED <<streamCount, held, lost>>
       ELSE IF connClosed
       THEN /\ wpc' = "top"
            /\ lost' = lost \cup {wmsg}
            /\ UNCHANGED <<streamCount, held>>
       ELSE \E s \in Streams \ InUse :
              /\ held' = s
              /\ streamCount' = streamCount + 1
              /\ wpc' = "write"
              /\ UNCHANGED lost
  /\ UNCHANGED <<pool, urgentCh, normalCh, quit, wmsg, spc, sent, written,
                 connClosed, reader, frames>>

\* getStream's fallback <-p.streams: streams the remote side added between
\* the empty pool and newStream's count check.
GetWait ==
  /\ wpc = "wait"
  /\ \E s \in pool : /\ held' = s
                     /\ pool' = pool \ {s}
  /\ wpc' = "write"
  /\ UNCHANGED <<streamCount, urgentCh, normalCh, quit, wmsg, spc, sent, written, rvars>>

\* Fault: CloseStream closes the stream but leaves the count as it was.
CloseStreamKeep(s) == streamCount' = streamCount

\* CloseStream: close the stream for writing and stop counting it.
CloseStream(s) == streamCount' = streamCount - 1

\* The deadline is set and the message written; the stream goes back.
WriteOk ==
  /\ wpc = "write" /\ ~connClosed
  /\ pool' = pool \cup {held}
  /\ written' = Append(written, wmsg)
  /\ held' = None
  /\ wpc' = "top"
  /\ UNCHANGED <<streamCount, urgentCh, normalCh, quit, wmsg, spc, sent, rvars>>

\* Fault: writeLoop returns when write reports an error.
WriteFailReturn ==
  /\ wpc = "write" /\ (WriteCanFail \/ connClosed)
  /\ CloseStream(held)
  /\ held' = None
  /\ wpc' = "done"
  /\ lost' = lost \cup {wmsg}
  /\ UNCHANGED <<pool, urgentCh, normalCh, quit, wmsg, spc, sent, written,
                 connClosed, reader, frames>>

\* SetWriteDeadline or Write fails (always, once the connection is closed):
\* the stream is closed and the error is dropped by writeLoop.
WriteFail ==
  /\ wpc = "write" /\ (WriteCanFail \/ connClosed)
  /\ CloseStream(held)
  /\ held' = None
  /\ wpc' = "top"
  /\ lost' = lost \cup {wmsg}
  /\ UNCHANGED <<pool, urgentCh, normalCh, quit, wmsg, spc, sent, written,
                 connClosed, reader, frames>>

Writer ==
  \/ TopQuit \/ TopUrgent \/ TopDefault \/ SelQuit \/ SelUrgent \/ SelNormal
  \/ GetPooled \/ GetDefault \/ NewStream \/ GetWait \/ WriteOk \/ WriteFail

(* ---- readLoop ---------------------------------------------------------- *)
\* binary.BigEndian.Uint32 of the length field, as its high and low 16-bit
\* halves (a uint32 exceeds TLC's integers).
Uint32BE(b) == <<b[1] * 256 + b[2], b[3] * 256 + b[4]>>

\* len(data) for data := make([]byte, dataBegin+length), as 16-bit halves:
\* dataBegin is an untyped constant (dataBegin + length compiles with
\* length a uint32), so the sum is a uint32 and wraps modulo 2^32.
FrameLen(h) ==
  LET n  == Uint32BE(h)
      lo == n[2] + DataBegin
  IN  <<(n[1] + lo \div 65536) % 65536, lo % 65536>>

\* len(data) < dataBegin, so data[dataBegin:] is out of range.
ShortBuffer(h) == FrameLen(h)[1] = 0 /\ FrameLen(h)[2] < DataBegin

\* io.ReadFull(stream, header) returns a header the remote side sent.  The
\* buffer is allocated and data[dataBegin:] sliced, which panics when the
\* buffer is shorter than dataBegin.
ReadHeader(s, h) ==
  /\ reader[s] = "header" /\ ~connClosed
  /\ frames < MaxFrames
  /\ reader' = [reader EXCEPT ![s] = IF ShortBuffer(h) THEN "panic" ELSE "body"]
  /\ frames' = frames + 1
  /\ UNCHANGED connClosed

\* io.ReadFull(stream, data[dataBegin:]) succeeds; parseP2PMessage fails
\* (readLoop returns) or succeeds and handleMessage passes the message on.
ReadBody(s) ==
  /\ reader[s] = "body" /\ ~connClosed
  /\ \E parsed \in BOOLEAN :
       reader' = [reader EXCEPT ![s] = IF parsed THEN "header" ELSE "done"]
  /\ UNCHANGED <<connClosed, frames>>

\* A read fails because the remote side closed or reset the stream.
ReadRemoteFail(s) ==
  /\ reader[s] \in {"header", "body"} /\ ~connClosed
  /\ reader' = [reader EXCEPT ![s] = "done"]
  /\ UNCHANGED <<connClosed, frames>>

\* A read fails because Stop closed the connection.
ReadClosed(s) ==
  /\ reader[s] \in {"header", "body"} /\ connClosed
  /\ reader' = [reader EXCEPT ![s] = "done"]
  /\ UNCHANGED <<connClosed, frames>>

ReadLoop(s) ==
  \/ \E h \in Headers : ReadHeader(s, h)
  \/ ReadBody(s) \/ ReadRemoteFail(s) \/ ReadClosed(s)

ReadStep(s) ==
  /\ ReadLoop(s)
  /\ UNCHANGED <<pool, streamCount, held, urgentCh, normalCh, quit, wpc, wmsg, spc,
                 sent, written, lost>>

-----------------------------------------------------------------------------
\* An unrecovered panic in any goroutine ends the process.
Alive == \A s \in Streams : reader[s] # "panic"

Next ==
  /\ Alive
  /\ \/ \E c \in Callers, m \in Msgs : SendMessage(c, m)
     \/ \E c \in Callers : Enqueue(c)
     \/ \E s \in Streams : AddStream(s)
     \/ Stop
     \/ Writer
     \/ \E s \in Streams : ReadStep(s)

\* Every goroutine that can run does: the writer, each caller blocked on a
\* channel with room, and each reader whose blocked read the closed
\* connection fails.  Nothing is assumed of the remote side.
Fairness ==
  /\ WF_vars(Writer)
  /\ \A c \in Callers : WF_vars(Enqueue(c))
  /\ \A s \in Streams : WF_vars(ReadClosed(s) /\ UNCHANGED <<pool, streamCount, held,
                          urgentCh, normalCh, quit, wpc, wmsg, spc, sent, written, lost>>)

Spec == Init /\ [][Next]_vars /\ Fairness

-----------------------------------------------------------------------------
TypeOK ==
  /\ pool \subseteq Streams
  /\ streamCount \in 0..MaxStreamCount
  /\ held \in Streams \cup {None}
  /\ urgentCh \in Seq(UrgentMsgs) /\ normalCh \in Seq(NormalMsgs)
  /\ quit \in BOOLEAN
  /\ wpc \in WriterStates
  /\ wmsg \in Msgs \cup {None}
  /\ spc \in [Callers -> Msgs \cup {None}]
  /\ sent \subseteq Msgs
  /\ written \in Seq(Msgs)
  /\ connClosed \in BOOLEAN
  /\ reader \in [Streams -> ReaderStates]
  /\ frames \in 0..MaxFrames
  /\ lost \subseteq Msgs

\* streamCount counts exactly the open streams, free or held by writeLoop,
\* and stays within maxStreamCount, across AddStream from the remote side,
\* newStream and CloseStream on failed writes; so getStream falls back to
\* <-p.streams only when the pool holds a stream for it, never to wait for
\* ever on an empty pool.
StreamAccounting ==
  /\ streamCount = Cardinality(InUse)
  /\ streamCount <= MaxStreamCount
  /\ wpc = "wait" => pool # {}

\* Every SendMessage returns unless the peer is stopped: while writeLoop
\* runs it drains both channels, so a caller blocked on a full channel is
\* eventually let through, whatever writes fail and streams come and go.
\* (After Stop nothing drains the channels: see the hazard at SendMessage.)
SendCompletes == \A c \in Callers : spc[c] # None ~> (spc[c] = None \/ quit)

\* Every message handed to SendMessage is eventually written on a stream,
\* unless a write of it returned an error or the peer was stopped: the
\* writer is never stranded in getStream, and nothing drops a message
\* without an error, across remote AddStream, newStream at maxStreamCount
\* and failed writes.
MessagesDelivered ==
  \A m \in Msgs :
    m \in sent ~> (m \in {written[i] : i \in DOMAIN written} \/ m \in lost \/ quit)

\* No frame the remote side sends makes readLoop panic, which would take the
\* node down: the buffer readLoop allocates for a header's length always
\* holds the header it copies in.
ReaderNeverPanics == Alive

=============================================================================
