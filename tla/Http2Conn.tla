------------------------------ MODULE Http2Conn ------------------------------
(***************************************************************************)
(* One server-side HTTP/2 connection: the frame handlers and the flow      *)
(* control of Http2Connection (http2-conn), driven as server_poll          *)
(* (http2_client.rs) drives it.  A chunk read from the socket is fed       *)
(* frame by frame; when feed returns, the frames it produced are written,  *)
(* and each request it completed is answered before the next read.  When   *)
(* feed returns an error, what it produced is dropped; when the socket     *)
(* takes only a part of what is written, the rest is dropped; and the      *)
(* connection goes on.                                                     *)
(*                                                                         *)
(* The frames of a chunk and the settings of a SETTINGS frame are chosen   *)
(* one at a time, as the handler comes to them.  Bodies are lengths,       *)
(* header blocks are whether they fit and decode.                          *)
(***************************************************************************)
EXTENDS Integers, Sequences, Functions, FiniteSets

CONSTANTS
    StreamIds,          \* stream identifiers a frame may carry, 0 among them
    InitialWindow,      \* 65_535
    MaxWindow,          \* 0x7FFF_FFFF
    RecvWindow,         \* SERVER_INITIAL_WINDOW_SIZE
    MaxConcurrent,      \* SERVER_MAX_CONCURRENT_STREAMS
    MaxRst,             \* SERVER_MAX_RST_STREAMS
    MaxLifetime,        \* SERVER_MAX_STREAM_LIFETIME
    MaxContinuations,   \* SERVER_MAX_CONTINUATIONS_PER_BLOCK
    DefaultFrameSize,   \* DEFAULT_MAX_FRAME_SIZE
    FrameSizes,         \* legal values of SETTINGS_MAX_FRAME_SIZE
    Windows,            \* values of SETTINGS_INITIAL_WINDOW_SIZE
    Increments,         \* increments of WINDOW_UPDATE
    Lengths,            \* payload lengths of inbound DATA
    Bodies,             \* lengths of response bodies
    MaxFrames           \* bound: frames and settings received

ASSUME Http2Assumption ==
    /\ StreamIds \subseteq Nat /\ 0 \in StreamIds
    /\ MaxWindow \in Nat /\ InitialWindow \in 0 .. MaxWindow /\ RecvWindow \in Nat
    /\ {MaxConcurrent, MaxRst, MaxLifetime, MaxContinuations, MaxFrames} \subseteq Nat
    /\ FrameSizes \subseteq Nat \ {0} /\ DefaultFrameSize \in FrameSizes
    /\ Windows \subseteq Nat /\ Increments \subseteq Nat
    /\ Lengths \subseteq Nat /\ Bodies \subseteq Nat

VARIABLES
    pc,                 \* where feed, respond and flush_all are
    preface_seen,
    goaway_sent,
    streams,            \* request streams not complete yet
    last_stream_id,
    active_header_stream,   \* 0 for None
    rst_stream_count,
    stream_lifetime_count,
    conn_recv_window,
    conn_send_window,
    peer_initial_window,
    peer_max_frame_size,
    send,               \* response bodies not sent yet
    out,                \* frames produced and not written yet, per stream
    requests,           \* feed.requests
    flush,              \* a flush in progress: streams to do, the current one, who asked
    frames,             \* history: frames and settings received
    wire,               \* history: frames the peer can read, per stream
    body,               \* history: body length, per stream answered
    lost                \* history: streams with a request or a frame dropped

recvVars == <<streams, last_stream_id, active_header_stream, rst_stream_count,
              stream_lifetime_count, conn_recv_window>>
sendVars == <<conn_send_window, peer_initial_window, peer_max_frame_size, send>>
outVars == <<out, requests, goaway_sent, lost>>
histVars == <<wire, body>>
vars == <<pc, preface_seen, recvVars, sendVars, outVars, flush, frames, histVars>>
-----------------------------------------------------------------------------
\* Stream and SendState.
Stream == [headers_done : BOOLEAN, end_stream : BOOLEAN, recv_window : Nat,
           continuation_count : Nat]
SendState == [pending : Nat \ {0}, window : Int]

\* Outbound frames the properties speak of.
Settings == [type |-> "SETTINGS"]
Goaway(last) == [type |-> "GOAWAY", last |-> last]
Headers(end) == [type |-> "HEADERS", n |-> 0, end |-> end]
DataFrame(n, end) == [type |-> "DATA", n |-> n, end |-> end]

OutFrame == [type : {"SETTINGS"}] \cup [type : {"GOAWAY"}, last : StreamIds]
            \cup [type : {"HEADERS", "DATA"}, n : Nat, end : BOOLEAN]

NoFrames == [s \in StreamIds |-> <<>>]
NotFlushing == [todo |-> {}, cur |-> 0, back |-> "frames"]

Least(a, b) == IF a <= b THEN a ELSE b
Without(f, s) == [x \in DOMAIN f \ {s} |-> f[x]]
With(f, s, v) == [x \in DOMAIN f \cup {s} |-> IF x = s THEN v ELSE f[x]]

Init ==
    /\ pc = "idle" /\ preface_seen = FALSE /\ goaway_sent = FALSE
    /\ streams = <<>> /\ last_stream_id = 0 /\ active_header_stream = 0
    /\ rst_stream_count = 0 /\ stream_lifetime_count = 0
    /\ conn_recv_window = RecvWindow
    /\ conn_send_window = InitialWindow /\ peer_initial_window = InitialWindow
    /\ peer_max_frame_size = DefaultFrameSize /\ send = <<>>
    /\ out = NoFrames /\ requests = <<>> /\ flush = NotFlushing
    /\ frames = 0 /\ wire = NoFrames /\ body = <<>> /\ lost = {}
-----------------------------------------------------------------------------
\* ---- feed -----------------------------------------------------------------

Push(s, f) == out' = [out EXCEPT ![s] = Append(@, f)]

\* A chunk is read and fed.  A first chunk may be too short to hold the
\* preface, which changes nothing; a wrong preface stays in the buffer, and
\* every later feed fails on it.
Feed ==
    /\ pc = "idle"
    /\ IF preface_seen
       THEN pc' = "frames" /\ UNCHANGED <<preface_seen, out>>
       ELSE \/ pc' = "frames" /\ preface_seen' = TRUE /\ Push(0, Settings)
            \/ pc' = "closed" /\ UNCHANGED <<preface_seen, out>>
    /\ UNCHANGED <<recvVars, sendVars, requests, goaway_sent, lost, flush, frames, histVars>>

\* An empty read: the connection is closed and forgotten.
Eof ==
    /\ pc = "idle" /\ pc' = "closed"
    /\ UNCHANGED <<preface_seen, recvVars, sendVars, outVars, flush, frames, histVars>>

\* The nonblocking socket takes the bytes up to where its buffer is full, often
\* all of them; the error is discarded and the rest dropped.  k is how many
\* frames of each stream come through.  A cut inside a frame leaves nothing
\* readable behind it, which is k = 0 in every later write.
stream_write_all ==
    /\ \E k \in [StreamIds -> UNION {0 .. Len(out[s]) : s \in StreamIds}] :
          /\ \A s \in StreamIds : k[s] <= Len(out[s])
          /\ wire' = [s \in StreamIds |-> wire[s] \o SubSeq(out[s], 1, k[s])]
          /\ lost' = lost \cup {s \in StreamIds : k[s] < Len(out[s])}
    /\ out' = NoFrames

\* Ok(feed): the caller writes outbound and takes up the requests.
FeedOk ==
    /\ pc \in {"frames", "return"}
    /\ pc' = IF requests = <<>> THEN "idle" ELSE "respond"
    /\ stream_write_all
    /\ UNCHANGED <<preface_seen, recvVars, sendVars, requests, goaway_sent,
                   flush, frames, body>>

\* Err: the caller drops the feed and keeps the connection.
FeedErr ==
    /\ pc' = "idle"
    /\ lost' = lost \cup Range(requests) \cup {s \in StreamIds : out[s] # <<>>}
    /\ out' = NoFrames /\ requests' = <<>>
    /\ UNCHANGED goaway_sent

\* The next frame of the chunk is handled.
Frame == pc = "frames" /\ frames < MaxFrames /\ frames' = frames + 1

goaway_code ==
    /\ goaway_sent' = TRUE
    /\ IF goaway_sent THEN UNCHANGED out ELSE Push(0, Goaway(last_stream_id))
    /\ UNCHANGED <<requests, lost>>

\* A frame longer than the advertised maximum, whole or partial, ends the feed.
Oversized ==
    /\ Frame /\ goaway_code
    /\ pc' = "return"
    /\ UNCHANGED <<preface_seen, recvVars, sendVars, flush, histVars>>
-----------------------------------------------------------------------------
\* ---- handle_frame ---------------------------------------------------------

\* SETTINGS: a malformed one, an ACK, or one whose settings are applied in turn.
SettingsFrame ==
    /\ Frame
    /\ \/ goaway_code /\ pc' = "frames"
       \/ UNCHANGED outVars /\ pc' \in {"frames", "settings"}
    /\ UNCHANGED <<preface_seen, recvVars, sendVars, flush, histVars>>

\* One setting of the list; a bad one ends the frame and leaves the earlier
\* ones applied.
MaxFrameSizeSetting(v) ==
    /\ peer_max_frame_size' = v
    /\ UNCHANGED <<pc, outVars, conn_send_window, peer_initial_window, send>>

InitialWindowSetting(v) ==
    IF v > MaxWindow
    THEN goaway_code /\ pc' = "frames" /\ UNCHANGED sendVars
    ELSE /\ peer_initial_window' = v
         /\ send' = [s \in DOMAIN send |->
                        [send[s] EXCEPT !.window = @ + (v - peer_initial_window)]]
         /\ UNCHANGED <<pc, outVars, conn_send_window, peer_max_frame_size>>

SettingsItem ==
    /\ pc = "settings" /\ frames < MaxFrames /\ frames' = frames + 1
    /\ \/ goaway_code /\ pc' = "frames" /\ UNCHANGED sendVars
       \/ \E v \in FrameSizes : MaxFrameSizeSetting(v)
       \/ \E v \in Windows : InitialWindowSetting(v)
    /\ UNCHANGED <<preface_seen, recvVars, flush, histVars>>

flush_all == pc' = "flush" /\ flush' = [todo |-> DOMAIN send, cur |-> 0, back |-> "frames"]

\* Mistake: the list is neither acknowledged nor followed by a flush.
SettingsEnd_no_flush ==
    /\ pc = "settings" /\ pc' = "frames"
    /\ UNCHANGED <<preface_seen, recvVars, sendVars, outVars, flush, frames, histVars>>

\* The list is done: acknowledge, then flush_all.
SettingsEnd ==
    /\ pc = "settings"
    /\ flush_all
    /\ UNCHANGED <<preface_seen, recvVars, sendVars, outVars, frames, histVars>>

\* PING, answered or malformed, and WINDOW_UPDATE or RST_STREAM of a wrong
\* length; GOAWAY, PRIORITY, PUSH_PROMISE and unknown frames are ignored.
Ping ==
    /\ Frame
    /\ goaway_code \/ UNCHANGED outVars
    /\ UNCHANGED <<pc, preface_seen, recvVars, sendVars, flush, histVars>>

\* Mistake: the window may pass its maximum.
BadIncrement_unchecked(s, inc) == inc = 0

\* A zero increment, or one that takes a window past 2^31-1.
BadIncrement(s, inc) ==
    \/ inc = 0
    \/ s = 0 /\ conn_send_window + inc > MaxWindow
    \/ s \in DOMAIN send /\ send[s].window + inc > MaxWindow

\* Credit for the connection, for a response body that waits, or for neither.
WindowUpdate(s, inc) ==
    /\ Frame
    /\ IF BadIncrement(s, inc)
       THEN goaway_code /\ UNCHANGED <<pc, sendVars, flush>>
       ELSE /\ conn_send_window' = conn_send_window + (IF s = 0 THEN inc ELSE 0)
            /\ send' = [x \in DOMAIN send |->
                          IF x = s THEN [send[x] EXCEPT !.window = @ + inc] ELSE send[x]]
            /\ flush_all
            /\ UNCHANGED <<peer_initial_window, peer_max_frame_size, outVars>>
    /\ UNCHANGED <<preface_seen, recvVars, histVars>>

\* Mistake: a reset stream keeps its header block open.
HeaderStreamAfter_kept(s) == active_header_stream

HeaderStreamAfter(s) == IF active_header_stream = s THEN 0 ELSE active_header_stream

\* Only the receiving side of the stream goes.
RstStream(s) ==
    /\ Frame
    /\ IF s = 0
       THEN goaway_code /\ UNCHANGED recvVars
       ELSE /\ rst_stream_count' = rst_stream_count + 1
            /\ IF rst_stream_count' > MaxRst
               THEN goaway_code /\ UNCHANGED <<streams, active_header_stream>>
               ELSE /\ streams' = Without(streams, s)
                    /\ active_header_stream' = HeaderStreamAfter(s)
                    /\ UNCHANGED outVars
            /\ UNCHANGED <<last_stream_id, stream_lifetime_count, conn_recv_window>>
    /\ UNCHANGED <<pc, preface_seen, sendVars, flush, histVars>>

\* try_emit, on the stream as the handler leaves it.
try_emit(s, st) ==
    /\ IF st.headers_done /\ st.end_stream
       THEN streams' = Without(streams, s) /\ requests' = Append(requests, s)
       ELSE streams' = With(streams, s, st) /\ UNCHANGED requests
    /\ UNCHANGED <<pc, out, goaway_sent, lost>>

NewStream(end) == [headers_done |-> FALSE, end_stream |-> end,
                   recv_window |-> RecvWindow, continuation_count |-> 0]

Decoded(st) == [st EXCEPT !.headers_done = TRUE, !.continuation_count = 0]

\* Mistake: the last id may be opened again.
Refused_reused(s) ==
    \/ s % 2 = 0 \/ s < last_stream_id
    \/ active_header_stream # 0
    \/ Cardinality(DOMAIN streams) >= MaxConcurrent

\* HEADERS that may not open a stream.
Refused(s) ==
    \/ s % 2 = 0 \/ s <= last_stream_id
    \/ active_header_stream # 0
    \/ Cardinality(DOMAIN streams) >= MaxConcurrent

\* padding and decodes: whether the padding and the header block are well formed.
HeadersFrame(s, end, end_headers, padding, fits, decodes) ==
    /\ Frame
    /\ IF Refused(s)
       THEN goaway_code /\ UNCHANGED <<recvVars, pc>>
       ELSE /\ stream_lifetime_count' = stream_lifetime_count + 1
            /\ UNCHANGED <<rst_stream_count, conn_recv_window>>
            /\ IF stream_lifetime_count' <= MaxLifetime /\ ~padding
               THEN FeedErr /\ UNCHANGED <<streams, last_stream_id, active_header_stream>>
               ELSE IF stream_lifetime_count' > MaxLifetime \/ ~fits
               THEN goaway_code /\ UNCHANGED <<pc, streams, last_stream_id, active_header_stream>>
               ELSE /\ last_stream_id' = s
                    /\ IF ~end_headers
                       THEN /\ active_header_stream' = s
                            /\ try_emit(s, NewStream(end))
                       ELSE /\ UNCHANGED active_header_stream
                            /\ IF decodes
                               THEN try_emit(s, Decoded(NewStream(end)))
                               ELSE streams' = With(streams, s, NewStream(end)) /\ FeedErr
    /\ UNCHANGED <<preface_seen, sendVars, flush, histVars>>

Continuation(s, end_headers, fits, decodes) ==
    /\ Frame
    /\ IF active_header_stream # s \/ s = 0
       THEN goaway_code /\ UNCHANGED <<pc, streams, active_header_stream>>
       ELSE LET st == [streams[s] EXCEPT !.continuation_count = @ + 1]
            IN IF s \notin DOMAIN streams
               THEN FeedErr /\ UNCHANGED <<streams, active_header_stream>>
               ELSE IF st.continuation_count > MaxContinuations \/ ~fits
               THEN /\ streams' = With(streams, s, st)
                    /\ goaway_code /\ UNCHANGED <<pc, active_header_stream>>
               ELSE IF ~end_headers
               THEN /\ streams' = With(streams, s, st)
                    /\ UNCHANGED <<pc, outVars, active_header_stream>>
               ELSE IF decodes
               THEN active_header_stream' = 0 /\ try_emit(s, Decoded(st))
               ELSE /\ streams' = With(streams, s, st)
                    /\ FeedErr /\ UNCHANGED active_header_stream
    /\ UNCHANGED <<preface_seen, last_stream_id, rst_stream_count,
                   stream_lifetime_count, conn_recv_window, sendVars, flush, histVars>>

Overdrawn(n) == conn_recv_window - n < 0

Data(s, n, end, padding) ==
    /\ Frame
    /\ IF s \notin DOMAIN streams
       THEN goaway_code /\ UNCHANGED <<pc, streams, conn_recv_window>>
       ELSE IF ~padding
       THEN FeedErr /\ UNCHANGED <<streams, conn_recv_window>>
       ELSE IF Overdrawn(n)
       THEN goaway_code /\ UNCHANGED <<pc, streams, conn_recv_window>>
       ELSE /\ conn_recv_window' = conn_recv_window - n
            /\ IF streams[s].recv_window - n < 0
               THEN goaway_code /\ UNCHANGED <<pc, streams>>
               ELSE try_emit(s, [streams[s] EXCEPT !.recv_window = @ - n,
                                                   !.end_stream = @ \/ end])
    /\ UNCHANGED <<preface_seen, last_stream_id, active_header_stream,
                   rst_stream_count, stream_lifetime_count, sendVars, flush, histVars>>
-----------------------------------------------------------------------------
\* ---- respond and flush_stream ---------------------------------------------

\* respond: HEADERS, and the body queued behind flow control.
Respond(n) ==
    /\ pc = "respond" /\ requests # <<>>
    /\ LET s == Head(requests)
       IN /\ Push(s, Headers(n = 0))
          /\ streams' = Without(streams, s)
          /\ body' = With(body, s, n)
          /\ send' = IF n = 0 THEN send
                     ELSE With(send, s, [pending |-> n, window |-> peer_initial_window])
          /\ flush' = [todo |-> IF n = 0 THEN {} ELSE {s}, cur |-> 0, back |-> "respond"]
    /\ pc' = "flush" /\ requests' = Tail(requests)
    /\ UNCHANGED <<preface_seen, last_stream_id, active_header_stream, rst_stream_count,
                   stream_lifetime_count, conn_recv_window, conn_send_window,
                   peer_initial_window, peer_max_frame_size, goaway_sent, lost, frames, wire>>

\* Mistake: the connection window is not looked at.
Allowed_stream_only(ss) == Least(ss.window, Least(peer_max_frame_size, ss.pending))

\* How much of a body the windows and the frame size let through.
Allowed(ss) == Least(Least(conn_send_window, ss.window),
                     Least(peer_max_frame_size, ss.pending))

\* Mistake: the last frame is the one that fills the window.
Ends_at_window(ss, n) == n = ss.window

\* The frame carries the rest of the body.
Ends(ss, n) == n = ss.pending

\* One turn of flush_stream's loop, for the stream in hand or, when there is
\* none, for the next one in the order the hash map gives them.
FlushStream(s) ==
    /\ pc = "flush"
    /\ s \in IF flush.cur = 0 THEN flush.todo ELSE {flush.cur}
    /\ LET ss == send[s]
           allowed == Allowed(ss)
           end == Ends(ss, allowed)
       IN IF allowed <= 0
          THEN /\ flush' = [flush EXCEPT !.todo = @ \ {s}, !.cur = 0]
               /\ UNCHANGED <<out, conn_send_window, send>>
          ELSE /\ Push(s, DataFrame(allowed, end))
               /\ conn_send_window' = conn_send_window - allowed
               /\ send' = IF end THEN Without(send, s)
                          ELSE [send EXCEPT ![s] = [pending |-> ss.pending - allowed,
                                                    window |-> ss.window - allowed]]
               /\ flush' = [flush EXCEPT !.todo = @ \ {s}, !.cur = IF end THEN 0 ELSE s]
    /\ UNCHANGED <<pc, preface_seen, recvVars, peer_initial_window, peer_max_frame_size,
                   requests, goaway_sent, lost, frames, histVars>>

\* The flush is over: back to the frames of the chunk, or the answer is written.
FlushEnd ==
    /\ pc = "flush" /\ flush.todo = {} /\ flush.cur = 0
    /\ flush' = NotFlushing
    /\ IF flush.back = "frames"
       THEN pc' = "frames" /\ UNCHANGED <<out, wire, lost>>
       ELSE pc' = (IF requests = <<>> THEN "idle" ELSE "respond") /\ stream_write_all
    /\ UNCHANGED <<preface_seen, recvVars, sendVars, requests, goaway_sent, frames, body>>
-----------------------------------------------------------------------------
Next ==
    \/ Feed \/ Eof \/ FeedOk \/ Oversized
    \/ SettingsFrame \/ SettingsItem \/ SettingsEnd \/ Ping
    \/ \E s \in StreamIds, inc \in Increments : WindowUpdate(s, inc)
    \/ \E s \in StreamIds : RstStream(s)
    \/ \E s \in StreamIds, end, end_headers, padding, fits, decodes \in BOOLEAN :
          HeadersFrame(s, end, end_headers, padding, fits, decodes)
    \/ \E s \in StreamIds, end_headers, fits, decodes \in BOOLEAN :
          Continuation(s, end_headers, fits, decodes)
    \/ \E s \in StreamIds, n \in Lengths, end, padding \in BOOLEAN : Data(s, n, end, padding)
    \/ \E n \in Bodies : Respond(n)
    \/ \E s \in StreamIds : FlushStream(s)
    \/ FlushEnd

Spec == Init /\ [][Next]_vars
-----------------------------------------------------------------------------
\* Type correctness of the connection's state: what it receives into, what it
\* sends from, what it has produced, and where it is.
RecvOK ==
    /\ DOMAIN streams \subseteq StreamIds \ {0} /\ streams \in [DOMAIN streams -> Stream]
    /\ last_stream_id \in StreamIds /\ active_header_stream \in StreamIds
    /\ rst_stream_count \in Nat /\ stream_lifetime_count \in Nat
    /\ conn_recv_window \in Nat
SendOK ==
    /\ conn_send_window \in Int /\ peer_initial_window \in 0 .. MaxWindow
    /\ peer_max_frame_size \in FrameSizes
    /\ DOMAIN send \subseteq StreamIds \ {0} /\ send \in [DOMAIN send -> SendState]
OutOK ==
    /\ out \in [StreamIds -> Seq(OutFrame)] /\ requests \in Seq(StreamIds \ {0})
    /\ goaway_sent \in BOOLEAN /\ lost \subseteq StreamIds
PlaceOK ==
    /\ pc \in {"idle", "frames", "return", "settings", "flush", "respond", "closed"}
    /\ preface_seen \in BOOLEAN /\ frames \in Nat /\ DOMAIN body \subseteq StreamIds
    /\ flush \in [todo : SUBSET DOMAIN send, cur : DOMAIN send \cup {0},
                  back : {"frames", "respond"}]
TypeOK == RecvOK /\ SendOK /\ OutOK /\ PlaceOK

\* Credit is never overdrawn and never lost count of, in either direction: the
\* connection windows stay within 0 .. what was advertised and 0 .. 2^31-1, and
\* a stream's window stays within 2^31-1 of the peer's initial window however
\* SETTINGS move it (handle_frame's DATA, SETTINGS and WINDOW_UPDATE,
\* flush_stream), so the i64 arithmetic cannot overflow.
WindowBounds ==
    /\ conn_recv_window \in 0 .. RecvWindow
    /\ conn_send_window \in 0 .. MaxWindow
    /\ \A s \in DOMAIN send :
          send[s].window \in (peer_initial_window - MaxWindow) .. (peer_initial_window + MaxWindow)

\* Nothing sendable is left behind: between two chunks, a response body still
\* pending lacks connection credit or stream credit.  Every handler that adds
\* credit must end in flush_all; one that returns early has sent GOAWAY.
NoStalledBody ==
    pc = "idle" /\ ~goaway_sent =>
        \A s \in DOMAIN send : conn_send_window <= 0 \/ send[s].window <= 0

\* A header block in progress belongs to the newest stream, which is still
\* there and not complete; so CONTINUATION never misses its stream.  Other
\* frames may come in between, against which the connection only notes an error
\* (goaway_code): they may reset the stream, but neither replace it nor complete
\* it, and the block goes on where it was (handle_frame, lines 305-358).
HeaderBlockOpen ==
    active_header_stream # 0 =>
        /\ active_header_stream = last_stream_id
        /\ active_header_stream \in DOMAIN streams
        /\ ~streams[active_header_stream].headers_done

\* HEADERS first, then DATA, of which upto tells how much of the body it has
\* carried so far; all of it but the rest, and END_STREAM on the last frame of
\* all and only there.
WellFormed(fs, length, rest) ==
    /\ fs # <<>> /\ fs[1].type = "HEADERS"
    /\ \A i \in 2 .. Len(fs) : fs[i].type = "DATA" /\ fs[i].n > 0
    /\ \A i \in 1 .. Len(fs) : fs[i].end <=> (i = Len(fs) /\ rest = 0)
    /\ \E upto \in [1 .. Len(fs) -> 0 .. length - rest] :
          /\ upto[1] = 0 /\ upto[Len(fs)] = length - rest
          /\ \A i \in 2 .. Len(fs) : upto[i] = upto[i - 1] + fs[i].n

\* What is left of such an answer when parts of it were dropped: the frames in
\* their order, HEADERS only in front, nothing behind END_STREAM, which comes
\* only after all of the body was produced, and no byte twice.
Fits(fs, length, rest) ==
    /\ \A i \in 1 .. Len(fs) : /\ fs[i].type = "HEADERS" => i = 1
                               /\ fs[i].end => i = Len(fs) /\ rest = 0
    /\ \E upto \in [0 .. Len(fs) -> 0 .. length - rest] :
          \A i \in 1 .. Len(fs) : fs[i].type = "DATA" => upto[i - 1] + fs[i].n <= upto[i]

\* What was produced of the answer to a stream, and what of its body is still to come.
Answer(s) == wire[s] \o out[s]
Pending(s) == IF s \in DOMAIN send THEN send[s].pending ELSE 0

\* The answer to every request is well formed, of the body less what is pending
\* (respond, flush_stream).  When a failed feed or a full socket dropped a part
\* of it, what is left of it still fits, whatever is answered or flushed after
\* that.
AnswersWellFormed ==
    \A s \in DOMAIN body : IF s \in lost THEN Fits(Answer(s), body[s], Pending(s))
                                          ELSE WellFormed(Answer(s), body[s], Pending(s))

\* A request is given to the server at most once: one that waits to be answered
\* was not answered before, its stream is closed, and it waits only once
\* (try_emit removes the stream, HEADERS never reopens an old one).
RequestsOnce ==
    /\ \A i \in DOMAIN requests :
          requests[i] \notin DOMAIN body /\ requests[i] \notin DOMAIN streams
    /\ \A i, j \in DOMAIN requests : requests[i] = requests[j] => i = j

\* DATA is sent within both windows: a step that spends connection credit
\* spends the same credit of exactly one stream, and leaves neither window
\* negative, even when SETTINGS has made others so.
DataWithinWindows ==
    [][conn_send_window' < conn_send_window =>
          \E s \in DOMAIN send :
             LET n == conn_send_window - conn_send_window'
             IN /\ n <= send[s].window /\ n <= conn_send_window /\ n <= peer_max_frame_size
                /\ out'[s] = Append(out[s], DataFrame(n, n = send[s].pending))
                /\ \A x \in DOMAIN send \ {s} : x \in DOMAIN send' /\ send'[x] = send[x]
                /\ IF n = send[s].pending THEN s \notin DOMAIN send'
                   ELSE send'[s] = [pending |-> send[s].pending - n,
                                    window |-> send[s].window - n]]_vars
=============================================================================
