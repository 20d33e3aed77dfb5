--------------------------- MODULE Http2ConnProofs ---------------------------
(***************************************************************************)
(* Proofs about the HTTP/2 connection, for every set of streams, windows   *)
(* and limits: types and flow control, and then the life of a stream (a    *)
(* request is handed over once, an open header block is of the newest      *)
(* stream, no response body is left behind that could be sent, and every   *)
(* answer is well formed, or what is left of it fits when a part was lost).*)
(***************************************************************************)
EXTENDS Http2Conn, TLAPS

-----------------------------------------------------------------------------
(* The frames of an answer.                                                *)

\* The answer without a body is its HEADERS; with one, it starts with them.
LEMMA HeadersAlone ==
    ASSUME NEW n \in Nat
    PROVE  WellFormed(<<Headers(n = 0)>>, n, n)
<1> DEFINE fs == <<Headers(n = 0)>>
           upto == [i \in 1 .. 1 |-> 0]
<1>1. Len(fs) = 1 /\ fs # <<>> /\ fs[1].type = "HEADERS" /\ (fs[1].end <=> n = 0)
  BY Zenon DEF Headers
<1>2. /\ upto \in [1 .. Len(fs) -> 0 .. n - n] /\ upto[1] = 0 /\ upto[Len(fs)] = n - n
      /\ \A i \in 2 .. Len(fs) : upto[i] = upto[i - 1] + fs[i].n
  <2>1. upto \in [1 .. 1 -> 0 .. n - n] /\ upto[1] = 0 OBVIOUS
  <2> HIDE DEF fs, upto
  <2> QED BY <1>1, <2>1
<1> HIDE DEF fs, upto
<1>3. /\ \A i \in 2 .. Len(fs) : fs[i].type = "DATA" /\ fs[i].n > 0
      /\ \A i \in 1 .. Len(fs) : fs[i].end <=> (i = Len(fs) /\ n = 0)
  BY <1>1
<1>4. WellFormed(fs, n, n) BY <1>1, <1>2, <1>3, Zenon DEF WellFormed
<1> QED BY <1>4, Zenon DEF fs

\* A DATA frame for a part of the rest leaves the answer well formed.
LEMMA DataAppended ==
    ASSUME NEW fs \in Seq(OutFrame), NEW length \in Nat, NEW rest \in Nat, NEW a \in 1 .. rest,
           WellFormed(fs, length, rest)
    PROVE  WellFormed(Append(fs, DataFrame(a, a = rest)), length, rest - a)
<1> DEFINE n == Len(fs)
           f == DataFrame(a, a = rest)
<1>1. PICK fs2 : fs2 = Append(fs, f) BY Zenon
<1>2. f \in OutFrame /\ f.type = "DATA" /\ f.n = a /\ (f.end <=> a = rest)
  <2>1. (a = rest) \in BOOLEAN /\ a \in Nat OBVIOUS
  <2>2. DataFrame(a, a = rest) \in OutFrame BY <2>1, Zenon DEF DataFrame, OutFrame
  <2>3. f.type = "DATA" /\ f.n = a BY Zenon DEF DataFrame
  <2>4. f.end <=> a = rest BY Zenon DEF DataFrame
  <2> QED BY <2>2, <2>3, <2>4, Zenon
<1>3. n \in Nat \ {0} /\ fs[1].type = "HEADERS" BY DEF WellFormed
<1>4. /\ Len(fs2) = n + 1 /\ fs2 # <<>> /\ fs2[n + 1] = f
      /\ \A i \in 1 .. n : fs2[i] = fs[i]
  <2> HIDE DEF f
  <2> QED BY <1>1, <1>2
<1>5. PICK upto \in [1 .. n -> 0 .. length - rest] :
          /\ upto[1] = 0 /\ upto[n] = length - rest
          /\ \A i \in 2 .. n : upto[i] = upto[i - 1] + fs[i].n
  BY Zenon DEF WellFormed
<1>6. /\ upto[n] \in Nat /\ upto[n] + a = length - (rest - a)
      /\ upto[n] + a \in 0 .. length - (rest - a)
      /\ 0 .. length - rest \subseteq 0 .. length - (rest - a)
  <2>1. n \in 1 .. n BY <1>3
  <2>2. PICK u \in 0 .. length - rest : u = upto[n] BY <1>5, <2>1, Zenon
  <2>3. u = length - rest BY <1>5, <2>2, Zenon
  <2>4. u \in Nat /\ u + a = length - (rest - a) /\ u + a \in 0 .. length - (rest - a) BY <2>3
  <2>5. 0 .. length - rest \subseteq 0 .. length - (rest - a) OBVIOUS
  <2> QED BY <2>2, <2>4, <2>5, Zenon
<1>7. PICK upto2 \in [1 .. (n + 1) -> 0 .. length - (rest - a)] :
          upto2[n + 1] = upto[n] + a /\ \A i \in 1 .. n : upto2[i] = upto[i]
  <2> DEFINE u == [i \in 1 .. (n + 1) |-> IF i = n + 1 THEN upto[n] + a ELSE upto[i]]
  <2>1. \A i \in 1 .. (n + 1) : i = n + 1 \/ i \in 1 .. n BY <1>3
  <2>2. u \in [1 .. (n + 1) -> 0 .. length - (rest - a)] BY <1>5, <1>6, <2>1, Zenon
  <2>3. u[n + 1] = upto[n] + a /\ \A i \in 1 .. n : u[i] = upto[i] BY <1>3
  <2> QED BY <2>2, <2>3, Zenon
<1>8. \A i \in 2 .. (n + 1) : (i \in 2 .. n /\ i \in 1 .. n /\ i - 1 \in 1 .. n) \/ i = n + 1
  BY <1>3
<1> HIDE DEF f
<1>9. \A i \in 2 .. Len(fs2) : fs2[i].type = "DATA" /\ fs2[i].n > 0
  <2>0. a > 0 OBVIOUS
  <2> TAKE i \in 2 .. Len(fs2)
  <2>1. CASE i \in 2 .. n /\ i \in 1 .. n BY <1>4, <2>1, Zenon DEF WellFormed
  <2>2. CASE i = n + 1 BY <1>2, <1>4, <2>0, <2>2, Zenon
  <2> QED BY <1>4, <1>8, <2>1, <2>2, Zenon
<1>10. \A i \in 1 .. Len(fs2) : fs2[i].end <=> (i = Len(fs2) /\ rest - a = 0)
  <2>1. \A i \in 1 .. n : ~fs[i].end BY DEF WellFormed
  <2>2. \A i \in 1 .. (n + 1) : (i \in 1 .. n /\ i # n + 1) \/ i = n + 1 BY <1>3
  <2>3. rest - a = 0 <=> a = rest OBVIOUS
  <2> QED BY <1>2, <1>4, <2>1, <2>2, <2>3
<1>11. \A i \in 2 .. Len(fs2) : upto2[i] = upto2[i - 1] + fs2[i].n
  <2> TAKE i \in 2 .. Len(fs2)
  <2>1. CASE i \in 2 .. n /\ i \in 1 .. n /\ i - 1 \in 1 .. n BY <1>4, <1>5, <1>7, <2>1, Zenon
  <2>2. CASE i = n + 1
    <3>1. i - 1 = n /\ n \in 1 .. n BY <1>3, <2>2
    <3> QED BY <1>2, <1>4, <1>7, <2>2, <3>1
  <2> QED BY <1>4, <1>8, <2>1, <2>2
<1>12. upto2[1] = 0 /\ upto2[Len(fs2)] = length - (rest - a)
  BY <1>3, <1>4, <1>5, <1>6, <1>7
<1>13. fs2[1].type = "HEADERS" /\ 1 \in 1 .. n BY <1>3, <1>4
<1>14. WellFormed(fs2, length, rest - a)
  BY <1>4, <1>7, <1>9, <1>10, <1>11, <1>12, <1>13, ZenonT(30) DEF WellFormed
<1> QED BY <1>1, <1>14, Zenon DEF f

\* A well formed answer fits.
LEMMA WellFits ==
    ASSUME NEW fs \in Seq(OutFrame), NEW length \in Nat, NEW rest \in Nat,
           WellFormed(fs, length, rest)
    PROVE  Fits(fs, length, rest)
<1> DEFINE n == Len(fs)
<1>1. PICK upto \in [1 .. n -> 0 .. length - rest] :
          /\ upto[1] = 0
          /\ \A i \in 2 .. n : upto[i] = upto[i - 1] + fs[i].n
  BY Zenon DEF WellFormed
<1>2. /\ n \in Nat \ {0} /\ fs[1].type = "HEADERS"
      /\ \A i \in 2 .. n : fs[i].type = "DATA"
      /\ \A i \in 1 .. n : fs[i].end => (i = n /\ rest = 0)
  BY DEF WellFormed
<1>3. \A i \in 1 .. n : i = 1 \/ (i \in 2 .. n /\ i - 1 \in 1 .. n /\ i - 1 # 0)
  BY <1>2
<1>4. PICK u \in [0 .. n -> 0 .. length - rest] : \A i \in 1 .. n : u[i] = upto[i]
  <2> DEFINE u == [i \in 0 .. n |-> IF i = 0 THEN upto[1] ELSE upto[i]]
  <2>1. \A i \in 0 .. n : i = 0 \/ i \in 1 .. n BY <1>2
  <2>2. 1 \in 1 .. n BY <1>2
  <2>3. u \in [0 .. n -> 0 .. length - rest] BY <1>1, <2>1, <2>2, Zenon
  <2>4. \A i \in 1 .. n : u[i] = upto[i] BY <1>2
  <2> QED BY <2>3, <2>4, Zenon
<1>5. \A i \in 1 .. n : fs[i].type = "DATA" => u[i - 1] + fs[i].n <= u[i]
  <2> TAKE i \in 1 .. n
  <2>1. CASE i = 1 BY <1>2, <2>1
  <2>2. CASE i \in 2 .. n /\ i - 1 \in 1 .. n
    <3>1. u[i] = u[i - 1] + fs[i].n BY <1>1, <1>4, <2>2, Zenon
    <3>2. u[i] \in 0 .. length - rest BY <1>3, <1>4, <2>2
    <3> QED BY <3>1, <3>2
  <2> QED BY <1>3, <2>1, <2>2, Zenon
<1>6. \A i \in 1 .. n : fs[i].type = "HEADERS" => i = 1
  BY <1>2, <1>3
<1> QED BY <1>2, <1>4, <1>5, <1>6, Zenon DEF Fits

\* A DATA frame for a part of the rest leaves an answer fitting.
LEMMA DataFits ==
    ASSUME NEW fs \in Seq(OutFrame), NEW length \in Nat, NEW rest \in Nat, NEW a \in 1 .. rest,
           Fits(fs, length, rest)
    PROVE  Fits(Append(fs, DataFrame(a, a = rest)), length, rest - a)
<1> DEFINE n == Len(fs)
           f == DataFrame(a, a = rest)
<1>1. PICK fs2 : fs2 = Append(fs, f) BY Zenon
<1>2. f \in OutFrame /\ f.type = "DATA" /\ f.n = a /\ (f.end <=> a = rest)
  <2>1. (a = rest) \in BOOLEAN /\ a \in Nat OBVIOUS
  <2>2. DataFrame(a, a = rest) \in OutFrame BY <2>1, Zenon DEF DataFrame, OutFrame
  <2>3. f.type = "DATA" /\ f.n = a BY Zenon DEF DataFrame
  <2>4. f.end <=> a = rest BY Zenon DEF DataFrame
  <2> QED BY <2>2, <2>3, <2>4, Zenon
<1> HIDE DEF f
<1>3. /\ n \in Nat /\ Len(fs2) = n + 1 /\ fs2[n + 1] = f
      /\ \A i \in 1 .. n : fs2[i] = fs[i]
  BY <1>1, <1>2
<1>4. PICK upto \in [0 .. n -> 0 .. length - rest] :
          \A i \in 1 .. n : fs[i].type = "DATA" => upto[i - 1] + fs[i].n <= upto[i]
  BY Zenon DEF Fits
<1>5. /\ upto[n] + a \in 0 .. length - (rest - a) /\ upto[n] \in Nat
      /\ 0 .. length - rest \subseteq 0 .. length - (rest - a)
  <2>1. n \in 0 .. n BY <1>3
  <2>2. PICK u \in 0 .. length - rest : u = upto[n] BY <1>4, <2>1, Zenon
  <2>3. u \in Nat /\ u + a \in 0 .. length - (rest - a) OBVIOUS
  <2>4. 0 .. length - rest \subseteq 0 .. length - (rest - a) OBVIOUS
  <2> QED BY <2>2, <2>3, <2>4, Zenon
<1>6. PICK upto2 \in [0 .. (n + 1) -> 0 .. length - (rest - a)] :
          upto2[n + 1] = upto[n] + a /\ \A i \in 0 .. n : upto2[i] = upto[i]
  <2> DEFINE u == [i \in 0 .. (n + 1) |-> IF i = n + 1 THEN upto[n] + a ELSE upto[i]]
  <2>1. \A i \in 0 .. (n + 1) : i = n + 1 \/ i \in 0 .. n BY <1>3
  <2>2. u \in [0 .. (n + 1) -> 0 .. length - (rest - a)] BY <1>4, <1>5, <2>1, Zenon
  <2>3. u[n + 1] = upto[n] + a /\ \A i \in 0 .. n : u[i] = upto[i] BY <1>3
  <2> QED BY <2>2, <2>3, Zenon
<1>7. \A i \in 1 .. (n + 1) : (i \in 1 .. n /\ i \in 0 .. n /\ i - 1 \in 0 .. n) \/ i = n + 1
  BY <1>3
<1>8. \A i \in 1 .. Len(fs2) : fs2[i].type = "DATA" => upto2[i - 1] + fs2[i].n <= upto2[i]
  <2> TAKE i \in 1 .. Len(fs2)
  <2>1. CASE i \in 1 .. n /\ i \in 0 .. n /\ i - 1 \in 0 .. n BY <1>3, <1>4, <1>6, <2>1, Zenon
  <2>2. CASE i = n + 1
    <3>1. i - 1 = n /\ n \in 0 .. n BY <1>3, <2>2
    <3>2. upto2[i - 1] = upto[n] /\ upto2[i] = upto[n] + a /\ fs2[i].n = a
      BY <1>2, <1>3, <1>6, <2>2, <3>1, Zenon
    <3> QED BY <1>5, <3>2
  <2> QED BY <1>3, <1>7, <2>1, <2>2, Zenon
<1>9. \A i \in 1 .. Len(fs2) : /\ fs2[i].type = "HEADERS" => i = 1
                               /\ fs2[i].end => i = Len(fs2) /\ rest - a = 0
  <2>1. rest # 0 /\ (rest - a = 0 <=> a = rest) OBVIOUS
  <2> TAKE i \in 1 .. Len(fs2)
  <2>2. CASE i \in 1 .. n BY <1>3, <2>1, <2>2, Zenon DEF Fits
  <2>3. CASE i = n + 1 BY <1>2, <1>3, <2>1, <2>3, Zenon
  <2> QED BY <1>3, <1>7, <2>2, <2>3, Zenon
<1>10. Fits(fs2, length, rest - a)
  BY <1>3, <1>6, <1>8, <1>9, Zenon DEF Fits
<1> QED BY <1>1, <1>10, Zenon DEF f

Initial(gs, fs) == Len(gs) <= Len(fs) /\ \A i \in 1 .. Len(gs) : gs[i] = fs[i]

\* What is left of a fitting answer when its last frames are dropped fits.
LEMMA InitialFits ==
    ASSUME NEW fs \in Seq(OutFrame), NEW gs \in Seq(OutFrame), NEW length \in Nat,
           NEW rest \in Nat, Fits(fs, length, rest), Initial(gs, fs)
    PROVE  Fits(gs, length, rest)
<1> DEFINE m == Len(gs)
<1>1. /\ m \in Nat /\ Len(fs) \in Nat /\ m <= Len(fs)
      /\ \A i \in 1 .. m : gs[i] = fs[i]
  BY DEF Initial
<1>2. /\ \A i \in 0 .. m : i \in 0 .. Len(fs)
      /\ \A i \in 1 .. m : i \in 1 .. Len(fs) /\ i - 1 \in 0 .. m /\ i \in 0 .. m
      /\ \A i \in 1 .. m : i = Len(fs) => i = m
  BY <1>1
<1>3. PICK upto \in [0 .. Len(fs) -> 0 .. length - rest] :
          \A i \in 1 .. Len(fs) : fs[i].type = "DATA" => upto[i - 1] + fs[i].n <= upto[i]
  BY Zenon DEF Fits
<1>4. PICK u \in [0 .. m -> 0 .. length - rest] : \A i \in 0 .. m : u[i] = upto[i]
  <2> DEFINE u == [i \in 0 .. m |-> upto[i]]
  <2>1. u \in [0 .. m -> 0 .. length - rest] BY <1>2, <1>3, Zenon
  <2> QED BY <2>1, Zenon
<1>5. \A i \in 1 .. m : gs[i].type = "DATA" => u[i - 1] + gs[i].n <= u[i]
  BY <1>1, <1>2, <1>3, <1>4, Zenon
<1>6. \A i \in 1 .. m : /\ gs[i].type = "HEADERS" => i = 1
                        /\ gs[i].end => i = m /\ rest = 0
  <2>1. \A i \in 1 .. Len(fs) : /\ fs[i].type = "HEADERS" => i = 1
                                /\ fs[i].end => i = Len(fs) /\ rest = 0
    BY DEF Fits
  <2> TAKE i \in 1 .. m
  <2>2. gs[i] = fs[i] /\ i \in 1 .. Len(fs) /\ (i = Len(fs) => i = m)
    BY <1>1, <1>2, Zenon
  <2> QED BY <2>1, <2>2, Zenon
<1> QED BY <1>4, <1>5, <1>6, Zenon DEF Fits

\* Cutting what is not written yet cuts the answer.
LEMMA JoinInitial ==
    ASSUME NEW S, NEW q \in Seq(S), NEW r \in Seq(S), NEW r2 \in Seq(S), Initial(r2, r)
    PROVE  Initial(q \o r2, q \o r)
BY DEF Initial

\* Adding a frame behind those not written adds it to the answer.
LEMMA JoinAppend ==
    ASSUME NEW S, NEW q \in Seq(S), NEW r \in Seq(S), NEW e \in S
    PROVE  q \o Append(r, e) = Append(q \o r, e)
  OBVIOUS

-----------------------------------------------------------------------------
(* The pieces the actions are made of.                                     *)

\* Groups of variables that a step leaves alone keep their type.
LEMMA RecvKept == RecvOK /\ UNCHANGED recvVars => RecvOK'
BY Zenon DEF RecvOK, recvVars

\* The same of the sending side.
LEMMA SendKept == SendOK /\ UNCHANGED sendVars => SendOK'
BY Zenon DEF SendOK, sendVars

\* The same of the output.
LEMMA OutKept == OutOK /\ UNCHANGED outVars => OutOK'
BY Zenon DEF OutOK, outVars

\* Appending a frame to a stream's output keeps the outputs well typed.
LEMMA PushType ==
    ASSUME out \in [StreamIds -> Seq(OutFrame)], NEW s \in StreamIds,
           NEW f \in OutFrame, Push(s, f)
    PROVE  out' \in [StreamIds -> Seq(OutFrame)]
BY DEF Push

\* GOAWAY keeps the output well typed.
LEMMA GoawayType == ASSUME RecvOK, OutOK, goaway_code PROVE OutOK'
<1>0. UNCHANGED <<requests, lost>> /\ goaway_sent' = TRUE
  BY Zenon DEF goaway_code
<1>1. Goaway(last_stream_id) \in OutFrame
  BY Zenon DEF RecvOK, OutFrame, Goaway
<1>2. out' \in [StreamIds -> Seq(OutFrame)]
  <2>1. CASE goaway_sent
    BY <2>1, Zenon DEF goaway_code, OutOK
  <2>2. CASE ~goaway_sent
    <3>1. Push(0, Goaway(last_stream_id)) /\ 0 \in StreamIds
      BY <2>2, Http2Assumption, Zenon DEF goaway_code
    <3> QED BY <1>1, <3>1, PushType, Zenon DEF OutOK
  <2> QED BY <2>1, <2>2, Zenon
<1> QED BY <1>0, <1>2, Zenon DEF OutOK

\* No frames at all is a well typed output.
LEMMA NoFramesType == NoFrames \in [StreamIds -> Seq(OutFrame)]
BY DEF NoFrames

\* Whatever part of the output the socket takes.
LEMMA WriteType ==
    ASSUME OutOK, stream_write_all, UNCHANGED <<requests, goaway_sent>>
    PROVE  OutOK'
<1>1. lost' \subseteq StreamIds /\ out' = NoFrames
  BY Zenon DEF OutOK, stream_write_all
<1> QED BY <1>1, NoFramesType, Zenon DEF OutOK

\* A failed feed keeps the histories well typed.
LEMMA FeedErrType == ASSUME OutOK, FeedErr PROVE OutOK'
<1>1. Range(requests) \subseteq StreamIds
  <2>1. \A i \in DOMAIN requests : requests[i] \in StreamIds
    BY DEF OutOK
  <2> QED BY <2>1, Zenon DEF Range
<1>2. <<>> \in Seq(StreamIds \ {0})
  OBVIOUS
<1> QED BY <1>1, <1>2, NoFramesType, Zenon DEF FeedErr, OutOK

\* A stream put into a table of streams.
LEMMA WithType ==
    ASSUME NEW T, NEW f, f \in [DOMAIN f -> T], NEW s, NEW v \in T
    PROVE  /\ DOMAIN With(f, s, v) = DOMAIN f \cup {s}
           /\ With(f, s, v) \in [DOMAIN f \cup {s} -> T]
BY Zenon DEF With

\* A stream taken out of a table of streams.
LEMMA WithoutType ==
    ASSUME NEW T, NEW f, f \in [DOMAIN f -> T], NEW s
    PROVE  /\ DOMAIN Without(f, s) = DOMAIN f \ {s}
           /\ Without(f, s) \in [DOMAIN f \ {s} -> T]
BY Zenon DEF Without

\* try_emit keeps the streams and the requests well typed.
LEMMA EmitType ==
    ASSUME RecvOK, OutOK, NEW s \in StreamIds \ {0}, NEW st \in Stream, try_emit(s, st)
    PROVE  /\ DOMAIN streams' \subseteq StreamIds \ {0} /\ streams' \in [DOMAIN streams' -> Stream]
           /\ OutOK'
<1>0. UNCHANGED <<out, goaway_sent, lost>>
  BY Zenon DEF try_emit
<1>1. CASE st.headers_done /\ st.end_stream
  <2>1. streams' = Without(streams, s) /\ requests' = Append(requests, s)
    BY <1>1, Zenon DEF try_emit
  <2>2. /\ DOMAIN streams' = DOMAIN streams \ {s}
        /\ streams' \in [DOMAIN streams \ {s} -> Stream]
    BY <2>1, WithoutType, Zenon DEF RecvOK
  <2>3. requests' \in Seq(StreamIds \ {0})
    BY <2>1 DEF OutOK
  <2> QED BY <1>0, <2>2, <2>3, Zenon DEF RecvOK, OutOK
<1>2. CASE ~(st.headers_done /\ st.end_stream)
  <2>1. streams' = With(streams, s, st) /\ requests' = requests
    BY <1>2, Zenon DEF try_emit
  <2>2. /\ DOMAIN streams' = DOMAIN streams \cup {s}
        /\ streams' \in [DOMAIN streams \cup {s} -> Stream]
    BY <2>1, Zenon DEF RecvOK, With
  <2> QED BY <1>0, <2>1, <2>2, Zenon DEF RecvOK, OutOK
<1> QED BY <1>1, <1>2, Zenon

-----------------------------------------------------------------------------
(* Type correctness, action by action.                                     *)

\* The initial state is well typed.
LEMMA InitType == ASSUME Init PROVE TypeOK
<1>0. DOMAIN <<>> = {} /\ <<>> \in [{} -> Stream] /\ <<>> \in [{} -> SendState]
  <2>1. \A S : <<>> \in Seq(S)
    OBVIOUS
  <2> QED BY <2>1
<1>1. RecvOK
  BY <1>0, Http2Assumption, Zenon DEF Init, RecvOK
<1>2. SendOK
  BY <1>0, Http2Assumption DEF Init, SendOK
<1>3. OutOK
  <2>1. <<>> \in Seq(StreamIds \ {0})
    OBVIOUS
  <2> QED BY <2>1, NoFramesType, Zenon DEF Init, OutOK
<1>4. PlaceOK
  <2>1. NotFlushing \in [todo : SUBSET {}, cur : {0}, back : {"frames", "respond"}]
    BY Zenon DEF NotFlushing
  <2>2. send = <<>> /\ body = <<>> /\ flush = NotFlushing
    BY Zenon DEF Init
  <2>3. flush \in [todo : SUBSET DOMAIN send, cur : DOMAIN send \cup {0},
                   back : {"frames", "respond"}]
    BY <1>0, <2>1, <2>2, Zenon
  <2> QED BY <1>0, <2>2, <2>3, Zenon DEF Init, PlaceOK
<1> QED BY <1>1, <1>2, <1>3, <1>4, Zenon DEF TypeOK

\* Steps of feed outside the frame handlers.
LEMMA FeedStepType ==
    ASSUME TypeOK, Feed \/ Eof \/ FeedOk \/ Oversized \/ FlushEnd
    PROVE  TypeOK'
<1>0. RecvOK /\ SendOK /\ OutOK /\ PlaceOK
  BY Zenon DEF TypeOK
<1>1. UNCHANGED <<recvVars, sendVars>>
  BY Zenon DEF Feed, Eof, FeedOk, Oversized, FlushEnd
<1>2. RecvOK' /\ SendOK'
  BY <1>0, <1>1, RecvKept, SendKept, Zenon
<1>3. OutOK'
  <2>1. CASE Feed
    <3>1. Settings \in OutFrame /\ 0 \in StreamIds
      BY Http2Assumption, Zenon DEF Settings, OutFrame
    <3>2. out' \in [StreamIds -> Seq(OutFrame)]
      BY <1>0, <2>1, <3>1, PushType, Zenon DEF Feed, OutOK
    <3> QED BY <1>0, <2>1, <3>2, Zenon DEF Feed, OutOK
  <2>2. CASE Eof
    BY <1>0, <2>2, OutKept, Zenon DEF Eof
  <2>3. CASE FeedOk
    BY <1>0, <2>3, WriteType, Zenon DEF FeedOk
  <2>4. CASE Oversized
    BY <1>0, <2>4, GoawayType, Zenon DEF Oversized
  <2>5. CASE FlushEnd
    <3>1. UNCHANGED <<requests, goaway_sent>> /\ (UNCHANGED <<out, lost>> \/ stream_write_all)
      BY <2>5, Zenon DEF FlushEnd
    <3> QED BY <1>0, <3>1, WriteType, Zenon DEF OutOK
  <2> QED BY <2>1, <2>2, <2>3, <2>4, <2>5, Zenon
<1>4. PlaceOK'
  <2>1. send' = send
    BY <1>1, Zenon DEF sendVars
  <2>2. flush' = flush \/ flush' = NotFlushing
    BY Zenon DEF Feed, Eof, FeedOk, Oversized, FlushEnd
  <2>3. flush' \in [todo : SUBSET DOMAIN send', cur : DOMAIN send' \cup {0},
                    back : {"frames", "respond"}]
    <3>1. CASE flush' = flush
      BY <1>0, <2>1, <3>1, Zenon DEF PlaceOK
    <3>2. CASE flush' = NotFlushing
      BY <3>2, Zenon DEF NotFlushing
    <3> QED BY <2>2, <3>1, <3>2, Zenon
  <2>4. body' = body
    BY Zenon DEF Feed, Eof, FeedOk, Oversized, FlushEnd, histVars
  <2>5. /\ pc' \in {"idle", "frames", "return", "settings", "flush", "respond", "closed"}
        /\ preface_seen' \in BOOLEAN /\ frames' \in Nat
    <3>1. CASE Feed \/ Eof \/ FeedOk
      BY <1>0, <3>1, Zenon DEF Feed, Eof, FeedOk, PlaceOK
    <3>2. CASE Oversized
      BY <1>0, <3>2 DEF Oversized, Frame, PlaceOK
    <3>3. CASE FlushEnd
      BY <1>0, <3>3, Zenon DEF FlushEnd, PlaceOK
    <3> QED BY <3>1, <3>2, <3>3, Zenon
  <2> QED BY <1>0, <2>3, <2>4, <2>5, Zenon DEF PlaceOK
<1> QED BY <1>2, <1>3, <1>4, Zenon DEF TypeOK

\* SETTINGS and PING.
LEMMA SettingsType ==
    ASSUME TypeOK, SettingsFrame \/ SettingsItem \/ SettingsEnd \/ Ping
    PROVE  TypeOK'
<1>0. RecvOK /\ SendOK /\ OutOK /\ PlaceOK
  BY Zenon DEF TypeOK
<1>1. UNCHANGED <<recvVars, preface_seen, body>>
  BY Zenon DEF SettingsFrame, SettingsItem, SettingsEnd, Ping, histVars
<1>2. RecvOK'
  BY <1>0, <1>1, RecvKept, Zenon
<1>3. OutOK'
  <2>1. goaway_code \/ UNCHANGED outVars
    BY Zenon DEF SettingsFrame, SettingsItem, SettingsEnd, Ping, MaxFrameSizeSetting,
           InitialWindowSetting
  <2> QED BY <1>0, <2>1, GoawayType, OutKept, Zenon
<1>4. SendOK' /\ DOMAIN send' = DOMAIN send
  <2>1. CASE UNCHANGED sendVars
    BY <1>0, <2>1, SendKept, Zenon DEF sendVars
  <2>2. ASSUME NEW v \in FrameSizes, MaxFrameSizeSetting(v)
        PROVE  SendOK' /\ DOMAIN send' = DOMAIN send
    BY <1>0, <2>2, Zenon DEF MaxFrameSizeSetting, SendOK
  <2>3. ASSUME NEW v \in Windows, InitialWindowSetting(v), ~(v > MaxWindow)
        PROVE  SendOK' /\ DOMAIN send' = DOMAIN send
    <3>1. v \in 0 .. MaxWindow
      BY <2>3, Http2Assumption
    <3>2. /\ peer_initial_window' = v
          /\ send' = [s \in DOMAIN send |->
                        [send[s] EXCEPT !.window = @ + (v - peer_initial_window)]]
          /\ UNCHANGED <<conn_send_window, peer_max_frame_size>>
      BY <2>3, Zenon DEF InitialWindowSetting
    <3>3. \A s \in DOMAIN send : send'[s] \in SendState
      <4> TAKE s \in DOMAIN send
      <4>1. /\ send'[s] = [send[s] EXCEPT !.window = @ + (v - peer_initial_window)]
            /\ send[s] \in SendState /\ v \in Int /\ peer_initial_window \in Int
        BY <1>0, <3>1, <3>2, Http2Assumption DEF SendOK
      <4> QED BY <4>1 DEF SendState
    <3> QED BY <1>0, <3>1, <3>2, <3>3, Zenon DEF SendOK
  <2>4. CASE SettingsItem
    BY <2>1, <2>2, <2>3, <2>4, Zenon DEF SettingsItem, InitialWindowSetting
  <2> QED BY <2>1, <2>4, Zenon DEF SettingsFrame, SettingsEnd, Ping
<1>5. PlaceOK'
  <2>1. flush' \in [todo : SUBSET DOMAIN send', cur : DOMAIN send' \cup {0},
                    back : {"frames", "respond"}]
    <3>1. CASE flush' = flush
      BY <1>0, <1>4, <3>1, Zenon DEF PlaceOK
    <3>2. CASE SettingsEnd
      BY <1>4, <3>2, Zenon DEF SettingsEnd, flush_all
    <3> QED BY <3>1, <3>2, Zenon DEF SettingsFrame, SettingsItem, Ping
  <2>2. /\ pc' \in {"idle", "frames", "return", "settings", "flush", "respond", "closed"}
        /\ frames' \in Nat
    <3>1. CASE SettingsFrame \/ SettingsEnd \/ Ping
      BY <1>0, <3>1 DEF SettingsFrame, SettingsEnd, Ping, Frame, flush_all, PlaceOK
    <3>2. CASE SettingsItem
      BY <1>0, <3>2 DEF SettingsItem, MaxFrameSizeSetting, InitialWindowSetting, PlaceOK
    <3> QED BY <3>1, <3>2, Zenon
  <2> QED BY <1>0, <1>1, <2>1, <2>2, Zenon DEF PlaceOK
<1> QED BY <1>2, <1>3, <1>4, <1>5, Zenon DEF TypeOK

\* WINDOW_UPDATE.
LEMMA WindowUpdateType ==
    ASSUME TypeOK, NEW s \in StreamIds, NEW inc \in Increments, WindowUpdate(s, inc)
    PROVE  TypeOK'
<1>0. RecvOK /\ SendOK /\ OutOK /\ PlaceOK /\ inc \in Nat
  BY Http2Assumption, Zenon DEF TypeOK
<1>1. UNCHANGED <<recvVars, preface_seen, body>> /\ frames' \in Nat
  BY <1>0 DEF WindowUpdate, Frame, histVars, PlaceOK
<1>2. CASE BadIncrement(s, inc)
  <2>1. goaway_code /\ UNCHANGED <<pc, sendVars, flush>>
    BY <1>2, Zenon DEF WindowUpdate
  <2>2. PlaceOK'
    BY <1>0, <1>1, <2>1, Zenon DEF PlaceOK, sendVars
  <2> QED BY <1>0, <1>1, <2>1, <2>2, RecvKept, SendKept, GoawayType, Zenon DEF TypeOK
<1>3. CASE ~BadIncrement(s, inc)
  <2>1. /\ conn_send_window' = conn_send_window + (IF s = 0 THEN inc ELSE 0)
        /\ send' = [x \in DOMAIN send |->
                      IF x = s THEN [send[x] EXCEPT !.window = @ + inc] ELSE send[x]]
        /\ flush_all /\ UNCHANGED <<peer_initial_window, peer_max_frame_size, outVars>>
    BY <1>3, Zenon DEF WindowUpdate
  <2>2. \A x \in DOMAIN send : send'[x] \in SendState
    BY <1>0, <2>1 DEF SendOK, SendState
  <2>3. SendOK' /\ DOMAIN send' = DOMAIN send
    BY <1>0, <2>1, <2>2 DEF SendOK
  <2>4. flush' \in [todo : SUBSET DOMAIN send', cur : DOMAIN send' \cup {0},
                    back : {"frames", "respond"}]
    BY <2>1, <2>3, Zenon DEF flush_all
  <2>5. PlaceOK'
    BY <1>0, <1>1, <2>1, <2>4, Zenon DEF PlaceOK, flush_all
  <2> QED BY <1>0, <1>1, <2>1, <2>3, <2>5, RecvKept, OutKept, Zenon DEF TypeOK
<1> QED BY <1>2, <1>3, Zenon

\* Steps of the receiving side leave the sending side and the flush alone.
LEMMA ReceiveType ==
    ASSUME TypeOK, RecvOK', OutOK', UNCHANGED <<preface_seen, sendVars, flush, histVars>>,
           Frame, pc' = pc \/ pc' = "idle"
    PROVE  TypeOK'
<1>0. SendOK /\ PlaceOK
  BY Zenon DEF TypeOK
<1>1. SendOK'
  BY <1>0, SendKept, Zenon
<1>2. PlaceOK'
  BY <1>0 DEF PlaceOK, Frame, sendVars, histVars
<1> QED BY <1>1, <1>2, Zenon DEF TypeOK

\* RST_STREAM.
LEMMA RstStreamType ==
    ASSUME TypeOK, NEW s \in StreamIds, RstStream(s)
    PROVE  TypeOK'
<1>0. RecvOK /\ OutOK
  BY Zenon DEF TypeOK
<1>1. OutOK'
  <2>1. goaway_code \/ UNCHANGED outVars
    BY Zenon DEF RstStream
  <2> QED BY <1>0, <2>1, GoawayType, OutKept, Zenon
<1>2. RecvOK'
  <2>1. CASE UNCHANGED recvVars
    BY <1>0, <2>1, RecvKept, Zenon
  <2>2. CASE ~UNCHANGED recvVars
    <3>1. /\ rst_stream_count' = rst_stream_count + 1
          /\ streams' \in {streams, Without(streams, s)}
          /\ active_header_stream' \in {active_header_stream, 0}
          /\ UNCHANGED <<last_stream_id, stream_lifetime_count, conn_recv_window>>
      BY <2>2, Zenon DEF RstStream, HeaderStreamAfter
    <3>2. DOMAIN streams' \subseteq StreamIds \ {0} /\ streams' \in [DOMAIN streams' -> Stream]
      BY <1>0, <3>1, Zenon DEF RecvOK, Without
    <3> QED BY <1>0, <3>1, <3>2, Http2Assumption DEF RecvOK
  <2> QED BY <2>1, <2>2, Zenon
<1> QED BY <1>1, <1>2, ReceiveType, Zenon DEF RstStream

\* New streams, and streams whose header block is complete, are streams.
LEMMA StreamType ==
    /\ \A end \in BOOLEAN : NewStream(end) \in Stream
    /\ \A st \in Stream : Decoded(st) \in Stream
<1>1. RecvWindow \in Nat
  BY Http2Assumption, Zenon
<1> QED BY <1>1, Zenon DEF NewStream, Decoded, Stream

\* HEADERS.
LEMMA HeadersType ==
    ASSUME TypeOK, NEW s \in StreamIds, NEW end \in BOOLEAN, NEW end_headers \in BOOLEAN,
           NEW padding \in BOOLEAN, NEW fits \in BOOLEAN, NEW decodes \in BOOLEAN,
           HeadersFrame(s, end, end_headers, padding, fits, decodes)
    PROVE  TypeOK'
<1>0. RecvOK /\ OutOK
  BY Zenon DEF TypeOK
<1>1. NewStream(end) \in Stream /\ Decoded(NewStream(end)) \in Stream
  BY StreamType, Zenon
<1>2. CASE Refused(s)
  <2>1. goaway_code /\ UNCHANGED <<recvVars, pc>>
    BY <1>2, Zenon DEF HeadersFrame
  <2> QED BY <1>0, <2>1, GoawayType, RecvKept, ReceiveType, Zenon DEF HeadersFrame
<1>3. CASE ~Refused(s)
  <2>0. /\ stream_lifetime_count' = stream_lifetime_count + 1
        /\ UNCHANGED <<rst_stream_count, conn_recv_window>>
    BY <1>3, Zenon DEF HeadersFrame
  <2>1. s # 0
    BY <1>3 DEF Refused
  <2>2. CASE UNCHANGED <<streams, last_stream_id, active_header_stream>>
    <3>1. RecvOK'
      BY <1>0, <2>0, <2>2 DEF RecvOK
    <3>2. (FeedErr \/ (goaway_code /\ UNCHANGED pc)) \/ OutOK'
      <4>1. CASE ~(FeedErr \/ (goaway_code /\ UNCHANGED pc))
        <5>1. try_emit(s, NewStream(end)) \/ try_emit(s, Decoded(NewStream(end)))
          BY <1>3, <4>1, Zenon DEF HeadersFrame
        <5> QED BY <1>0, <1>1, <2>1, <5>1, EmitType, Zenon
      <4> QED BY <4>1, Zenon
    <3>3. OutOK'
      BY <1>0, <3>2, FeedErrType, GoawayType, Zenon
    <3>4. pc' = pc \/ pc' = "idle"
      BY <1>3, Zenon DEF HeadersFrame, FeedErr, try_emit
    <3> QED BY <3>1, <3>3, <3>4, ReceiveType, Zenon DEF HeadersFrame
  <2>3. CASE ~UNCHANGED <<streams, last_stream_id, active_header_stream>>
    <3>1. /\ last_stream_id' = s /\ active_header_stream' \in {active_header_stream, s}
          /\ \/ try_emit(s, NewStream(end))
             \/ try_emit(s, Decoded(NewStream(end)))
             \/ streams' = With(streams, s, NewStream(end)) /\ FeedErr
      BY <1>3, <2>3, Zenon DEF HeadersFrame
    <3>2. /\ DOMAIN streams' \subseteq StreamIds \ {0}
          /\ streams' \in [DOMAIN streams' -> Stream]
          /\ OutOK'
      <4>1. CASE try_emit(s, NewStream(end)) \/ try_emit(s, Decoded(NewStream(end)))
        BY <1>0, <1>1, <2>1, <4>1, EmitType, Zenon
      <4>2. CASE streams' = With(streams, s, NewStream(end)) /\ FeedErr
        <5>1. DOMAIN streams' = DOMAIN streams \cup {s}
          BY <4>2, Zenon DEF With
        <5>2. streams' \in [DOMAIN streams' -> Stream]
          BY <1>0, <1>1, <4>2, Zenon DEF RecvOK, With
        <5> QED BY <1>0, <2>1, <4>2, <5>1, <5>2, FeedErrType, Zenon DEF RecvOK
      <4> QED BY <3>1, <4>1, <4>2, Zenon
    <3>3. RecvOK'
      BY <1>0, <2>0, <3>1, <3>2 DEF RecvOK
    <3>4. pc' = pc \/ pc' = "idle"
      BY <3>1, Zenon DEF FeedErr, try_emit
    <3> QED BY <3>2, <3>3, <3>4, ReceiveType, Zenon DEF HeadersFrame
  <2> QED BY <2>2, <2>3, Zenon
<1> QED BY <1>2, <1>3, Zenon

\* CONTINUATION.
LEMMA ContinuationType ==
    ASSUME TypeOK, NEW s \in StreamIds, NEW end_headers \in BOOLEAN,
           NEW fits \in BOOLEAN, NEW decodes \in BOOLEAN,
           Continuation(s, end_headers, fits, decodes)
    PROVE  TypeOK'
<1> DEFINE st == [streams[s] EXCEPT !.continuation_count = @ + 1]
<1>0. RecvOK /\ OutOK
  BY Zenon DEF TypeOK
<1>1. UNCHANGED <<last_stream_id, rst_stream_count, stream_lifetime_count, conn_recv_window>>
  BY Zenon DEF Continuation
<1>2. CASE UNCHANGED <<streams, active_header_stream>> /\ (FeedErr \/ (goaway_code /\ UNCHANGED pc))
  <2>1. RecvOK'
    BY <1>0, <1>1, <1>2, Zenon DEF RecvOK
  <2>2. OutOK'
    BY <1>0, <1>2, FeedErrType, GoawayType, Zenon
  <2>3. pc' = pc \/ pc' = "idle"
    BY <1>2, Zenon DEF FeedErr
  <2> QED BY <2>1, <2>2, <2>3, ReceiveType, Zenon DEF Continuation
<1>3. CASE ~(UNCHANGED <<streams, active_header_stream>> /\ (FeedErr \/ (goaway_code /\ UNCHANGED pc)))
  <2>1. s # 0 /\ s \in DOMAIN streams
    BY <1>3, Zenon DEF Continuation
  <2>2. st \in Stream /\ Decoded(st) \in Stream
    <3>1. streams[s] \in Stream
      BY <1>0, <2>1, Zenon DEF RecvOK
    <3>2. st \in Stream
      BY <3>1 DEF Stream
    <3> HIDE DEF st
    <3> QED BY <3>2, StreamType, Zenon
  <2>3. /\ active_header_stream' \in {active_header_stream, 0}
        /\ \/ /\ streams' = With(streams, s, st)
              /\ FeedErr \/ (goaway_code /\ UNCHANGED pc) \/ UNCHANGED <<pc, outVars>>
           \/ try_emit(s, Decoded(st))
    BY <1>3, <2>1, Zenon DEF Continuation
  <2> HIDE DEF st
  <2>4. /\ DOMAIN streams' \subseteq StreamIds \ {0} /\ streams' \in [DOMAIN streams' -> Stream]
        /\ OutOK'
    <3>1. CASE try_emit(s, Decoded(st))
      BY <1>0, <2>1, <2>2, <3>1, EmitType, Zenon
    <3>2. CASE /\ streams' = With(streams, s, st)
               /\ FeedErr \/ (goaway_code /\ UNCHANGED pc) \/ UNCHANGED <<pc, outVars>>
      <4>1. DOMAIN streams' = DOMAIN streams \cup {s}
        BY <3>2, Zenon DEF With
      <4>2. streams' \in [DOMAIN streams' -> Stream]
        BY <1>0, <2>2, <3>2, Zenon DEF RecvOK, With
      <4>3. OutOK'
        BY <1>0, <3>2, FeedErrType, GoawayType, OutKept, Zenon
      <4> QED BY <1>0, <2>1, <4>1, <4>2, <4>3, Zenon DEF RecvOK
    <3> QED BY <2>3, <3>1, <3>2, Zenon
  <2>5. RecvOK'
    BY <1>0, <1>1, <2>3, <2>4, Http2Assumption, Zenon DEF RecvOK
  <2>6. pc' = pc \/ pc' = "idle"
    BY <2>3, Zenon DEF FeedErr, try_emit
  <2> QED BY <2>4, <2>5, <2>6, ReceiveType, Zenon DEF Continuation
<1> QED BY <1>2, <1>3, Zenon

\* DATA.
LEMMA DataType ==
    ASSUME TypeOK, NEW s \in StreamIds, NEW n \in Lengths, NEW end \in BOOLEAN,
           NEW padding \in BOOLEAN, Data(s, n, end, padding)
    PROVE  TypeOK'
<1> DEFINE st == [streams[s] EXCEPT !.recv_window = @ - n, !.end_stream = @ \/ end]
<1>0. RecvOK /\ OutOK /\ n \in Nat
  BY Http2Assumption, Zenon DEF TypeOK
<1>1. /\ UNCHANGED <<last_stream_id, active_header_stream, rst_stream_count,
                      stream_lifetime_count>>
      /\ conn_recv_window' \in Nat
  BY <1>0 DEF Data, Overdrawn, RecvOK
<1>2. CASE UNCHANGED streams /\ (FeedErr \/ (goaway_code /\ UNCHANGED pc))
  <2>1. RecvOK'
    BY <1>0, <1>1, <1>2, Zenon DEF RecvOK
  <2>2. OutOK'
    BY <1>0, <1>2, FeedErrType, GoawayType, Zenon
  <2>3. pc' = pc \/ pc' = "idle"
    BY <1>2, Zenon DEF FeedErr
  <2> QED BY <2>1, <2>2, <2>3, ReceiveType, Zenon DEF Data
<1>3. CASE ~(UNCHANGED streams /\ (FeedErr \/ (goaway_code /\ UNCHANGED pc)))
  <2>1. s \in DOMAIN streams /\ ~(streams[s].recv_window - n < 0) /\ try_emit(s, st)
    BY <1>3, Zenon DEF Data
  <2>2. streams[s] \in Stream /\ s \in StreamIds \ {0}
    BY <1>0, <2>1, Zenon DEF RecvOK
  <2>3. st \in Stream
    <3>1. /\ streams[s].recv_window - n \in Nat
          /\ (streams[s].end_stream \/ end) \in BOOLEAN
      BY <1>0, <2>1, <2>2 DEF Stream
    <3> QED BY <2>2, <3>1, Zenon DEF Stream
  <2> HIDE DEF st
  <2>4. /\ DOMAIN streams' \subseteq StreamIds \ {0} /\ streams' \in [DOMAIN streams' -> Stream]
        /\ OutOK'
    BY <1>0, <2>1, <2>2, <2>3, EmitType, Zenon
  <2>5. RecvOK'
    BY <1>0, <1>1, <2>4, Zenon DEF RecvOK
  <2>6. pc' = pc
    BY <2>1, Zenon DEF try_emit
  <2> QED BY <2>4, <2>5, <2>6, ReceiveType, Zenon DEF Data
<1> QED BY <1>2, <1>3, Zenon

\* respond.
LEMMA RespondType ==
    ASSUME TypeOK, NEW n \in Bodies, Respond(n)
    PROVE  TypeOK'
<1> DEFINE s == Head(requests)
           ss == [pending |-> n, window |-> peer_initial_window]
<1>0. RecvOK /\ SendOK /\ OutOK /\ PlaceOK /\ n \in Nat
  BY Http2Assumption, Zenon DEF TypeOK
<1>1. /\ Push(s, Headers(n = 0)) /\ streams' = Without(streams, s) /\ body' = With(body, s, n)
      /\ send' = IF n = 0 THEN send ELSE With(send, s, ss)
      /\ flush' = [todo |-> IF n = 0 THEN {} ELSE {s}, cur |-> 0, back |-> "respond"]
      /\ pc' = "flush" /\ requests' = Tail(requests)
      /\ UNCHANGED <<last_stream_id, active_header_stream, rst_stream_count,
                     stream_lifetime_count, conn_recv_window>>
      /\ UNCHANGED <<conn_send_window, peer_initial_window, peer_max_frame_size>>
      /\ UNCHANGED <<goaway_sent, lost, preface_seen, frames>>
  BY Zenon DEF Respond
<1>2. s \in StreamIds \ {0} /\ requests' \in Seq(StreamIds \ {0})
  BY <1>0, <1>1 DEF Respond, OutOK
<1> HIDE DEF s
<1>3. RecvOK'
  <2>1. /\ DOMAIN streams' = DOMAIN streams \ {s}
        /\ streams' \in [DOMAIN streams \ {s} -> Stream]
    BY <1>0, <1>1, Zenon DEF RecvOK, Without
  <2> QED BY <1>0, <1>1, <2>1, Zenon DEF RecvOK
<1>4. OutOK'
  <2>1. Headers(n = 0) \in OutFrame
    BY Zenon DEF Headers, OutFrame
  <2>2. out' \in [StreamIds -> Seq(OutFrame)]
    BY <1>0, <1>1, <1>2, <2>1, PushType, Zenon DEF OutOK
  <2> QED BY <1>0, <1>1, <1>2, <2>2, Zenon DEF OutOK
<1>5. /\ SendOK'
      /\ flush' \in [todo : SUBSET DOMAIN send', cur : DOMAIN send' \cup {0},
                     back : {"frames", "respond"}]
  <2>1. CASE n = 0
    BY <1>0, <1>1, <2>1, Zenon DEF SendOK
  <2>2. CASE n # 0
    <3>1. ss \in SendState
      <4>1. peer_initial_window \in Int
        BY <1>0, Http2Assumption DEF SendOK
      <4> QED BY <1>0, <2>2, <4>1, Zenon DEF SendState
    <3>2. send' = With(send, s, ss)
      BY <1>1, <2>2, Zenon
    <3> HIDE DEF ss
    <3>3. DOMAIN send' = DOMAIN send \cup {s}
      BY <3>2, Zenon DEF With
    <3>4. send' \in [DOMAIN send' -> SendState]
      BY <1>0, <3>1, <3>2, Zenon DEF SendOK, With
    <3> QED BY <1>0, <1>1, <1>2, <2>2, <3>3, <3>4, Zenon DEF SendOK
  <2> QED BY <2>1, <2>2, Zenon
<1>6. PlaceOK'
  <2>1. DOMAIN body' = DOMAIN body \cup {s}
    BY <1>1, Zenon DEF With
  <2> QED BY <1>0, <1>1, <1>2, <1>5, <2>1, Zenon DEF PlaceOK
<1> QED BY <1>3, <1>4, <1>5, <1>6, Zenon DEF TypeOK

\* What a turn of flush_stream's loop may send: nothing, or a positive length
\* within the frame size, the body, and both windows.
LEMMA AllowedBound ==
    ASSUME SendOK, NEW ss \in SendState
    PROVE  /\ Allowed(ss) \in Int
           /\ Allowed(ss) <= conn_send_window /\ Allowed(ss) <= ss.window
           /\ Allowed(ss) <= peer_max_frame_size /\ Allowed(ss) <= ss.pending
           /\ Allowed(ss) <= 0 => conn_send_window <= 0 \/ ss.window <= 0
<1>1. /\ conn_send_window \in Int /\ ss.window \in Int /\ ss.pending \in Nat \ {0}
      /\ peer_max_frame_size \in Nat \ {0}
  BY Http2Assumption, Zenon DEF SendOK, SendState
<1> QED BY <1>1 DEF Allowed, Least

\* A turn of flush_stream's loop.
LEMMA FlushType ==
    ASSUME TypeOK, NEW s \in StreamIds, FlushStream(s)
    PROVE  /\ TypeOK'
           /\ s \in DOMAIN send
<1> DEFINE ss == send[s]
           n == Allowed(ss)
           rest == [pending |-> ss.pending - n, window |-> ss.window - n]
<1>0. RecvOK /\ SendOK /\ OutOK /\ PlaceOK
  BY Zenon DEF TypeOK
<1>1. UNCHANGED <<recvVars, peer_initial_window, peer_max_frame_size, requests, goaway_sent,
                  lost, pc, preface_seen, frames, body>>
  BY Zenon DEF FlushStream, histVars
<1>2. s \in DOMAIN send /\ s # 0
  <2>1. flush.todo \subseteq DOMAIN send /\ flush.cur \in DOMAIN send \cup {0}
    BY <1>0, Zenon DEF PlaceOK
  <2>2. s \in flush.todo \/ (flush.cur # 0 /\ s = flush.cur)
    BY Zenon DEF FlushStream
  <2>3. s \in DOMAIN send
    BY <2>1, <2>2, Zenon
  <2> QED BY <1>0, <2>3, Zenon DEF SendOK
<1>3. ss \in SendState
  BY <1>0, <1>2, Zenon DEF SendOK
<1>4. /\ n \in Int /\ n <= conn_send_window /\ n <= ss.window /\ n <= ss.pending
      /\ conn_send_window \in Int /\ ss.window \in Int /\ ss.pending \in Nat \ {0}
  BY <1>0, <1>3, AllowedBound, Zenon DEF SendOK, SendState
<1>5. RecvOK'
  BY <1>0, <1>1, RecvKept, Zenon
<1>6. CASE n <= 0
  <2>1. /\ flush' = [flush EXCEPT !.todo = @ \ {s}, !.cur = 0]
        /\ UNCHANGED <<out, conn_send_window, send>>
    BY <1>6, Zenon DEF FlushStream
  <2>2. SendOK' /\ OutOK'
    BY <1>0, <1>1, <2>1, Zenon DEF SendOK, OutOK
  <2>3. PlaceOK'
    BY <1>0, <1>1, <2>1, Zenon DEF PlaceOK
  <2> QED BY <1>2, <1>5, <2>2, <2>3, Zenon DEF TypeOK
<1>7. CASE ~(n <= 0)
  <2>1. /\ Push(s, DataFrame(n, Ends(ss, n)))
        /\ conn_send_window' = conn_send_window - n
        /\ send' = IF Ends(ss, n) THEN Without(send, s) ELSE [send EXCEPT ![s] = rest]
        /\ flush' = [flush EXCEPT !.todo = @ \ {s}, !.cur = IF Ends(ss, n) THEN 0 ELSE s]
    BY <1>7, Zenon DEF FlushStream
  <2>2. Ends(ss, n) \in BOOLEAN /\ n \in Nat /\ (~Ends(ss, n) => rest \in SendState)
    BY <1>4, <1>7 DEF Ends, SendState
  <2> HIDE DEF n, rest
  <2>3. OutOK'
    <3>1. DataFrame(n, Ends(ss, n)) \in OutFrame
      BY <2>2, Zenon DEF DataFrame, OutFrame
    <3>2. out' \in [StreamIds -> Seq(OutFrame)]
      BY <1>0, <2>1, <3>1, PushType, Zenon DEF OutOK
    <3> QED BY <1>0, <1>1, <3>2, Zenon DEF OutOK
  <2>4. /\ send' \in [DOMAIN send' -> SendState]
        /\ DOMAIN send' = IF Ends(ss, n) THEN DOMAIN send \ {s} ELSE DOMAIN send
    <3>1. CASE Ends(ss, n)
      BY <1>0, <2>1, <3>1, Zenon DEF SendOK, Without
    <3>2. CASE ~Ends(ss, n)
      BY <1>0, <1>2, <2>1, <2>2, <3>2, Zenon DEF SendOK
    <3> QED BY <3>1, <3>2, Zenon
  <2>5. SendOK'
    BY <1>0, <1>1, <1>4, <2>1, <2>4 DEF SendOK
  <2>6. flush' \in [todo : SUBSET DOMAIN send', cur : DOMAIN send' \cup {0},
                    back : {"frames", "respond"}]
    <3>1. flush' = [todo |-> flush.todo \ {s}, cur |-> IF Ends(ss, n) THEN 0 ELSE s,
                    back |-> flush.back]
      BY <1>0, <2>1, Zenon DEF PlaceOK
    <3>2. flush.todo \subseteq DOMAIN send /\ flush.back \in {"frames", "respond"}
      BY <1>0, Zenon DEF PlaceOK
    <3> QED BY <1>2, <2>4, <3>1, <3>2, Zenon
  <2>7. PlaceOK'
    BY <1>0, <1>1, <2>6, Zenon DEF PlaceOK
  <2> QED BY <1>2, <1>5, <2>3, <2>5, <2>7, Zenon DEF TypeOK
<1> QED BY <1>6, <1>7, Zenon

\* Every step keeps the connection well typed.
LEMMA NextType == TypeOK /\ [Next]_vars => TypeOK'
<1> SUFFICES ASSUME TypeOK, [Next]_vars PROVE TypeOK'
  BY Zenon
<1>1. CASE UNCHANGED vars
  BY <1>1 DEF vars, TypeOK, RecvOK, SendOK, OutOK, PlaceOK, recvVars, sendVars, outVars, histVars
<1>2. CASE Next
  BY <1>2, FeedStepType, SettingsType, WindowUpdateType, RstStreamType, HeadersType,
     ContinuationType, DataType, RespondType, FlushType DEF Next
<1> QED BY <1>1, <1>2, Zenon

\* Whatever a peer sends, in whatever order, the connection's state stays well
\* typed: in particular the connection's receive window never goes negative.
THEOREM ConnectionTypeCorrect == Spec => []TypeOK
<1>1. Init => TypeOK
  BY InitType, Zenon
<1> QED BY <1>1, NextType, PTL DEF Spec

-----------------------------------------------------------------------------
(* Flow control.                                                           *)

\* The steps that move windows: SETTINGS_INITIAL_WINDOW_SIZE, WINDOW_UPDATE,
\* respond and flush_stream.  Every other step leaves them alone.
LEMMA WindowsMove ==
    ASSUME Next
    PROVE  \/ UNCHANGED <<conn_send_window, peer_initial_window, send>>
           \/ \E v \in Windows : InitialWindowSetting(v) /\ ~(v > MaxWindow)
           \/ \E s \in StreamIds, inc \in Increments : WindowUpdate(s, inc) /\ ~BadIncrement(s, inc)
           \/ \E n \in Bodies : Respond(n)
           \/ \E s \in StreamIds : FlushStream(s)
<1>1. CASE Feed \/ Eof \/ FeedOk \/ Oversized \/ SettingsFrame \/ SettingsEnd \/ Ping \/ FlushEnd
  BY <1>1, Zenon DEF Feed, Eof, FeedOk, Oversized, SettingsFrame, SettingsEnd, Ping, FlushEnd, sendVars
<1>2. CASE SettingsItem
  BY <1>2 DEF SettingsItem, MaxFrameSizeSetting, InitialWindowSetting, sendVars
<1>3. CASE \E s \in StreamIds, inc \in Increments : WindowUpdate(s, inc)
  BY <1>3 DEF WindowUpdate, sendVars
<1>4. CASE \E s \in StreamIds : RstStream(s)
  BY <1>4, Zenon DEF RstStream, sendVars
<1>5. CASE \E s \in StreamIds, end, end_headers, padding, fits, decodes \in BOOLEAN :
              HeadersFrame(s, end, end_headers, padding, fits, decodes)
  BY <1>5 DEF HeadersFrame, sendVars
<1>6. CASE \E s \in StreamIds, end_headers, fits, decodes \in BOOLEAN :
              Continuation(s, end_headers, fits, decodes)
  BY <1>6 DEF Continuation, sendVars
<1>7. CASE \E s \in StreamIds, n \in Lengths, end, padding \in BOOLEAN : Data(s, n, end, padding)
  BY <1>7 DEF Data, sendVars
<1> QED BY <1>1, <1>2, <1>3, <1>4, <1>5, <1>6, <1>7 DEF Next

\* Only DATA takes from the connection's receive window, and only what is there.
LEMMA RecvWindowShrinks ==
    ASSUME Next
    PROVE  \/ UNCHANGED conn_recv_window
           \/ \E n \in Lengths : ~Overdrawn(n) /\ conn_recv_window' = conn_recv_window - n
<1>1. CASE Feed \/ Eof \/ FeedOk \/ Oversized \/ SettingsFrame \/ SettingsItem \/ SettingsEnd
           \/ Ping \/ FlushEnd
  BY <1>1, Zenon DEF Feed, Eof, FeedOk, Oversized, SettingsFrame, SettingsItem, SettingsEnd, Ping,
     FlushEnd, recvVars
<1>2. CASE \E s \in StreamIds, inc \in Increments : WindowUpdate(s, inc)
  BY <1>2, Zenon DEF WindowUpdate, recvVars
<1>3. CASE \E s \in StreamIds : RstStream(s)
  BY <1>3, Zenon DEF RstStream, recvVars
<1>4. CASE \E s \in StreamIds, end, end_headers, padding, fits, decodes \in BOOLEAN :
              HeadersFrame(s, end, end_headers, padding, fits, decodes)
  BY <1>4 DEF HeadersFrame, recvVars
<1>5. CASE \E s \in StreamIds, end_headers, fits, decodes \in BOOLEAN :
              Continuation(s, end_headers, fits, decodes)
  BY <1>5 DEF Continuation
<1>6. ASSUME NEW s \in StreamIds, NEW n \in Lengths, NEW end \in BOOLEAN,
             NEW padding \in BOOLEAN, Data(s, n, end, padding)
      PROVE  \/ UNCHANGED conn_recv_window
             \/ ~Overdrawn(n) /\ conn_recv_window' = conn_recv_window - n
  BY <1>6 DEF Data
<1>7. CASE \E n \in Bodies : Respond(n)
  BY <1>7 DEF Respond
<1>8. CASE \E s \in StreamIds : FlushStream(s)
  BY <1>8, Zenon DEF FlushStream, recvVars
<1> QED BY <1>1, <1>2, <1>3, <1>4, <1>5, <1>6, <1>7, <1>8 DEF Next

\* What a turn of flush_stream's loop does to the windows, when it sends.
LEMMA FlushSends ==
    ASSUME TypeOK, NEW s \in StreamIds, FlushStream(s)
    PROVE  LET ss == send[s]
               n == Allowed(ss)
           IN /\ s \in DOMAIN send /\ ss \in SendState
              /\ n <= 0 => UNCHANGED <<conn_send_window, send, out>>
              /\ n > 0 =>
                   /\ conn_send_window' = conn_send_window - n
                   /\ out'[s] = Append(out[s], DataFrame(n, n = ss.pending))
                   /\ \A x \in DOMAIN send \ {s} : x \in DOMAIN send' /\ send'[x] = send[x]
                   /\ DOMAIN send' = IF n = ss.pending THEN DOMAIN send \ {s} ELSE DOMAIN send
                   /\ n # ss.pending =>
                        send'[s] = [pending |-> ss.pending - n, window |-> ss.window - n]
<1> DEFINE ss == send[s]
           n == Allowed(ss)
           rest == [pending |-> ss.pending - n, window |-> ss.window - n]
<1>1. s \in DOMAIN send /\ SendOK /\ OutOK
  BY FlushType, Zenon DEF TypeOK
<1>2. ss \in SendState
  BY <1>1, Zenon DEF SendOK
<1>3. n \in Int
  BY <1>1, <1>2, AllowedBound
<1>4. CASE n <= 0
  <2>1. UNCHANGED <<conn_send_window, send, out>>
    BY <1>4 DEF FlushStream
  <2> QED BY <1>1, <1>2, <1>3, <1>4, <2>1
<1>5. CASE n > 0
  <2>0. ~(n <= 0)
    BY <1>3, <1>5
  <2>1. /\ out' = [out EXCEPT ![s] = Append(@, DataFrame(n, n = ss.pending))]
        /\ conn_send_window' = conn_send_window - n
        /\ send' = IF n = ss.pending THEN Without(send, s) ELSE [send EXCEPT ![s] = rest]
    BY <2>0, Zenon DEF FlushStream, Push, Ends
  <2> HIDE DEF n, rest
  <2>2. out'[s] = Append(out[s], DataFrame(n, n = ss.pending))
    BY <1>1, <2>1 DEF OutOK
  <2>3. CASE n = ss.pending
    <3>1. send' = Without(send, s)
      BY <2>1, <2>3
    <3>2. DOMAIN send' = DOMAIN send \ {s} /\ \A x \in DOMAIN send \ {s} : send'[x] = send[x]
      BY <3>1, Zenon DEF Without
    <3> QED BY <1>1, <1>2, <2>0, <2>1, <2>2, <2>3, <3>2 DEF n
  <2>4. CASE n # ss.pending
    <3>1. send' = [send EXCEPT ![s] = rest]
      BY <2>1, <2>4
    <3>2. /\ DOMAIN send' = DOMAIN send /\ send'[s] = rest
          /\ \A x \in DOMAIN send \ {s} : send'[x] = send[x]
      BY <1>1, <3>1, Zenon DEF SendOK
    <3> QED BY <1>1, <1>2, <2>0, <2>1, <2>2, <2>4, <3>2 DEF n, rest
  <2> QED BY <2>3, <2>4
<1> QED BY <1>3, <1>4, <1>5

SendBounds ==
    /\ conn_send_window \in 0 .. MaxWindow
    /\ \A s \in DOMAIN send :
          send[s].window \in (peer_initial_window - MaxWindow) .. (peer_initial_window + MaxWindow)

\* The bounds of the sending side are inductive, given the types.
LEMMA NextSend ==
    ASSUME TypeOK, TypeOK', SendBounds, [Next]_vars PROVE SendBounds'
<1>0. /\ SendOK /\ SendOK' /\ MaxWindow \in Nat
      /\ peer_initial_window \in 0 .. MaxWindow /\ conn_send_window \in 0 .. MaxWindow
      /\ \A s \in DOMAIN send : send[s] \in SendState
      /\ \A s \in DOMAIN send : send[s].window \in Int
  BY Http2Assumption, Zenon DEF TypeOK, SendOK, SendBounds, SendState
<1>1. CASE UNCHANGED <<conn_send_window, peer_initial_window, send>>
  BY <1>1, Zenon DEF SendBounds
<1>2. ASSUME NEW v \in Windows, InitialWindowSetting(v), ~(v > MaxWindow)
      PROVE  SendBounds'
  <2>1. /\ peer_initial_window' = v /\ v \in Nat
        /\ send' = [s \in DOMAIN send |->
                      [send[s] EXCEPT !.window = @ + (v - peer_initial_window)]]
        /\ UNCHANGED conn_send_window
    BY <1>2, Http2Assumption, Zenon DEF InitialWindowSetting
  <2>2. \A s \in DOMAIN send' :
           s \in DOMAIN send /\ send'[s].window = send[s].window + (v - peer_initial_window)
    BY <1>0, <2>1, Zenon DEF SendState
  <2> QED BY <1>0, <2>1, <2>2 DEF SendBounds
<1>3. ASSUME NEW s \in StreamIds, NEW inc \in Increments, WindowUpdate(s, inc),
             ~BadIncrement(s, inc)
      PROVE  SendBounds'
  <2>0. inc \in Nat
    BY Http2Assumption, Zenon
  <2>1. /\ conn_send_window' = conn_send_window + (IF s = 0 THEN inc ELSE 0)
        /\ send' = [x \in DOMAIN send |->
                      IF x = s THEN [send[x] EXCEPT !.window = @ + inc] ELSE send[x]]
        /\ UNCHANGED peer_initial_window
        /\ ~(s = 0 /\ conn_send_window + inc > MaxWindow)
        /\ ~(s \in DOMAIN send /\ send[s].window + inc > MaxWindow)
    BY <1>3 DEF WindowUpdate, BadIncrement
  <2>2. \A x \in DOMAIN send' :
           x \in DOMAIN send /\ send'[x].window = send[x].window + (IF x = s THEN inc ELSE 0)
    BY <1>0, <2>0, <2>1 DEF SendState
  <2> QED BY <1>0, <2>0, <2>1, <2>2 DEF SendBounds
<1>4. ASSUME NEW n \in Bodies, Respond(n) PROVE SendBounds'
  <2>1. /\ UNCHANGED <<conn_send_window, peer_initial_window>>
        /\ \/ send' = send
           \/ send' = With(send, Head(requests), [pending |-> n, window |-> peer_initial_window])
    BY <1>4, Zenon DEF Respond
  <2>2. \A x \in DOMAIN send' :
           send'[x].window = peer_initial_window \/ (x \in DOMAIN send /\ send'[x] = send[x])
    BY <2>1 DEF With
  <2> QED BY <1>0, <2>1, <2>2 DEF SendBounds
<1>5. ASSUME NEW s \in StreamIds, FlushStream(s) PROVE SendBounds'
  <2> DEFINE n == Allowed(send[s])
  <2>1. s \in DOMAIN send
    BY <1>5, FlushType
  <2>2. n \in Int /\ n <= conn_send_window /\ n <= send[s].window
    BY <1>0, <2>1, AllowedBound
  <2>3. UNCHANGED peer_initial_window
    BY <1>5, Zenon DEF FlushStream
  <2>4. CASE n <= 0
    BY <1>1, <1>5, <2>3, <2>4, FlushSends, Zenon
  <2>5. CASE n > 0
    <3>0. /\ conn_send_window' = conn_send_window - n
          /\ \A x \in DOMAIN send \ {s} : x \in DOMAIN send' /\ send'[x] = send[x]
          /\ DOMAIN send' = IF n = send[s].pending THEN DOMAIN send \ {s} ELSE DOMAIN send
          /\ n # send[s].pending =>
               send'[s] = [pending |-> send[s].pending - n, window |-> send[s].window - n]
      BY <1>5, <2>5, FlushSends, Zenon
    <3> HIDE DEF n
    <3>1. /\ conn_send_window' = conn_send_window - n
          /\ \A x \in DOMAIN send' : x \in DOMAIN send /\
               (send'[x] = send[x] \/ (x = s /\ send'[x].window = send[s].window - n))
      BY <3>0
    <3> QED BY <1>0, <2>1, <2>2, <2>3, <2>5, <3>1 DEF SendBounds
  <2> QED BY <2>2, <2>4, <2>5
<1>6. CASE UNCHANGED vars
  BY <1>1, <1>6, Zenon DEF vars, sendVars
<1> QED BY <1>1, <1>2, <1>3, <1>4, <1>5, <1>6, WindowsMove

\* So are all the bounds.
LEMMA NextWindow ==
    ASSUME TypeOK, TypeOK', WindowBounds, [Next]_vars PROVE WindowBounds'
<1>1. SendBounds'
  BY NextSend, Zenon DEF WindowBounds, SendBounds
<1>2. conn_recv_window' \in 0 .. RecvWindow
  <2>0. conn_recv_window \in 0 .. RecvWindow /\ RecvWindow \in Nat /\ Lengths \subseteq Nat
    BY Http2Assumption, Zenon DEF WindowBounds
  <2>1. CASE UNCHANGED conn_recv_window
    BY <2>0, <2>1, Zenon
  <2>2. CASE \E n \in Lengths : ~Overdrawn(n) /\ conn_recv_window' = conn_recv_window - n
    BY <2>0, <2>2 DEF Overdrawn
  <2>3. CASE UNCHANGED vars
    BY <2>1, <2>3, Zenon DEF vars, recvVars
  <2> QED BY <2>1, <2>2, <2>3, RecvWindowShrinks, Zenon
<1> QED BY <1>1, <1>2, Zenon DEF WindowBounds, SendBounds

\* Windows stay within their bounds for every value of the settings and of the
\* increments a peer may send: the i64 arithmetic of the handlers is exact.
THEOREM WindowsBounded == Spec => []WindowBounds
<1>1. Init => WindowBounds
  <2> SUFFICES ASSUME Init PROVE WindowBounds
    OBVIOUS
  <2>1. \A S : <<>> \in Seq(S)
    OBVIOUS
  <2>2. DOMAIN send = {}
    BY <2>1 DEF Init
  <2> QED BY <2>2, Http2Assumption DEF Init, WindowBounds
<1>2. TypeOK /\ TypeOK' /\ WindowBounds /\ [Next]_vars => WindowBounds'
  BY NextWindow, Zenon
<1> QED BY <1>1, <1>2, ConnectionTypeCorrect, PTL DEF Spec

\* A step that spends connection credit sends one DATA frame within both
\* windows, whatever the peer sent before.
THEOREM DataStaysWithinWindows == Spec => DataWithinWindows
<1> DEFINE Spent(s, n) ==
             /\ n <= send[s].window /\ n <= conn_send_window /\ n <= peer_max_frame_size
             /\ out'[s] = Append(out[s], DataFrame(n, n = send[s].pending))
             /\ \A x \in DOMAIN send \ {s} : x \in DOMAIN send' /\ send'[x] = send[x]
             /\ IF n = send[s].pending THEN s \notin DOMAIN send'
                ELSE send'[s] = [pending |-> send[s].pending - n,
                                 window |-> send[s].window - n]
<1>1. ASSUME TypeOK, Next, conn_send_window' < conn_send_window
      PROVE  \E s \in DOMAIN send : Spent(s, conn_send_window - conn_send_window')
  <2>0. conn_send_window \in Int /\ SendOK
    BY <1>1, Zenon DEF TypeOK, SendOK
  <2>1. PICK s \in StreamIds : FlushStream(s)
    <3>1. UNCHANGED conn_send_window => FALSE
      BY <1>1, <2>0
    <3>2. \A s \in StreamIds, inc \in Increments :
             WindowUpdate(s, inc) /\ ~BadIncrement(s, inc) => FALSE
      BY <1>1, <2>0, Http2Assumption DEF WindowUpdate
    <3> QED BY <1>1, <3>1, <3>2, WindowsMove, Zenon DEF InitialWindowSetting, Respond
  <2> DEFINE n == Allowed(send[s])
  <2>2. s \in DOMAIN send /\ send[s] \in SendState
    BY <1>1, <2>1, FlushSends, Zenon
  <2>3. /\ n \in Int /\ n <= conn_send_window /\ n <= send[s].window
        /\ n <= peer_max_frame_size
    BY <2>0, <2>2, AllowedBound, Zenon
  <2>4. n > 0
    <3>1. n <= 0 => conn_send_window' = conn_send_window
      BY <1>1, <2>1, FlushSends, Zenon
    <3> HIDE DEF n
    <3> QED BY <1>1, <2>0, <2>3, <3>1
  <2>5. /\ conn_send_window' = conn_send_window - n
        /\ out'[s] = Append(out[s], DataFrame(n, n = send[s].pending))
        /\ \A x \in DOMAIN send \ {s} : x \in DOMAIN send' /\ send'[x] = send[x]
        /\ DOMAIN send' = IF n = send[s].pending THEN DOMAIN send \ {s} ELSE DOMAIN send
        /\ n # send[s].pending =>
               send'[s] = [pending |-> send[s].pending - n, window |-> send[s].window - n]
    BY <1>1, <2>1, <2>4, FlushSends, Zenon
  <2> HIDE DEF n
  <2>6. n = conn_send_window - conn_send_window'
    BY <2>0, <2>3, <2>5
  <2>7. Spent(s, n)
    BY <2>3, <2>5, Zenon
  <2> QED BY <2>2, <2>6, <2>7, Zenon
<1>2. ASSUME TypeOK, UNCHANGED vars PROVE ~(conn_send_window' < conn_send_window)
  BY <1>2 DEF vars, sendVars, TypeOK, SendOK
<1> QED BY <1>1, <1>2, ConnectionTypeCorrect, PTL DEF Spec, DataWithinWindows

-----------------------------------------------------------------------------
(* Requests.  A stream is open, or waits to be answered, or was answered,  *)
(* and in each case the connection has counted it: RequestsOnce alone does *)
(* not say why a new HEADERS cannot reopen one of the others.              *)

RequestInv ==
    /\ \A s \in DOMAIN streams : s <= last_stream_id
    /\ \A s \in DOMAIN body : s <= last_stream_id /\ s \notin DOMAIN streams
    /\ \A i \in DOMAIN requests :
          /\ requests[i] <= last_stream_id
          /\ requests[i] \notin DOMAIN body /\ requests[i] \notin DOMAIN streams
    /\ \A i, j \in DOMAIN requests : requests[i] = requests[j] => i = j

\* Streams that go away, and requests dropped by a failed feed, keep RequestInv.
LEMMA RequestKept ==
    ASSUME RequestInv, UNCHANGED <<last_stream_id, body>>,
           DOMAIN streams' \subseteq DOMAIN streams,
           UNCHANGED requests \/ requests' = <<>>
    PROVE  RequestInv'
<1>1. CASE UNCHANGED requests
  BY <1>1, Zenon DEF RequestInv
<1>2. CASE requests' = <<>>
  <2>1. \A S : <<>> \in Seq(S)
    OBVIOUS
  <2>2. DOMAIN requests' = {}
    BY <1>2, <2>1
  <2> QED BY <2>2, Zenon DEF RequestInv
<1> QED BY <1>1, <1>2, Zenon

\* A stream that was open, or whose identifier is new, is put back or emitted.
LEMMA EmitOnce ==
    ASSUME TypeOK, RequestInv, NEW s \in StreamIds \ {0}, NEW st, try_emit(s, st),
           UNCHANGED body, last_stream_id' \in StreamIds, last_stream_id <= last_stream_id',
           s \in DOMAIN streams \/ (last_stream_id < s /\ last_stream_id' = s)
    PROVE  RequestInv'
<1>0. /\ last_stream_id \in Nat /\ last_stream_id' \in Nat /\ s \in Nat
      /\ DOMAIN streams \subseteq Nat /\ DOMAIN body \subseteq Nat
      /\ requests \in Seq(StreamIds \ {0}) /\ \A i \in DOMAIN requests : requests[i] \in Nat
  <2>1. requests \in Seq(StreamIds \ {0})
    BY Zenon DEF TypeOK, OutOK
  <2>2. \A i \in DOMAIN requests : requests[i] \in StreamIds
    BY <2>1
  <2>3. StreamIds \subseteq Nat
    BY Http2Assumption, Zenon
  <2>4. /\ last_stream_id \in StreamIds /\ DOMAIN streams \subseteq StreamIds
        /\ DOMAIN body \subseteq StreamIds
    BY Zenon DEF TypeOK, RecvOK, PlaceOK
  <2> QED BY <2>1, <2>2, <2>3, <2>4, Zenon
<1>1. /\ s <= last_stream_id' /\ s \notin DOMAIN body
      /\ \A i \in DOMAIN requests : requests[i] # s
  BY <1>0 DEF RequestInv
<1>2. /\ \A x \in DOMAIN streams : x <= last_stream_id'
      /\ \A x \in DOMAIN body : x <= last_stream_id'
      /\ \A i \in DOMAIN requests : requests[i] <= last_stream_id'
  BY <1>0 DEF RequestInv
<1>3. CASE streams' = Without(streams, s) /\ requests' = Append(requests, s)
  <2>1. DOMAIN streams' = DOMAIN streams \ {s}
    BY <1>3, Zenon DEF Without
  <2>2. /\ DOMAIN requests' = DOMAIN requests \cup {Len(requests) + 1}
        /\ \A i \in DOMAIN requests : requests'[i] = requests[i]
        /\ requests'[Len(requests) + 1] = s
    BY <1>0, <1>3
  <2> QED BY <1>1, <1>2, <2>1, <2>2 DEF RequestInv
<1>4. CASE streams' = With(streams, s, st) /\ UNCHANGED requests
  <2>1. DOMAIN streams' = DOMAIN streams \cup {s}
    BY <1>4, Zenon DEF With
  <2> QED BY <1>1, <1>2, <1>4, <2>1 DEF RequestInv
<1> QED BY <1>3, <1>4, Zenon DEF try_emit

\* HEADERS opens only a stream the connection has not seen.
LEMMA HeadersOnce ==
    ASSUME TypeOK, RequestInv, NEW s \in StreamIds, NEW end \in BOOLEAN,
           NEW end_headers \in BOOLEAN, NEW padding \in BOOLEAN, NEW fits \in BOOLEAN,
           NEW decodes \in BOOLEAN, HeadersFrame(s, end, end_headers, padding, fits, decodes)
    PROVE  RequestInv'
<1>1. UNCHANGED body
  BY Zenon DEF HeadersFrame, histVars
<1>2. CASE UNCHANGED <<streams, last_stream_id>> /\ (FeedErr \/ goaway_code)
  BY <1>1, <1>2, RequestKept, Zenon DEF FeedErr, goaway_code
<1>3. CASE ~(UNCHANGED <<streams, last_stream_id>> /\ (FeedErr \/ goaway_code))
  <2>1. /\ ~Refused(s) /\ last_stream_id' = s
        /\ \/ try_emit(s, NewStream(end))
           \/ try_emit(s, Decoded(NewStream(end)))
           \/ streams' = With(streams, s, NewStream(end)) /\ FeedErr
    BY <1>3, Zenon DEF HeadersFrame, recvVars
  <2>2. /\ last_stream_id \in Nat /\ s \in Nat /\ s # 0 /\ last_stream_id < s
        /\ DOMAIN streams \subseteq Nat /\ DOMAIN body \subseteq Nat
    BY <2>1, Http2Assumption DEF Refused, TypeOK, RecvOK, PlaceOK
  <2>3. CASE try_emit(s, NewStream(end)) \/ try_emit(s, Decoded(NewStream(end)))
    BY <1>1, <2>1, <2>2, <2>3, EmitOnce
  <2>4. CASE streams' = With(streams, s, NewStream(end)) /\ FeedErr
    <3>1. DOMAIN streams' = DOMAIN streams \cup {s}
      BY <2>4, Zenon DEF With
    <3>2. \A S : <<>> \in Seq(S)
      OBVIOUS
    <3>3. DOMAIN requests' = {}
      BY <2>4, <3>2 DEF FeedErr
    <3> QED BY <1>1, <2>1, <2>2, <3>1, <3>3 DEF RequestInv
  <2> QED BY <2>1, <2>3, <2>4
<1> QED BY <1>2, <1>3, Zenon

\* CONTINUATION completes a request only on an open stream.
LEMMA ContinuationOnce ==
    ASSUME TypeOK, RequestInv, NEW s \in StreamIds, NEW end_headers \in BOOLEAN,
           NEW fits \in BOOLEAN, NEW decodes \in BOOLEAN,
           Continuation(s, end_headers, fits, decodes)
    PROVE  RequestInv'
<1> DEFINE st == [streams[s] EXCEPT !.continuation_count = @ + 1]
<1>1. UNCHANGED <<last_stream_id, body>> /\ last_stream_id \in Nat /\ last_stream_id \in StreamIds
  BY Http2Assumption, Zenon DEF Continuation, histVars, TypeOK, RecvOK
<1>2. \/ UNCHANGED streams /\ (FeedErr \/ goaway_code)
      \/ /\ s # 0 /\ s \in DOMAIN streams
         /\ \/ streams' = With(streams, s, st) /\ (FeedErr \/ goaway_code \/ UNCHANGED outVars)
            \/ try_emit(s, Decoded(st))
  BY Zenon DEF Continuation
<1> HIDE DEF st
<1>3. CASE UNCHANGED streams /\ (FeedErr \/ goaway_code)
  BY <1>1, <1>3, RequestKept DEF FeedErr, goaway_code
<1>4. CASE /\ s # 0 /\ s \in DOMAIN streams
           /\ streams' = With(streams, s, st) /\ (FeedErr \/ goaway_code \/ UNCHANGED outVars)
  <2>1. DOMAIN streams' = DOMAIN streams
    BY <1>4, Zenon DEF With
  <2> QED BY <1>1, <1>4, <2>1, RequestKept DEF FeedErr, goaway_code, outVars
<1>5. CASE s # 0 /\ s \in DOMAIN streams /\ try_emit(s, Decoded(st))
  BY <1>1, <1>5, EmitOnce
<1> QED BY <1>2, <1>3, <1>4, <1>5

\* So does DATA.
LEMMA DataOnce ==
    ASSUME TypeOK, RequestInv, NEW s \in StreamIds, NEW n \in Lengths, NEW end \in BOOLEAN,
           NEW padding \in BOOLEAN, Data(s, n, end, padding)
    PROVE  RequestInv'
<1> DEFINE st == [streams[s] EXCEPT !.recv_window = @ - n, !.end_stream = @ \/ end]
<1>1. UNCHANGED <<last_stream_id, body>> /\ last_stream_id \in Nat /\ last_stream_id \in StreamIds
  BY Http2Assumption DEF Data, histVars, TypeOK, RecvOK
<1>2. \/ UNCHANGED streams /\ (FeedErr \/ goaway_code)
      \/ s \in DOMAIN streams /\ try_emit(s, st)
  BY Zenon DEF Data
<1> HIDE DEF st
<1>3. CASE UNCHANGED streams /\ (FeedErr \/ goaway_code)
  BY <1>1, <1>3, RequestKept DEF FeedErr, goaway_code
<1>4. CASE s \in DOMAIN streams /\ try_emit(s, st)
  <2>1. s \in StreamIds \ {0}
    BY <1>4 DEF TypeOK, RecvOK
  <2> QED BY <1>1, <1>4, <2>1, EmitOnce
<1> QED BY <1>2, <1>3, <1>4

\* Answering the first request that waits.
LEMMA RespondOnce ==
    ASSUME TypeOK, RequestInv, NEW n \in Bodies, Respond(n)
    PROVE  RequestInv' /\ DOMAIN streams' = DOMAIN streams /\ Head(requests) \notin DOMAIN streams
<1>1. /\ streams' = Without(streams, Head(requests)) /\ body' = With(body, Head(requests), n)
      /\ requests' = Tail(requests) /\ requests # <<>> /\ UNCHANGED last_stream_id
  BY Zenon DEF Respond
<1>2. requests \in Seq(StreamIds \ {0})
  BY Zenon DEF TypeOK, OutOK
<1>3. Head(requests) = requests[1] /\ 1 \in DOMAIN requests /\ Len(requests) \in Nat
  BY <1>1, <1>2
<1>4. /\ \A i \in DOMAIN requests' : /\ i \in Nat /\ i + 1 \in DOMAIN requests
                                     /\ requests'[i] = requests[i + 1] /\ i + 1 # 1
  BY <1>1, <1>2
<1>5. /\ \A i \in DOMAIN requests' : requests'[i] # Head(requests)
      /\ \A i, j \in DOMAIN requests' : requests'[i] = requests'[j] => i = j
  BY <1>3, <1>4 DEF RequestInv
<1>6. Head(requests) \notin DOMAIN streams /\ Head(requests) <= last_stream_id
  BY <1>3, Zenon DEF RequestInv
<1>7. DOMAIN streams' = DOMAIN streams /\ DOMAIN body' = DOMAIN body \cup {Head(requests)}
  BY <1>1, <1>6, Zenon DEF Without, With
<1>8. \A i \in DOMAIN requests' :
          /\ requests'[i] <= last_stream_id
          /\ requests'[i] \notin DOMAIN body /\ requests'[i] \notin DOMAIN streams
  BY <1>4, Zenon DEF RequestInv
<1> QED BY <1>1, <1>5, <1>6, <1>7, <1>8 DEF RequestInv

\* RequestInv is inductive, given the types.
LEMMA NextOnce == ASSUME TypeOK, RequestInv, [Next]_vars PROVE RequestInv'
<1>1. CASE UNCHANGED <<streams, last_stream_id, requests, body>>
  BY <1>1, RequestKept
<1>2. CASE Feed \/ Eof \/ FeedOk \/ Oversized \/ SettingsFrame \/ SettingsEnd \/ Ping \/ FlushEnd
  BY <1>1, <1>2, Zenon DEF Feed, Eof, FeedOk, Oversized, SettingsFrame, SettingsEnd, Ping, FlushEnd,
     recvVars, outVars, histVars, goaway_code
<1>3. CASE SettingsItem
  BY <1>1, <1>3 DEF SettingsItem, MaxFrameSizeSetting, InitialWindowSetting, recvVars, outVars,
     histVars, goaway_code
<1>4. CASE \E s \in StreamIds, inc \in Increments : WindowUpdate(s, inc)
  BY <1>1, <1>4 DEF WindowUpdate, recvVars, outVars, histVars, goaway_code
<1>5. CASE \E s \in StreamIds : RstStream(s)
  <2>1. PICK s \in StreamIds : RstStream(s)
    BY <1>5, Zenon
  <2>2. /\ UNCHANGED <<last_stream_id, body, requests>>
        /\ streams' = streams \/ streams' = Without(streams, s)
    BY <2>1 DEF RstStream, recvVars, outVars, histVars, goaway_code
  <2>3. DOMAIN streams' \subseteq DOMAIN streams
    BY <2>2, Zenon DEF Without
  <2> QED BY <2>2, <2>3, RequestKept
<1>6. CASE \E s \in StreamIds, end, end_headers, padding, fits, decodes \in BOOLEAN :
              HeadersFrame(s, end, end_headers, padding, fits, decodes)
  BY <1>6, HeadersOnce
<1>7. CASE \E s \in StreamIds, end_headers, fits, decodes \in BOOLEAN :
              Continuation(s, end_headers, fits, decodes)
  BY <1>7, ContinuationOnce, Zenon
<1>8. CASE \E s \in StreamIds, n \in Lengths, end, padding \in BOOLEAN : Data(s, n, end, padding)
  BY <1>8, DataOnce
<1>9. CASE \E n \in Bodies : Respond(n)
  BY <1>9, RespondOnce
<1>10. CASE \E s \in StreamIds : FlushStream(s)
  BY <1>1, <1>10 DEF FlushStream, recvVars, histVars
<1>11. CASE UNCHANGED vars
  BY <1>1, <1>11 DEF vars, recvVars, outVars, histVars
<1> QED BY <1>2, <1>3, <1>4, <1>5, <1>6, <1>7, <1>8, <1>9, <1>10, <1>11 DEF Next

\* Initially there is no stream, no request and no answer.
LEMMA InitOnce == Init => RequestInv
<1> SUFFICES ASSUME Init PROVE RequestInv
  OBVIOUS
<1>1. \A S : <<>> \in Seq(S)
  OBVIOUS
<1>2. DOMAIN streams = {} /\ DOMAIN body = {} /\ DOMAIN requests = {}
  BY <1>1 DEF Init
<1> QED BY <1>2 DEF RequestInv

\* A request is handed over at most once, for every stream identifier a peer
\* may use and in every order of frames, resets and answers.
THEOREM RequestsHandedOnce == Spec => []RequestsOnce
<1>1. TypeOK /\ RequestInv /\ [Next]_vars => RequestInv'
  BY NextOnce, Zenon
<1>2. RequestInv => RequestsOnce
  BY Zenon DEF RequestInv, RequestsOnce
<1> QED BY <1>1, <1>2, InitOnce, ConnectionTypeCorrect, PTL DEF Spec

-----------------------------------------------------------------------------
(* Header blocks.  respond removes a stream; that it is never the one with *)
(* the block in progress takes RequestInv.                                 *)

\* The stream with the block in progress goes through try_emit unharmed.
LEMMA EmitKeepsBlock ==
    ASSUME HeaderBlockOpen, NEW s, NEW st, try_emit(s, st),
           UNCHANGED <<last_stream_id, active_header_stream>>,
           s = active_header_stream => ~st.headers_done
    PROVE  HeaderBlockOpen'
<1>1. CASE streams' = With(streams, s, st)
  BY <1>1 DEF HeaderBlockOpen, With
<1>2. CASE streams' = Without(streams, s) /\ st.headers_done
  BY <1>2 DEF HeaderBlockOpen, Without
<1> QED BY <1>1, <1>2 DEF try_emit

\* HEADERS starts a block only when none is in progress.
LEMMA HeadersBlock ==
    ASSUME TypeOK, HeaderBlockOpen, NEW s \in StreamIds, NEW end \in BOOLEAN,
           NEW end_headers \in BOOLEAN, NEW padding \in BOOLEAN, NEW fits \in BOOLEAN,
           NEW decodes \in BOOLEAN, HeadersFrame(s, end, end_headers, padding, fits, decodes)
    PROVE  HeaderBlockOpen'
<1>1. CASE UNCHANGED <<streams, last_stream_id, active_header_stream>>
  BY <1>1 DEF HeaderBlockOpen
<1>2. CASE ~UNCHANGED <<streams, last_stream_id, active_header_stream>>
  <2>1. /\ ~Refused(s) /\ last_stream_id' = s
        /\ \/ active_header_stream' = s /\ try_emit(s, NewStream(end))
           \/ UNCHANGED active_header_stream
    BY <1>2 DEF HeadersFrame, recvVars
  <2>2. active_header_stream = 0
    BY <2>1, Zenon DEF Refused
  <2>3. CASE active_header_stream' = s /\ try_emit(s, NewStream(end))
    <3>1. ~NewStream(end).headers_done
      BY Zenon DEF NewStream
    <3>2. streams' = With(streams, s, NewStream(end))
      BY <2>3, <3>1 DEF try_emit
    <3>3. s \in DOMAIN streams' /\ streams'[s] = NewStream(end)
      BY <3>2, Zenon DEF With
    <3> QED BY <2>1, <2>3, <3>1, <3>3 DEF HeaderBlockOpen
  <2> QED BY <2>1, <2>2, <2>3 DEF HeaderBlockOpen
<1> QED BY <1>1, <1>2

\* CONTINUATION carries the block on or ends it.
LEMMA ContinuationBlock ==
    ASSUME TypeOK, HeaderBlockOpen, NEW s \in StreamIds, NEW end_headers \in BOOLEAN,
           NEW fits \in BOOLEAN, NEW decodes \in BOOLEAN,
           Continuation(s, end_headers, fits, decodes)
    PROVE  HeaderBlockOpen'
<1> DEFINE st == [streams[s] EXCEPT !.continuation_count = @ + 1]
<1>1. UNCHANGED last_stream_id
  BY Zenon DEF Continuation
<1>2. \/ UNCHANGED <<streams, active_header_stream>>
      \/ /\ s \in DOMAIN streams /\ s = active_header_stream
         /\ \/ streams' = With(streams, s, st) /\ UNCHANGED active_header_stream
            \/ active_header_stream' = 0
  BY Zenon DEF Continuation
<1>3. CASE UNCHANGED <<streams, active_header_stream>>
  BY <1>1, <1>3 DEF HeaderBlockOpen
<1>4. CASE /\ s \in DOMAIN streams /\ s = active_header_stream
           /\ streams' = With(streams, s, st) /\ UNCHANGED active_header_stream
  <2>1. streams[s] \in Stream
    BY <1>4, Zenon DEF TypeOK, RecvOK
  <2>2. st.headers_done = streams[s].headers_done
    BY <2>1, Zenon DEF Stream
  <2> HIDE DEF st
  <2>3. DOMAIN streams' = DOMAIN streams \cup {s} /\ streams'[s] = st
    BY <1>4, Zenon DEF With
  <2> QED BY <1>1, <1>4, <2>2, <2>3 DEF HeaderBlockOpen
<1>5. CASE active_header_stream' = 0
  BY <1>5, Zenon DEF HeaderBlockOpen
<1> QED BY <1>2, <1>3, <1>4, <1>5

\* DATA on the stream of the block does not complete it.
LEMMA DataBlock ==
    ASSUME TypeOK, HeaderBlockOpen, NEW s \in StreamIds, NEW n \in Lengths,
           NEW end \in BOOLEAN, NEW padding \in BOOLEAN, Data(s, n, end, padding)
    PROVE  HeaderBlockOpen'
<1> DEFINE st == [streams[s] EXCEPT !.recv_window = @ - n, !.end_stream = @ \/ end]
<1>1. UNCHANGED <<last_stream_id, active_header_stream>>
  BY Zenon DEF Data
<1>2. UNCHANGED streams \/ (s \in DOMAIN streams /\ try_emit(s, st))
  BY Zenon DEF Data
<1>3. CASE UNCHANGED streams
  BY <1>1, <1>3 DEF HeaderBlockOpen
<1>4. CASE s \in DOMAIN streams /\ try_emit(s, st)
  <2>1. streams[s] \in Stream
    BY <1>4 DEF TypeOK, RecvOK
  <2>2. st.headers_done = streams[s].headers_done
    BY <2>1 DEF Stream
  <2> HIDE DEF st
  <2>3. s = active_header_stream => ~st.headers_done
    <3>1. s # 0
      BY <1>4 DEF TypeOK, RecvOK
    <3> QED BY <2>2, <3>1 DEF HeaderBlockOpen
  <2> QED BY <1>1, <1>4, <2>3, EmitKeepsBlock
<1> QED BY <1>2, <1>3, <1>4

\* HeaderBlockOpen is inductive, given the types and RequestInv.
LEMMA NextBlock == ASSUME TypeOK, RequestInv, HeaderBlockOpen, [Next]_vars PROVE HeaderBlockOpen'
<1>1. CASE UNCHANGED recvVars
  BY <1>1 DEF HeaderBlockOpen, recvVars
<1>2. CASE Feed \/ Eof \/ FeedOk \/ Oversized \/ SettingsFrame \/ SettingsItem \/ SettingsEnd
           \/ Ping \/ FlushEnd
  BY <1>1, <1>2, Zenon DEF Feed, Eof, FeedOk, Oversized, SettingsFrame, SettingsItem, SettingsEnd, Ping,
     FlushEnd
<1>3. CASE \E s \in StreamIds, inc \in Increments : WindowUpdate(s, inc)
  BY <1>1, <1>3 DEF WindowUpdate
<1>4. CASE \E s \in StreamIds : RstStream(s)
  <2>1. PICK s \in StreamIds : RstStream(s)
    BY <1>4, Zenon
  <2>2. \/ UNCHANGED recvVars
        \/ /\ UNCHANGED last_stream_id
           /\ \/ UNCHANGED <<streams, active_header_stream>>
              \/ streams' = Without(streams, s) /\ active_header_stream' = HeaderStreamAfter(s)
    BY <2>1, Zenon DEF RstStream
  <2>3. CASE streams' = Without(streams, s) /\ active_header_stream' = HeaderStreamAfter(s)
             /\ UNCHANGED last_stream_id
    BY <2>3, Zenon DEF HeaderBlockOpen, HeaderStreamAfter, Without
  <2> QED BY <1>1, <2>2, <2>3 DEF HeaderBlockOpen
<1>5. CASE \E n \in Bodies : Respond(n)
  <2>1. PICK n \in Bodies : Respond(n)
    BY <1>5
  <2>2. UNCHANGED <<last_stream_id, active_header_stream>>
        /\ streams' = Without(streams, Head(requests)) /\ Head(requests) \notin DOMAIN streams
    BY <2>1, RespondOnce, Zenon DEF Respond
  <2> QED BY <2>2 DEF HeaderBlockOpen, Without
<1>6. CASE \E s \in StreamIds : FlushStream(s)
  BY <1>1, <1>6 DEF FlushStream
<1>7. CASE UNCHANGED vars
  BY <1>1, <1>7 DEF vars
<1> QED BY <1>2, <1>3, <1>4, <1>5, <1>6, <1>7, HeadersBlock, ContinuationBlock, DataBlock DEF Next

\* An open header block is of the newest stream, which exists and is not complete:
\* RST_STREAM and the end of the block close it.
THEOREM HeaderBlocksHold == Spec => []HeaderBlockOpen
<1>1. Init => HeaderBlockOpen
  BY DEF Init, HeaderBlockOpen
<1>2. TypeOK /\ RequestInv /\ [Next]_vars => RequestInv'
  BY NextOnce
<1>3. TypeOK /\ RequestInv /\ HeaderBlockOpen /\ [Next]_vars => HeaderBlockOpen'
  BY NextBlock
<1> QED BY <1>1, <1>2, <1>3, InitOnce, ConnectionTypeCorrect, PTL DEF Spec

-----------------------------------------------------------------------------
(* Flushing.  NoStalledBody speaks of the moments between two chunks; in   *)
(* between, the bodies that may still be sendable are the ones a flush in  *)
(* progress has not come to.  While the settings of a SETTINGS frame are   *)
(* applied nothing is known, and SETTINGS ends in a flush or in GOAWAY.    *)

Stalled(s) == conn_send_window <= 0 \/ send[s].window <= 0
InFlush == IF pc = "flush" THEN flush.todo \cup {flush.cur} ELSE {}
FlushInv == goaway_sent \/ pc = "settings" \/ \A s \in DOMAIN send \ InFlush : Stalled(s)

\* Steps of feed that leave the sending side alone.
LEMMA FlushKept ==
    ASSUME FlushInv, UNCHANGED <<conn_send_window, send, flush>>,
           goaway_sent => goaway_sent',
           \/ pc' = pc \/ goaway_sent' \/ pc' = "settings"
           \/ pc \notin {"settings", "flush"} /\ pc' # "flush"
    PROVE  FlushInv'
BY DEF FlushInv, InFlush, Stalled

\* A receiving step goes on with the chunk or ends the feed; once GOAWAY is
\* sent it stays sent.
LEMMA ReceiveFlush ==
    ASSUME \/ Feed \/ Eof \/ FeedOk \/ Oversized \/ SettingsFrame \/ Ping
           \/ \E s \in StreamIds : RstStream(s)
           \/ \E s \in StreamIds, end, end_headers, padding, fits, decodes \in BOOLEAN :
                 HeadersFrame(s, end, end_headers, padding, fits, decodes)
           \/ \E s \in StreamIds, end_headers, fits, decodes \in BOOLEAN :
                 Continuation(s, end_headers, fits, decodes)
           \/ \E s \in StreamIds, n \in Lengths, end, padding \in BOOLEAN :
                 Data(s, n, end, padding)
    PROVE  /\ UNCHANGED <<conn_send_window, send, flush>>
           /\ goaway_sent => goaway_sent'
           /\ \/ pc' = pc \/ goaway_sent' \/ pc' = "settings"
              \/ pc \notin {"settings", "flush"} /\ pc' # "flush"
<1>1. CASE Feed \/ Eof \/ FeedOk \/ Oversized \/ SettingsFrame \/ Ping
  <2>1. UNCHANGED <<conn_send_window, send, flush>>
    BY <1>1, Zenon DEF Feed, Eof, FeedOk, Oversized, SettingsFrame, Ping, sendVars
  <2>2. CASE Feed \/ Eof \/ FeedOk
    <3>1. UNCHANGED goaway_sent
      BY <2>2, Zenon DEF Feed, Eof, FeedOk, outVars
    <3>2. pc \notin {"settings", "flush"} /\ pc' # "flush"
      BY <2>2, Zenon DEF Feed, Eof, FeedOk
    <3> QED BY <2>1, <3>1, <3>2
  <2>3. CASE Oversized
    BY <2>1, <2>3 DEF Oversized, goaway_code
  <2>4. CASE SettingsFrame
    BY <2>1, <2>4 DEF SettingsFrame, goaway_code, outVars, Frame
  <2>5. CASE Ping
    BY <2>1, <2>5 DEF Ping, goaway_code, outVars
  <2> QED BY <1>1, <2>2, <2>3, <2>4, <2>5
<1>2. CASE \E s \in StreamIds : RstStream(s)
  BY <1>2 DEF RstStream, sendVars, outVars, goaway_code
<1>3. CASE \E s \in StreamIds, end, end_headers, padding, fits, decodes \in BOOLEAN :
              HeadersFrame(s, end, end_headers, padding, fits, decodes)
  <2>1. UNCHANGED <<conn_send_window, send, flush>> /\ pc = "frames"
    BY <1>3 DEF HeadersFrame, Frame, sendVars
  <2>2. FeedErr \/ goaway_code \/ UNCHANGED <<pc, goaway_sent>>
    <3>1. PICK s \in StreamIds, end \in BOOLEAN, end_headers \in BOOLEAN, padding \in BOOLEAN,
               fits \in BOOLEAN, decodes \in BOOLEAN :
             HeadersFrame(s, end, end_headers, padding, fits, decodes)
      BY <1>3, Zenon
    <3>2. \/ FeedErr \/ goaway_code
          \/ try_emit(s, NewStream(end)) \/ try_emit(s, Decoded(NewStream(end)))
      BY <3>1, Zenon DEF HeadersFrame
    <3> QED BY <3>2, Zenon DEF try_emit
  <2>3. FeedErr => pc' = "idle" /\ UNCHANGED goaway_sent BY Zenon DEF FeedErr
  <2>4. goaway_code => goaway_sent' BY Zenon DEF goaway_code
  <2> QED BY <2>1, <2>2, <2>3, <2>4
<1>4. CASE \E s \in StreamIds, end_headers, fits, decodes \in BOOLEAN :
              Continuation(s, end_headers, fits, decodes)
  <2>1. UNCHANGED <<conn_send_window, send, flush>> /\ pc = "frames"
    BY <1>4 DEF Continuation, Frame, sendVars
  <2>2. FeedErr \/ goaway_code \/ UNCHANGED <<pc, goaway_sent>>
    <3>1. PICK s \in StreamIds, end_headers \in BOOLEAN, fits \in BOOLEAN, decodes \in BOOLEAN :
             Continuation(s, end_headers, fits, decodes)
      BY <1>4, Zenon
    <3>2. \/ FeedErr \/ goaway_code \/ UNCHANGED <<pc, outVars>>
          \/ \E st : try_emit(s, st)
      BY <3>1, Zenon DEF Continuation
    <3> QED BY <3>2, Zenon DEF try_emit, outVars
  <2>3. FeedErr => pc' = "idle" /\ UNCHANGED goaway_sent BY Zenon DEF FeedErr
  <2>4. goaway_code => goaway_sent' BY Zenon DEF goaway_code
  <2> QED BY <2>1, <2>2, <2>3, <2>4
<1>5. CASE \E s \in StreamIds, n \in Lengths, end, padding \in BOOLEAN : Data(s, n, end, padding)
  <2>1. UNCHANGED <<conn_send_window, send, flush>> /\ pc = "frames"
    <3>1. UNCHANGED <<sendVars, flush>> /\ Frame
      BY <1>5, Zenon DEF Data
    <3> QED BY <3>1 DEF Frame, sendVars
  <2>2. FeedErr \/ goaway_code \/ UNCHANGED <<pc, goaway_sent>>
    <3>1. PICK s \in StreamIds, n \in Lengths, end \in BOOLEAN, padding \in BOOLEAN :
             Data(s, n, end, padding)
      BY <1>5
    <3>2. \/ FeedErr \/ goaway_code
          \/ try_emit(s, [streams[s] EXCEPT !.recv_window = @ - n, !.end_stream = @ \/ end])
      BY <3>1, Zenon DEF Data
    <3> QED BY <3>2, Zenon DEF try_emit
  <2>3. FeedErr => pc' = "idle" /\ UNCHANGED goaway_sent BY Zenon DEF FeedErr
  <2>4. goaway_code => goaway_sent' BY Zenon DEF goaway_code
  <2> QED BY <2>1, <2>2, <2>3, <2>4
<1> QED BY <1>1, <1>2, <1>3, <1>4, <1>5

\* A flush that starts from every body has nothing behind it.
LEMMA FlushStarts ==
    ASSUME flush_all, DOMAIN send' = DOMAIN send
    PROVE  FlushInv'
<1>1. pc' = "flush" /\ flush'.todo = DOMAIN send
  BY Zenon DEF flush_all
<1> QED BY <1>1 DEF FlushInv, InFlush

\* respond flushes the body it adds.
LEMMA RespondFlush ==
    ASSUME TypeOK, FlushInv, NEW n \in Bodies, Respond(n)
    PROVE  FlushInv'
<1> DEFINE s == Head(requests)
           ss == [pending |-> n, window |-> peer_initial_window]
<1>1. /\ pc = "respond" /\ pc' = "flush"
      /\ UNCHANGED <<conn_send_window, goaway_sent>>
      /\ send' = IF n = 0 THEN send ELSE With(send, s, ss)
      /\ flush' = [todo |-> IF n = 0 THEN {} ELSE {s}, cur |-> 0, back |-> "respond"]
  BY ZenonT(30) DEF Respond
<1> HIDE DEF s, ss
<1>2. goaway_sent \/ \A x \in DOMAIN send : Stalled(x)
  BY <1>1, Zenon DEF FlushInv, InFlush
<1>3. InFlush' = (IF n = 0 THEN {} ELSE {s}) \cup {0}
  BY <1>1 DEF InFlush
<1>4. \A x \in DOMAIN send' \ InFlush' : x \in DOMAIN send /\ send'[x] = send[x]
  BY <1>1, <1>3 DEF With
<1> QED BY <1>1, <1>2, <1>4 DEF FlushInv, Stalled

\* A turn of flush_stream's loop leaves a stream only when it is stalled or done.
LEMMA TurnFlush ==
    ASSUME TypeOK, FlushInv, NEW s \in StreamIds, FlushStream(s)
    PROVE  FlushInv'
<1> DEFINE n == Allowed(send[s])
<1>0. SendOK /\ conn_send_window \in Int
  BY Zenon DEF TypeOK, SendOK
<1>1. /\ pc = "flush" /\ pc' = "flush" /\ UNCHANGED goaway_sent
      /\ s \in flush.todo \/ s = flush.cur
      /\ flush.cur = 0 \/ s = flush.cur
  BY Zenon DEF FlushStream
<1>2. s \in DOMAIN send /\ send[s] \in SendState /\ n \in Int
  BY <1>0, FlushSends, AllowedBound, Zenon
<1>3. flush \in [todo : SUBSET DOMAIN send, cur : DOMAIN send \cup {0},
                 back : {"frames", "respond"}] /\ 0 \notin DOMAIN send
  BY DEF TypeOK, PlaceOK, SendOK
<1>4. goaway_sent \/ \A x \in DOMAIN send \ (flush.todo \cup {flush.cur}) : Stalled(x)
  BY <1>1 DEF FlushInv, InFlush
<1>5. CASE n <= 0
  <2>1. /\ UNCHANGED <<conn_send_window, send>>
        /\ flush' = [flush EXCEPT !.todo = @ \ {s}, !.cur = 0]
    BY <1>5 DEF FlushStream
  <2>2. Stalled(s)
    BY <1>0, <1>2, <1>5, AllowedBound DEF Stalled
  <2>3. flush'.todo = flush.todo \ {s} /\ flush'.cur = 0
    BY <1>3, <2>1
  <2> HIDE DEF n
  <2>4. \A x \in DOMAIN send \ InFlush' :
           x = s \/ x \in DOMAIN send \ (flush.todo \cup {flush.cur})
    BY <1>1, <1>3, <2>3 DEF InFlush
  <2> QED BY <1>1, <1>4, <2>1, <2>2, <2>4 DEF FlushInv, Stalled
<1>6. CASE n > 0
  <2>0. ~(n <= 0)
    BY <1>2, <1>6
  <2>1. /\ conn_send_window' = conn_send_window - n
        /\ \A x \in DOMAIN send \ {s} : x \in DOMAIN send' /\ send'[x] = send[x]
        /\ DOMAIN send' = IF n = send[s].pending THEN DOMAIN send \ {s} ELSE DOMAIN send
    BY <1>6, FlushSends, Zenon
  <2>2. flush' = [flush EXCEPT !.todo = @ \ {s}, !.cur = IF Ends(send[s], n) THEN 0 ELSE s]
    BY <2>0, Zenon DEF FlushStream
  <2> HIDE DEF n
  <2>3. /\ flush'.todo = flush.todo \ {s}
        /\ flush'.cur = IF n = send[s].pending THEN 0 ELSE s
    BY <1>3, <2>2 DEF Ends
  <2>4. \A x \in DOMAIN send' \ InFlush' :
           /\ x # s /\ x \in DOMAIN send /\ send'[x] = send[x]
           /\ x \in DOMAIN send \ (flush.todo \cup {flush.cur})
    BY <1>1, <1>3, <2>1, <2>3 DEF InFlush
  <2>5. conn_send_window <= 0 => conn_send_window' <= 0
    BY <1>0, <1>2, <1>6, <2>1
  <2> QED BY <1>1, <1>4, <2>4, <2>5 DEF FlushInv, Stalled
<1> QED BY <1>2, <1>5, <1>6

\* FlushInv is inductive, given the types.
LEMMA NextFlush == ASSUME TypeOK, TypeOK', FlushInv, [Next]_vars PROVE FlushInv'
<1>1. CASE SettingsEnd
  BY <1>1, FlushStarts, Zenon DEF SettingsEnd, sendVars
<1>2. CASE SettingsItem
  <2>1. goaway_sent' \/ pc' = "settings"
    BY <1>2, Zenon DEF SettingsItem, MaxFrameSizeSetting, InitialWindowSetting, goaway_code
  <2> QED BY <2>1, Zenon DEF FlushInv
<1>3. CASE \E s \in StreamIds, inc \in Increments : WindowUpdate(s, inc)
  <2>1. PICK s \in StreamIds, inc \in Increments : WindowUpdate(s, inc)
    BY <1>3, Zenon
  <2>2. CASE BadIncrement(s, inc)
    BY <2>1, <2>2, Zenon DEF WindowUpdate, goaway_code, FlushInv
  <2>3. CASE ~BadIncrement(s, inc)
    <3>1. flush_all /\ DOMAIN send' = DOMAIN send
      BY <2>1, <2>3, Zenon DEF WindowUpdate
    <3> QED BY <3>1, FlushStarts, Zenon
  <2> QED BY <2>2, <2>3, Zenon
<1>4. CASE FlushEnd
  <2>1. /\ pc = "flush" /\ flush.todo = {} /\ flush.cur = 0 /\ pc' # "flush"
        /\ UNCHANGED <<conn_send_window, send, goaway_sent>> /\ 0 \notin DOMAIN send
    BY <1>4, Zenon DEF FlushEnd, sendVars, TypeOK, SendOK
  <2>2. DOMAIN send \ InFlush = DOMAIN send /\ InFlush' = {}
    BY <2>1, Zenon DEF InFlush
  <2> QED BY <2>1, <2>2, Zenon DEF FlushInv, Stalled
<1>5. CASE \E n \in Bodies : Respond(n)
  BY <1>5, RespondFlush, Zenon
<1>6. CASE \E s \in StreamIds : FlushStream(s)
  BY <1>6, TurnFlush, Zenon
<1>7. CASE UNCHANGED vars
  BY <1>7, FlushKept, Zenon DEF vars, sendVars, outVars
<1> QED BY <1>1, <1>2, <1>3, <1>4, <1>5, <1>6, <1>7, ReceiveFlush, FlushKept, Zenon DEF Next

\* No response body that both windows would let through is left behind between
\* two chunks, however credit, settings and answers interleave.
THEOREM NoBodyStalls == Spec => []NoStalledBody
<1>1. Init => FlushInv
  <2> SUFFICES ASSUME Init PROVE FlushInv
    OBVIOUS
  <2>1. \A S : <<>> \in Seq(S)
    OBVIOUS
  <2>2. DOMAIN send = {}
    BY <2>1 DEF Init
  <2> QED BY <2>2 DEF FlushInv
<1>2. TypeOK /\ TypeOK' /\ FlushInv /\ [Next]_vars => FlushInv'
  BY NextFlush
<1>3. FlushInv => NoStalledBody
  BY Zenon DEF FlushInv, NoStalledBody, InFlush, Stalled
<1> QED BY <1>1, <1>2, <1>3, ConnectionTypeCorrect, PTL DEF Spec

-----------------------------------------------------------------------------
(* Answers.  A stream not answered has no frames, so an answer starts with *)
(* its HEADERS; a body that waits belongs to an answered stream.           *)

AnswerInv ==
    /\ 0 \notin DOMAIN body /\ DOMAIN send \subseteq DOMAIN body
    /\ \A s \in DOMAIN body : body[s] \in Nat
    /\ wire \in [StreamIds -> Seq(OutFrame)]
    /\ \A s \in StreamIds \ {0} : s \in DOMAIN body \/ Answer(s) = <<>>
    /\ AnswersWellFormed

\* The answer to s is as it was, or reported lost with its last frames dropped.
KeptOrCut(s) == \/ Answer(s)' = Answer(s)
                \/ s \in lost' /\ Initial(Answer(s)', Answer(s))

\* No body advances and no answer grows.
Unanswered ==
    /\ UNCHANGED body /\ lost \subseteq lost' /\ DOMAIN send' = DOMAIN send
    /\ \A s \in DOMAIN send : send'[s].pending = send[s].pending
    /\ wire' \in [StreamIds -> Seq(OutFrame)]
    /\ \A s \in StreamIds \ {0} : KeptOrCut(s)

\* What a failed feed and a GOAWAY do to the frames not written yet.
LEMMA DroppedOut ==
    ASSUME TypeOK, wire \in [StreamIds -> Seq(OutFrame)], UNCHANGED wire,
           FeedErr \/ goaway_code \/ UNCHANGED outVars
    PROVE  lost \subseteq lost' /\ \A s \in StreamIds \ {0} : KeptOrCut(s)
<1>1. CASE FeedErr
  <2>1. lost \subseteq lost' /\ \A s \in StreamIds : out'[s] = <<>> /\ (out[s] = <<>> \/ s \in lost')
    BY <1>1, Zenon DEF FeedErr, NoFrames
  <2>2. ASSUME NEW s \in StreamIds \ {0} PROVE KeptOrCut(s)
    <3>1. PICK q \in Seq(OutFrame), r \in Seq(OutFrame) : q = wire[s] /\ r = out[s]
      BY Zenon DEF TypeOK, OutOK
    <3>2. Initial(<<>>, r) /\ <<>> \in Seq(OutFrame) BY DEF Initial
    <3>3. Initial(q \o <<>>, q \o r) BY <3>2, JoinInitial, Zenon
    <3> QED BY <2>1, <3>1, <3>3, Zenon DEF KeptOrCut, Answer
  <2> QED BY <2>1, <2>2, Zenon
<1>2. CASE goaway_code
  <2>1. lost' = lost /\ \A s \in StreamIds \ {0} : out'[s] = out[s]
    BY <1>2, Zenon DEF goaway_code, Push, TypeOK, OutOK
  <2> QED BY <2>1, Zenon DEF KeptOrCut, Answer
<1>3. CASE UNCHANGED outVars BY <1>3, Zenon DEF outVars, KeptOrCut, Answer
<1> QED BY <1>1, <1>2, <1>3, Zenon

\* What a write does to them.
LEMMA WrittenOut ==
    ASSUME TypeOK, wire \in [StreamIds -> Seq(OutFrame)], stream_write_all
    PROVE  /\ lost \subseteq lost' /\ wire' \in [StreamIds -> Seq(OutFrame)]
           /\ \A s \in StreamIds \ {0} : KeptOrCut(s)
<1>1. PICK k : /\ k \in [StreamIds -> UNION {0 .. Len(out[s]) : s \in StreamIds}]
               /\ \A s \in StreamIds : k[s] <= Len(out[s])
               /\ wire' = [s \in StreamIds |-> wire[s] \o SubSeq(out[s], 1, k[s])]
               /\ lost' = lost \cup {s \in StreamIds : k[s] < Len(out[s])}
  BY Zenon DEF stream_write_all
<1>2. ASSUME NEW s \in StreamIds
      PROVE  wire'[s] \in Seq(OutFrame) /\ KeptOrCut(s)
  <2>1. PICK q \in Seq(OutFrame), r \in Seq(OutFrame) : q = wire[s] /\ r = out[s]
    BY Zenon DEF TypeOK, OutOK
  <2>2. PICK x \in StreamIds : k[s] \in 0 .. Len(out[x])
    BY <1>1, Zenon
  <2>3. PICK n \in 0 .. Len(r) : n = k[s]
    <3>1. Len(out[x]) \in Nat BY DEF TypeOK, OutOK
    <3> QED BY <1>1, <2>1, <2>2, <3>1
  <2>4. wire'[s] = q \o SubSeq(r, 1, n) /\ out'[s] = <<>> /\ (n < Len(r) => s \in lost')
    BY <1>1, <2>1, <2>3, Zenon DEF stream_write_all, NoFrames
  <2>5. SubSeq(r, 1, n) \in Seq(OutFrame) /\ Initial(SubSeq(r, 1, n), r)
    BY DEF Initial
  <2>6. q \o SubSeq(r, 1, n) \in Seq(OutFrame) /\ Answer(s)' = q \o SubSeq(r, 1, n)
    <3>1. q \o SubSeq(r, 1, n) \in Seq(OutFrame) BY <2>5
    <3>2. \A w \in Seq(OutFrame) : w \o <<>> = w OBVIOUS
    <3> QED BY <2>4, <3>1, <3>2, Zenon DEF Answer
  <2>7. Initial(Answer(s)', Answer(s)) BY <2>1, <2>5, <2>6, JoinInitial, Zenon DEF Answer
  <2>8. CASE n = Len(r)
    <3>1. SubSeq(r, 1, Len(r)) = r OBVIOUS
    <3> QED BY <2>1, <2>4, <2>6, <2>8, <3>1, Zenon DEF KeptOrCut, Answer
  <2>9. CASE n # Len(r)
    <3>1. n < Len(r) BY <2>9
    <3> QED BY <2>4, <2>6, <2>7, <3>1, Zenon DEF KeptOrCut
  <2> QED BY <2>4, <2>6, <2>8, <2>9, Zenon
<1>3. wire' \in [StreamIds -> Seq(OutFrame)] BY <1>1, <1>2, Zenon
<1> QED BY <1>1, <1>2, <1>3, Zenon

\* What a step does to the answers.
LEMMA AnswerSteps ==
    ASSUME TypeOK, wire \in [StreamIds -> Seq(OutFrame)], [Next]_vars
    PROVE  \/ Unanswered
           \/ \E n \in Bodies : Respond(n)
           \/ \E s \in StreamIds : FlushStream(s)
<1>0. OutOK BY Zenon DEF TypeOK
<1>1. ASSUME UNCHANGED <<histVars, sendVars>>, FeedErr \/ goaway_code \/ UNCHANGED outVars
      PROVE  Unanswered
  BY <1>1, DroppedOut, Zenon DEF Unanswered, sendVars, histVars
<1>2. ASSUME UNCHANGED <<histVars, sendVars, lost>>, \A s \in StreamIds \ {0} : out'[s] = out[s]
      PROVE  Unanswered
  BY <1>2, Zenon DEF Unanswered, sendVars, histVars, KeptOrCut, Answer
<1>3. CASE Feed
  <2>1. /\ UNCHANGED <<histVars, sendVars, lost>>
        /\ UNCHANGED out \/ Push(0, Settings)
    BY <1>3, Zenon DEF Feed
  <2>2. \A s \in StreamIds \ {0} : out'[s] = out[s] BY <1>0, <2>1, Zenon DEF Push, OutOK
  <2> QED BY <1>2, <2>1, <2>2, Zenon
<1>4. CASE FeedOk \/ FlushEnd
  <2>1. /\ UNCHANGED <<body, sendVars>>
        /\ stream_write_all \/ UNCHANGED <<out, wire, lost>>
    BY <1>4, Zenon DEF FeedOk, FlushEnd
  <2>2. CASE stream_write_all
    BY <2>1, <2>2, WrittenOut, Zenon DEF Unanswered, sendVars
  <2>3. CASE UNCHANGED <<out, wire, lost>>
    BY <1>2, <2>1, <2>3, Zenon DEF histVars
  <2> QED BY <2>1, <2>2, <2>3, Zenon
<1>5. CASE Eof \/ Oversized \/ SettingsFrame \/ SettingsEnd \/ Ping \/ UNCHANGED vars
  BY <1>1, <1>5, Zenon DEF Eof, Oversized, SettingsFrame, SettingsEnd, Ping, vars
<1>6. CASE SettingsItem
  <2>1. UNCHANGED histVars /\ (goaway_code \/ UNCHANGED outVars)
    BY <1>6, Zenon DEF SettingsItem, MaxFrameSizeSetting, InitialWindowSetting
  <2>2. \/ UNCHANGED send
        \/ \E v \in Windows : send' = [s \in DOMAIN send |->
               [send[s] EXCEPT !.window = @ + (v - peer_initial_window)]]
    BY <1>6, Zenon DEF SettingsItem, MaxFrameSizeSetting, InitialWindowSetting, sendVars
  <2>3. \A s \in DOMAIN send : send[s] \in SendState BY Zenon DEF TypeOK, SendOK
  <2>4. DOMAIN send' = DOMAIN send /\ \A s \in DOMAIN send : send'[s].pending = send[s].pending
    BY <2>2, <2>3 DEF SendState
  <2> QED BY <2>1, <2>4, DroppedOut, Zenon DEF Unanswered, histVars
<1>7. CASE \E s \in StreamIds, inc \in Increments : WindowUpdate(s, inc)
  <2>0. PICK s \in StreamIds, inc \in Increments : WindowUpdate(s, inc) BY <1>7, Zenon
  <2>1. UNCHANGED histVars /\ (goaway_code \/ UNCHANGED outVars) BY <2>0, Zenon DEF WindowUpdate
  <2>2. \/ UNCHANGED send
        \/ send' = [x \in DOMAIN send |->
                      IF x = s THEN [send[x] EXCEPT !.window = @ + inc] ELSE send[x]]
    BY <2>0, Zenon DEF WindowUpdate, sendVars
  <2>3. \A x \in DOMAIN send : send[x] \in SendState BY Zenon DEF TypeOK, SendOK
  <2>4. DOMAIN send' = DOMAIN send /\ \A x \in DOMAIN send : send'[x].pending = send[x].pending
    BY <2>2, <2>3, Zenon DEF SendState
  <2> QED BY <2>1, <2>4, DroppedOut, Zenon DEF Unanswered, histVars
<1>8. CASE \E s \in StreamIds : RstStream(s)
  BY <1>1, <1>8 DEF RstStream
<1>9. ASSUME UNCHANGED <<histVars, sendVars>>, NEW s, NEW st, try_emit(s, st)
      PROVE  Unanswered
  BY <1>2, <1>9, Zenon DEF try_emit
<1>10. CASE \E s \in StreamIds, end, end_headers, padding, fits, decodes \in BOOLEAN :
               HeadersFrame(s, end, end_headers, padding, fits, decodes)
  BY <1>1, <1>9, <1>10 DEF HeadersFrame
<1>11. CASE \E s \in StreamIds, end_headers, fits, decodes \in BOOLEAN :
               Continuation(s, end_headers, fits, decodes)
  BY <1>1, <1>9, <1>11 DEF Continuation
<1>12. CASE \E s \in StreamIds, n \in Lengths, end, padding \in BOOLEAN : Data(s, n, end, padding)
  BY <1>1, <1>9, <1>12 DEF Data
<1> QED BY <1>3, <1>4, <1>5, <1>6, <1>7, <1>8, <1>10, <1>11, <1>12 DEF Next

\* An answer in the next state.
LEMMA NextAnswer ==
    ASSUME \A s \in DOMAIN body' :
               /\ s \in lost' => Fits(Answer(s)', body'[s], Pending(s)')
               /\ s \notin lost' => WellFormed(Answer(s)', body'[s], Pending(s)')
    PROVE  AnswersWellFormed'
<1>1. ASSUME NEW s \in DOMAIN body', s \in lost'
      PROVE  Fits(Answer(s), body[s], Pending(s))'
  <2>1. Fits(Answer(s)', body'[s], Pending(s)') BY <1>1, Zenon
  <2> QED BY <2>1, Zenon DEF Fits, Answer, Pending
<1>2. ASSUME NEW s \in DOMAIN body', s \notin lost'
      PROVE  WellFormed(Answer(s), body[s], Pending(s))'
  <2>1. WellFormed(Answer(s)', body'[s], Pending(s)') BY <1>2, Zenon
  <2> QED BY <2>1, Zenon DEF WellFormed, Answer, Pending
<1> QED BY <1>1, <1>2, Zenon DEF AnswersWellFormed

\* Every answer fits, and its frames are frames.
LEMMA AnswerFits ==
    ASSUME TypeOK, AnswerInv, NEW s \in DOMAIN body
    PROVE  /\ s \in StreamIds \ {0} /\ body[s] \in Nat /\ Pending(s) \in Nat
           /\ Answer(s) \in Seq(OutFrame) /\ Fits(Answer(s), body[s], Pending(s))
<1>1. s \in StreamIds \ {0} /\ body[s] \in Nat BY DEF TypeOK, PlaceOK, AnswerInv
<1>2. Pending(s) \in Nat
  <2>1. s \in DOMAIN send => send[s].pending \in Nat BY DEF TypeOK, SendOK, SendState
  <2> QED BY <2>1 DEF Pending
<1>3. Answer(s) \in Seq(OutFrame)
  <2>1. wire[s] \in Seq(OutFrame) /\ out[s] \in Seq(OutFrame)
    BY <1>1, Zenon DEF AnswerInv, TypeOK, OutOK
  <2> QED BY <2>1 DEF Answer
<1>4. Fits(Answer(s), body[s], Pending(s))
  BY <1>1, <1>2, <1>3, WellFits, Zenon DEF AnswerInv, AnswersWellFormed
<1> QED BY <1>1, <1>2, <1>3, <1>4, Zenon

\* Only the ends of answers reported lost are dropped.
LEMMA UnansweredKept ==
    ASSUME TypeOK, TypeOK', AnswerInv, Unanswered
    PROVE  AnswerInv'
<1>1. /\ body' = body /\ lost \subseteq lost' /\ DOMAIN send' = DOMAIN send
      /\ wire' \in [StreamIds -> Seq(OutFrame)]
      /\ \A s \in StreamIds \ {0} : KeptOrCut(s)
  BY Zenon DEF Unanswered
<1>2. \A s \in StreamIds : Answer(s)' \in Seq(OutFrame)
  <2>1. \A s \in StreamIds : wire'[s] \in Seq(OutFrame) /\ out'[s] \in Seq(OutFrame)
    BY <1>1, Zenon DEF TypeOK, OutOK
  <2> QED BY <2>1 DEF Answer
<1>3. \A s \in StreamIds \ {0} : s \in DOMAIN body' \/ Answer(s)' = <<>>
  <2> TAKE s \in StreamIds \ {0}
  <2>1. CASE s \in DOMAIN body BY <1>1, <2>1, Zenon
  <2>2. CASE Answer(s) = <<>> /\ Answer(s)' = Answer(s) BY <2>2, Zenon
  <2>3. CASE Answer(s) = <<>> /\ Initial(Answer(s)', Answer(s))
    <3>1. PICK w \in Seq(OutFrame) : w = Answer(s)' BY <1>2, Zenon
    <3>2. Len(w) <= Len(<<>>) BY <2>3, <3>1, Zenon DEF Initial
    <3>3. w = <<>> BY <3>2
    <3> QED BY <3>1, <3>3, Zenon
  <2> QED BY <1>1, <2>1, <2>2, <2>3, Zenon DEF AnswerInv, KeptOrCut
<1>4. ASSUME NEW s \in DOMAIN body'
      PROVE  /\ s \in lost' => Fits(Answer(s)', body'[s], Pending(s)')
             /\ s \notin lost' => WellFormed(Answer(s)', body'[s], Pending(s)')
  <2>1. s \in DOMAIN body /\ body'[s] = body[s] BY <1>1, Zenon
  <2>2. Pending(s)' = Pending(s) BY Zenon DEF Pending, Unanswered
  <2>3. /\ s \in StreamIds \ {0} /\ body[s] \in Nat /\ Pending(s) \in Nat
        /\ Answer(s) \in Seq(OutFrame) /\ Fits(Answer(s), body[s], Pending(s))
    BY <2>1, AnswerFits, Zenon
  <2>4. CASE Answer(s)' = Answer(s)
    <3>1. s \notin lost' => WellFormed(Answer(s), body[s], Pending(s))
      BY <1>1, <2>1, Zenon DEF AnswerInv, AnswersWellFormed
    <3> QED BY <2>1, <2>2, <2>3, <2>4, <3>1, Zenon
  <2>5. CASE s \in lost' /\ Initial(Answer(s)', Answer(s))
    <3>1. PICK w \in Seq(OutFrame) : w = Answer(s)' BY <1>2, <2>3, Zenon
    <3>2. Fits(w, body[s], Pending(s)) BY <2>3, <2>5, <3>1, InitialFits, Zenon
    <3> QED BY <2>1, <2>2, <2>5, <3>1, <3>2, Zenon
  <2> QED BY <1>1, <2>3, <2>4, <2>5, Zenon DEF KeptOrCut
<1>5. AnswersWellFormed' BY <1>4, NextAnswer, Zenon
<1> QED BY <1>1, <1>3, <1>5, Zenon DEF AnswerInv

\* A step that concerns the answer to one stream.
LEMMA OneAnswer ==
    ASSUME TypeOK, AnswerInv, UNCHANGED <<wire, lost>>, NEW t \in StreamIds \ {0},
           \A s \in StreamIds \ {t} : out'[s] = out[s],
           DOMAIN body' = DOMAIN body \cup {t}, body'[t] \in Nat,
           \A s \in DOMAIN body \ {t} : body'[s] = body[s],
           DOMAIN send' \subseteq DOMAIN send \cup {t},
           \A s \in DOMAIN send \ {t} : s \in DOMAIN send' /\ send'[s] = send[s],
           t \in lost => Fits(Answer(t)', body'[t], Pending(t)'),
           t \notin lost => WellFormed(Answer(t)', body'[t], Pending(t)')
    PROVE  AnswerInv'
<1>1. ASSUME NEW s \in DOMAIN body'
      PROVE  /\ s \in lost' => Fits(Answer(s)', body'[s], Pending(s)')
             /\ s \notin lost' => WellFormed(Answer(s)', body'[s], Pending(s)')
  <2>0. lost' = lost BY Zenon
  <2>1. CASE s = t
    <3>1. s \in lost => Fits(Answer(s)', body'[s], Pending(s)') BY <2>1
    <3>2. s \notin lost => WellFormed(Answer(s)', body'[s], Pending(s)') BY <2>1
    <3> QED BY <2>0, <3>1, <3>2, Zenon
  <2>2. CASE s # t
    <3>0. DOMAIN body \subseteq StreamIds BY Zenon DEF TypeOK, PlaceOK
    <3>1. s \in DOMAIN body /\ s \in StreamIds BY <2>2, <3>0
    <3>2. Answer(s)' = Answer(s) /\ Pending(s)' = Pending(s) /\ body'[s] = body[s]
      BY <2>2, <3>1, ZenonT(30) DEF Answer, Pending
    <3>3. /\ s \in lost => Fits(Answer(s), body[s], Pending(s))
          /\ s \notin lost => WellFormed(Answer(s), body[s], Pending(s))
      BY <3>1, ZenonT(30) DEF AnswerInv, AnswersWellFormed
    <3> QED BY <2>0, <3>2, <3>3, ZenonT(30)
  <2> QED BY <2>1, <2>2, Zenon
<1>2. AnswersWellFormed' BY <1>1, NextAnswer, Zenon
<1>3. \A s \in DOMAIN body' : body'[s] \in Nat BY ZenonT(30) DEF AnswerInv
<1>4. \A s \in StreamIds \ {0} : s \in DOMAIN body' \/ Answer(s)' = <<>>
  <2> TAKE s \in StreamIds \ {0}
  <2>1. CASE s = t BY <2>1, Zenon
  <2>2. CASE s # t
    <3>1. Answer(s)' = Answer(s) BY <2>2, Zenon DEF Answer
    <3> QED BY <3>1, Zenon DEF AnswerInv
  <2> QED BY <2>1, <2>2, Zenon
<1> QED BY <1>2, <1>3, <1>4, ZenonT(30) DEF AnswerInv

\* respond starts the answer of a stream that had none.
LEMMA RespondAnswers ==
    ASSUME TypeOK, RequestInv, AnswerInv, NEW n \in Bodies, Respond(n)
    PROVE  AnswerInv'
<1>1. requests \in Seq(StreamIds \ {0}) /\ requests # <<>> BY Zenon DEF TypeOK, OutOK, Respond
<1>2. PICK t \in StreamIds \ {0} : t = Head(requests) /\ t = requests[1] /\ 1 \in DOMAIN requests
  BY <1>1
<1>3. t \notin DOMAIN body /\ t \notin DOMAIN send BY <1>2, Zenon DEF RequestInv, AnswerInv
<1>4. wire[t] = <<>> /\ out[t] = <<>>
  <2>1. PICK q \in Seq(OutFrame), r \in Seq(OutFrame) : q = wire[t] /\ r = out[t]
    BY Zenon DEF AnswerInv, TypeOK, OutOK
  <2>2. q \o r = <<>> BY <1>3, <2>1, Zenon DEF AnswerInv, Answer
  <2>3. q = <<>> /\ r = <<>> BY <2>2
  <2> QED BY <2>1, <2>3, Zenon
<1>5. /\ Push(t, Headers(n = 0)) /\ body' = With(body, t, n) /\ UNCHANGED <<wire, lost>>
      /\ send' = IF n = 0 THEN send
                 ELSE With(send, t, [pending |-> n, window |-> peer_initial_window])
  BY <1>2, Zenon DEF Respond
<1>6. n \in Nat BY Http2Assumption
<1>7. /\ out'[t] = Append(<<>>, Headers(n = 0))
      /\ \A s \in StreamIds \ {t} : out'[s] = out[s]
  BY <1>4, <1>5 DEF Push, TypeOK, OutOK
<1>8. /\ DOMAIN body' = DOMAIN body \cup {t} /\ body'[t] = n
      /\ \A s \in DOMAIN body \ {t} : body'[s] = body[s]
  BY <1>5 DEF With
<1>9. /\ DOMAIN send' \subseteq DOMAIN send \cup {t}
      /\ \A s \in DOMAIN send \ {t} : s \in DOMAIN send' /\ send'[s] = send[s]
      /\ (IF t \in DOMAIN send' THEN send'[t].pending ELSE 0) = n
  <2>1. CASE n = 0 BY <1>3, <1>5, <2>1, Zenon
  <2>2. CASE n # 0 BY <1>5, <2>2 DEF With
  <2> QED BY <2>1, <2>2
<1>10. Answer(t)' = <<Headers(n = 0)>>
  <2>1. \A h : <<>> \o Append(<<>>, h) = <<h>> OBVIOUS
  <2> QED BY <1>4, <1>5, <1>7, <2>1, Zenon DEF Answer
<1>11. Pending(t)' = n BY <1>9 DEF Pending
<1>12. WellFormed(Answer(t)', body'[t], Pending(t)')
  BY <1>6, <1>8, <1>10, <1>11, HeadersAlone
<1>13. Fits(Answer(t)', body'[t], Pending(t)')
  <2>1. <<Headers(n = 0)>> \in Seq(OutFrame)
    <3>1. Headers(n = 0) \in OutFrame BY Zenon DEF Headers, OutFrame
    <3> QED BY <3>1
  <2> QED BY <1>6, <1>8, <1>10, <1>11, <1>12, <2>1, WellFits, Zenon
<1> QED BY <1>5, <1>6, <1>7, <1>8, <1>9, <1>12, <1>13, OneAnswer, ZenonT(30)

\* flush_stream adds to an answer a part of what is pending of it.
LEMMA FlushAnswers ==
    ASSUME TypeOK, TypeOK', AnswerInv, NEW s \in StreamIds, FlushStream(s)
    PROVE  AnswerInv'
<1> DEFINE ss == send[s]
<1>1. PICK n : n = Allowed(ss) BY Zenon
<1>2. /\ s \in DOMAIN send /\ ss \in SendState
      /\ n <= 0 => UNCHANGED <<conn_send_window, send, out>>
      /\ n > 0 =>
           /\ out'[s] = Append(out[s], DataFrame(n, n = ss.pending))
           /\ \A x \in DOMAIN send \ {s} : x \in DOMAIN send' /\ send'[x] = send[x]
           /\ DOMAIN send' = IF n = ss.pending THEN DOMAIN send \ {s} ELSE DOMAIN send
           /\ n # ss.pending => send'[s] = [pending |-> ss.pending - n, window |-> ss.window - n]
  BY <1>1, FlushSends, Zenon
<1>3. UNCHANGED histVars /\ UNCHANGED lost BY DEF FlushStream
<1>4. n \in Int /\ n <= ss.pending /\ ss.pending \in Nat \ {0}
  BY <1>1, <1>2, AllowedBound, Zenon DEF TypeOK, SendState
<1>5. CASE n <= 0
  <2>1. UNCHANGED <<send, out, wire, body, lost>> BY <1>2, <1>3, <1>5, Zenon DEF histVars
  <2>2. Unanswered BY <2>1, Zenon DEF Unanswered, KeptOrCut, Answer, AnswerInv
  <2> QED BY <2>2, UnansweredKept, Zenon
<1>6. CASE n > 0
  <2>1. /\ s \in StreamIds \ {0} /\ s \in DOMAIN body /\ body[s] \in Nat
        /\ UNCHANGED <<wire, lost, body>>
    BY <1>2, <1>3 DEF TypeOK, SendOK, AnswerInv, histVars
  <2>2. wire[s] \in Seq(OutFrame) /\ out[s] \in Seq(OutFrame) BY DEF AnswerInv, TypeOK, OutOK
  <2>3. \A x \in StreamIds \ {s} : out'[x] = out[x] BY <1>2 DEF FlushStream, Push, TypeOK, OutOK
  <2>4. Pending(s) = ss.pending /\ Pending(s)' = ss.pending - n
    <3>1. Pending(s) = ss.pending BY <1>2, Zenon DEF Pending
    <3>2. CASE n = ss.pending
      <4>1. s \notin DOMAIN send' BY <1>2, <1>6, <3>2
      <4>2. Pending(s)' = 0 BY <4>1, Zenon DEF Pending
      <4> QED BY <1>4, <3>1, <3>2, <4>2
    <3>3. CASE n # ss.pending
      <4>1. s \in DOMAIN send' /\ send'[s].pending = ss.pending - n BY <1>2, <1>6, <3>3
      <4>2. Pending(s)' = send'[s].pending BY <4>1, Zenon DEF Pending
      <4> QED BY <3>1, <4>1, <4>2
    <3> QED BY <3>2, <3>3
  <2>5. DataFrame(n, n = ss.pending) \in OutFrame
    <3>1. (n = ss.pending) \in BOOLEAN /\ n \in Nat BY <1>4, <1>6
    <3> QED BY <3>1, Zenon DEF DataFrame, OutFrame
  <2>6. /\ Answer(s) \in Seq(OutFrame)
        /\ Answer(s)' = Append(Answer(s), DataFrame(n, n = ss.pending))
    <3>1. PICK f \in OutFrame : f = DataFrame(n, n = ss.pending) BY <2>5, Zenon
    <3>2. out'[s] = Append(out[s], f) /\ wire' = wire BY <1>2, <1>6, <2>1, <3>1, Zenon
    <3>3. wire[s] \o Append(out[s], f) = Append(wire[s] \o out[s], f)
      <4>1. PICK q \in Seq(OutFrame), r \in Seq(OutFrame) : q = wire[s] /\ r = out[s] BY <2>2
      <4>2. q \o Append(r, f) = Append(q \o r, f) BY JoinAppend
      <4> QED BY <4>1, <4>2
    <3>4. Answer(s) \in Seq(OutFrame) BY <2>2 DEF Answer
    <3> QED BY <3>1, <3>2, <3>3, <3>4, Zenon DEF Answer
  <2>7. ASSUME s \notin lost
        PROVE  WellFormed(Answer(s)', body'[s], Pending(s)')
    <3>1. WellFormed(Answer(s), body[s], ss.pending)
      BY <2>1, <2>4, <2>7, Zenon DEF AnswerInv, AnswersWellFormed
    <3>2. n \in 1 .. ss.pending BY <1>4, <1>6
    <3>3. WellFormed(Append(Answer(s), DataFrame(n, n = ss.pending)), body[s], ss.pending - n)
      BY <1>4, <2>1, <2>6, <3>1, <3>2, DataAppended, ZenonT(30)
    <3> QED BY <2>1, <2>4, <2>6, <3>3, ZenonT(30)
  <2>8. ASSUME s \in lost
        PROVE  Fits(Answer(s)', body'[s], Pending(s)')
    <3>1. Fits(Answer(s), body[s], ss.pending)
      BY <2>1, <2>4, <2>8, Zenon DEF AnswerInv, AnswersWellFormed
    <3>2. n \in 1 .. ss.pending BY <1>4, <1>6
    <3>3. Fits(Append(Answer(s), DataFrame(n, n = ss.pending)), body[s], ss.pending - n)
      BY <1>4, <2>1, <2>6, <3>1, <3>2, DataFits, ZenonT(30)
    <3> QED BY <2>1, <2>4, <2>6, <3>3, ZenonT(30)
  <2>9. DOMAIN send' \subseteq DOMAIN send \cup {s} BY <1>2, <1>6, Zenon
  <2>10. DOMAIN body' = DOMAIN body \cup {s} /\ \A x \in DOMAIN body \ {s} : body'[x] = body[x]
    BY <2>1, Zenon
  <2> QED BY <1>2, <1>6, <2>1, <2>3, <2>7, <2>8, <2>9, <2>10, OneAnswer, ZenonT(30)
<1>7. n <= 0 \/ n > 0 BY <1>4
<1> QED BY <1>5, <1>6, <1>7, Zenon

\* Every answer is well formed, for every body, window and frame size, every
\* order in which credit arrives and every cut in what is written: unless it is
\* reported lost no byte of a body is skipped, sent twice or left out before
\* END_STREAM, and what is left of a lost one is in order and ends with it.
THEOREM AnswersAreWellFormed == Spec => []AnswersWellFormed
<1>1. Init => AnswerInv
  <2> SUFFICES ASSUME Init PROVE AnswerInv OBVIOUS
  <2>1. \A S : <<>> \in Seq(S) OBVIOUS
  <2>2. DOMAIN body = {} /\ DOMAIN send = {} BY <2>1 DEF Init
  <2>3. wire \in [StreamIds -> Seq(OutFrame)] BY NoFramesType, Zenon DEF Init
  <2>4. \A s \in StreamIds : wire[s] = <<>> /\ out[s] = <<>> BY Zenon DEF Init, NoFrames
  <2>5. \A s \in StreamIds : Answer(s) = <<>>
    <3>1. <<>> \o <<>> = <<>> OBVIOUS
    <3> QED BY <2>4, <3>1, Zenon DEF Answer
  <2> QED BY <2>2, <2>3, <2>5, Zenon DEF AnswerInv, AnswersWellFormed
<1>2. TypeOK /\ TypeOK' /\ RequestInv /\ AnswerInv /\ [Next]_vars => AnswerInv'
  <2> SUFFICES ASSUME TypeOK, TypeOK', RequestInv, AnswerInv, [Next]_vars PROVE AnswerInv'
    OBVIOUS
  <2>1. wire \in [StreamIds -> Seq(OutFrame)] BY Zenon DEF AnswerInv
  <2> QED BY <2>1, AnswerSteps, UnansweredKept, RespondAnswers, FlushAnswers, Zenon
<1>3. TypeOK /\ RequestInv /\ [Next]_vars => RequestInv' BY NextOnce
<1>4. AnswerInv => AnswersWellFormed BY Zenon DEF AnswerInv
<1> QED BY <1>1, <1>2, <1>3, <1>4, InitOnce, ConnectionTypeCorrect, PTL DEF Spec

=============================================================================
