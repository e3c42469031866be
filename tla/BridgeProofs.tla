---------------------------- MODULE BridgeProofs ----------------------------
(***************************************************************************)
(* Nothing is left over between the two programs, for any capacity of the  *)
(* queue, the sockets and the backlog, any limit of the decoder and any    *)
(* number of faults.                                                       *)
(*                                                                         *)
(* A frame passes the queue, the sender thread, the socket and the         *)
(* receiver; the invariant says that the newest thing anywhere on this way *)
(* is what the fingers do, or the RESET that stands for what was lost.     *)
(***************************************************************************)
EXTENDS Bridge, TLAPS

-----------------------------------------------------------------------------
(* The last element of a sequence stays when the first is taken.           *)

LEMMA LastStays ==
    ASSUME NEW S, NEW s \in Seq(S), s # << >>
    PROVE  /\ Tail(s) = << >> => Head(s) = Last(s)
           /\ Tail(s) # << >> => Last(Tail(s)) = Last(s)
  <1>1. Len(Tail(s)) = Len(s) - 1 /\ Len(s) \in Nat \ {0} /\ Head(s) = s[1]
    OBVIOUS
  <1>2. Tail(s) = << >> <=> Len(Tail(s)) = 0
    <2>1. Tail(s) \in Seq(S)
      OBVIOUS
    <2>2. \A t \in Seq(S) : t = << >> <=> Len(t) = 0
      OBVIOUS
    <2> QED
      BY <2>1, <2>2
  <1>3. CASE Len(s) = 1
    BY <1>1, <1>2, <1>3 DEF Last
  <1>4. CASE Len(s) # 1
    <2>1. Tail(s)[Len(s) - 1] = s[Len(s)]
      BY <1>1, <1>4
    <2> QED
      BY <1>1, <1>2, <1>4, <2>1 DEF Last
  <1> QED
    BY <1>3, <1>4

-----------------------------------------------------------------------------
(* Connections.                                                            *)

\* What TypeOK says of the connections.
LineInv ==
    /\ line \in Seq(Links) /\ Len(line) <= Backlog + 1
    /\ \A i \in DOMAIN line : /\ Len(line[i].data) <= SocketBuffer
                              /\ line[i].end = "live" => sock = "open" /\ i = Len(line)
    /\ sock = "open" => line # << >> /\ Last(line).end = "live"

\* What is on its way on the newest connection.
Newest == Last(line).data

LEMMA LinkType ==
    ASSUME LineInv, NEW i \in DOMAIN line
    PROVE  /\ line[i] \in Links /\ line[i].data \in Seq(Messages)
           /\ line[i].end \in {"live", "fin", "lost"}
           /\ i \in 1..Len(line) /\ Len(line) \in Nat \ {0}
  <1>1. line \in Seq(Links)
    BY DEF LineInv
  <1>2. line[i] \in Links /\ i \in 1..Len(line) /\ Len(line) \in Nat \ {0}
    BY <1>1
  <1> QED
    BY <1>2 DEF Links

LEMMA LastLink ==
    ASSUME LineInv, line # << >>
    PROVE  /\ Len(line) \in DOMAIN line /\ Len(line) \in Nat \ {0}
           /\ Last(line) = line[Len(line)] /\ Head(line) = line[1]
           /\ Last(line) \in Links /\ Newest \in Seq(Messages)
  <1>1. line \in Seq(Links)
    BY DEF LineInv
  <1>2. Len(line) \in DOMAIN line /\ Len(line) \in Nat \ {0}
    BY <1>1
  <1>3. Head(line) = line[1]
    BY <1>1
  <1> QED
    BY <1>2, <1>3, LinkType DEF Last, Newest

\* One connection changes, the others stay.
LEMMA LinkReplaced ==
    ASSUME LineInv, NEW i \in DOMAIN line, NEW link \in Links,
           line' = [line EXCEPT ![i] = link]
    PROVE  /\ line' \in Seq(Links) /\ Len(line') = Len(line)
           /\ DOMAIN line' = DOMAIN line
           /\ \A j \in DOMAIN line : line'[j] = IF j = i THEN link ELSE line[j]
  BY DEF LineInv

\* The first connection is gone.
LEMMA FirstGone ==
    ASSUME LineInv, line # << >>, line' = Tail(line)
    PROVE  /\ line' \in Seq(Links) /\ Len(line') = Len(line) - 1
           /\ \A j \in DOMAIN line' : j + 1 \in DOMAIN line /\ line'[j] = line[j + 1]
           /\ line' # << >> => Last(line') = Last(line)
  <1>1. /\ line' \in Seq(Links) /\ Len(line') = Len(line) - 1
        /\ \A j \in DOMAIN line' : j + 1 \in DOMAIN line /\ line'[j] = line[j + 1]
    BY DEF LineInv
  <1>2. line' # << >> => Last(line') = Last(line)
    BY <1>1 DEF LineInv, Last
  <1> QED
    BY <1>1, <1>2

\* A message is appended to the newest connection, or the socket is not open.
LEMMA SendKeeps ==
    ASSUME LineInv, sock \in SocketStates, NEW m \in Messages, NEW from, NEW to, NEW failed,
           Send(m, from, to, failed)
    PROVE  /\ LineInv' /\ sock' \in SocketStates \ {"none"}
           /\ pc = from /\ pc' \in {to, failed}
           /\ sock' = "open" => /\ sock = "open" /\ pc' = to /\ Len(line') = Len(line)
                                /\ Newest' = Append(Newest, m)
  <1>1. CASE /\ sock = "open" /\ Len(Last(line).data) < SocketBuffer
             /\ SenderGoes(from, to)
             /\ line' = [line EXCEPT ![Len(line)].data = Append(@, m)]
             /\ UNCHANGED sock
    <2> DEFINE n == Len(line)
               link == [line[n] EXCEPT !.data = Append(@, m)]
    <2>1. /\ n \in DOMAIN line /\ line[n] \in Links /\ Last(line) = line[n]
          /\ line[n].data \in Seq(Messages)
      BY <1>1, LastLink, LinkType DEF LineInv
    <2>2. link \in Links /\ link.data = Append(line[n].data, m) /\ link.end = line[n].end
      <3>1. Append(line[n].data, m) \in Seq(Messages)
        BY <2>1
      <3>2. link = [line[n] EXCEPT !.data = Append(line[n].data, m)]
        OBVIOUS
      <3> HIDE DEF n, link
      <3> QED
        BY <2>1, <3>1, <3>2 DEF Links
    <2>3. line' = [line EXCEPT ![n] = link]
      BY <1>1
    <2>4. /\ line' \in Seq(Links) /\ Len(line') = n /\ DOMAIN line' = DOMAIN line
          /\ \A j \in DOMAIN line : line'[j] = IF j = n THEN link ELSE line[j]
      <3> HIDE DEF n, link
      <3> QED
        BY <2>1, <2>2, <2>3, LinkReplaced DEF n
    <2>5. Len(link.data) <= SocketBuffer
      BY <1>1, <2>1, <2>2, CapacityAssumption
    <2>6. LineInv'
      <3>1. sock' = "open" /\ Last(line').end = "live" /\ line' # << >>
        <4>1. line[n].end = "live"
          BY <1>1, <2>1 DEF LineInv
        <4>2. Last(line') = link /\ line' # << >>
          BY <2>1, <2>4 DEF Last
        <4> QED
          BY <1>1, <2>2, <4>1, <4>2
      <3>2. \A j \in DOMAIN line' : /\ Len(line'[j].data) <= SocketBuffer
                                    /\ line'[j].end = "live" => j = Len(line')
        <4> TAKE j \in DOMAIN line'
        <4>1. CASE j = n
          BY <4>1, <2>1, <2>4, <2>5
        <4>2. CASE j # n
          BY <4>2, <2>4 DEF LineInv
        <4> QED
          BY <4>1, <4>2
      <3> HIDE DEF n, link
      <3>3. Len(line') <= Backlog + 1
        BY <2>4 DEF LineInv, n
      <3> QED
        BY <2>4, <3>1, <3>2, <3>3 DEF LineInv
    <2>7. Newest' = Append(Newest, m)
      BY <2>1, <2>2, <2>4 DEF Newest, Last
    <2> QED
      BY <1>1, <2>4, <2>6, <2>7 DEF SenderGoes
  <1>2. CASE sock \in {"orphan", "failing"} /\ SenderGoes(from, to) /\ sock' = "failing"
             /\ UNCHANGED line
    BY <1>2 DEF LineInv, SenderGoes, SocketStates
  <1>3. CASE sock = "broken" /\ SenderGoes(from, failed) /\ UNCHANGED <<sock, line>>
    BY <1>3 DEF LineInv, SenderGoes, SocketStates
  <1> QED
    BY <1>1, <1>2, <1>3 DEF Send

LEMMA CloseKeeps ==
    ASSUME LineInv, Close
    PROVE  /\ LineInv' /\ sock' = "none"
           /\ Len(line') = Len(line)
  <1>1. CASE sock = "open"
    <2> DEFINE n == Len(line)
               link == [line[n] EXCEPT !.end = "fin"]
    <2>1. n \in DOMAIN line /\ line[n] \in Links
      BY <1>1, LastLink, LinkType DEF LineInv
    <2>2. link \in Links /\ link.data = line[n].data /\ link.end = "fin"
      BY <2>1 DEF Links
    <2>3. line' = [line EXCEPT ![n] = link]
      BY <1>1 DEF Close
    <2>4. /\ line' \in Seq(Links) /\ Len(line') = n /\ DOMAIN line' = DOMAIN line
          /\ \A j \in DOMAIN line : line'[j] = IF j = n THEN link ELSE line[j]
      BY <2>1, <2>2, <2>3, LinkReplaced
    <2> QED
      BY <2>1, <2>2, <2>4 DEF LineInv, Close
  <1>2. CASE sock # "open"
    BY <1>2 DEF Close, LineInv
  <1> QED
    BY <1>1, <1>2

\* A new connection is the only live one.
LEMMA ConnectKeeps ==
    ASSUME LineInv, sock = "none", Connect
    PROVE  LineInv' /\ Newest' = << >>
  <1> DEFINE link == [data |-> << >>, end |-> "live"]
  <1>1. /\ line \in Seq(Links) /\ link \in Links /\ Len(line) < Backlog + 1
        /\ line' = Append(line, link) /\ sock' = "open"
    BY LimitAssumption DEF LineInv, Links, Connect, Room
  <1>2. /\ line' \in Seq(Links) /\ Len(line') = Len(line) + 1
        /\ DOMAIN line' = 1..Len(line')
        /\ \A j \in DOMAIN line' : line'[j] = IF j = Len(line') THEN link ELSE line[j]
        /\ \A j \in DOMAIN line' : j = Len(line') \/ j \in DOMAIN line
    BY <1>1
  <1>3. Last(line') = link /\ line' # << >>
    BY <1>2 DEF Last
  <1>4. \A j \in DOMAIN line : line[j].end # "live"
    BY DEF LineInv
  <1>5. Len(link.data) <= SocketBuffer
    BY CapacityAssumption
  <1>6. Len(line') <= Backlog + 1
    BY <1>1, <1>2, LimitAssumption
  <1> QED
    BY <1>1, <1>2, <1>3, <1>4, <1>5, <1>6 DEF LineInv, Newest
\* The receiver takes a message from the first connection.
LEMMA TakeKeeps ==
    ASSUME LineInv, line # << >>, Served.data # << >>,
           line' = [line EXCEPT ![1].data = Tail(@)], UNCHANGED sock
    PROVE  /\ LineInv' /\ Len(line') = Len(line)
           /\ Newest' = IF Len(line) = 1 THEN Tail(Newest) ELSE Newest
  <1> DEFINE link == [line[1] EXCEPT !.data = Tail(@)]
  <1>1. /\ 1 \in DOMAIN line /\ line[1] \in Links /\ Served = line[1]
        /\ line[1].data \in Seq(Messages)
        /\ Len(line) \in DOMAIN line /\ Last(line) = line[Len(line)]
    <2>1. Len(line) \in DOMAIN line /\ Head(line) = line[1] /\ Last(line) = line[Len(line)]
      BY LastLink
    <2>2. 1 \in DOMAIN line
      BY <2>1 DEF LineInv
    <2> QED
      BY <2>1, <2>2, LinkType DEF Served
  <1>2. /\ link.data = Tail(line[1].data) /\ link.end = line[1].end
        /\ link.data \in Seq(Messages) /\ Len(link.data) = Len(line[1].data) - 1
    <2>1. link.data = Tail(line[1].data) /\ link.end = line[1].end
      BY <1>1 DEF Links
    <2> QED
      BY <1>1, <2>1
  <1>3. link \in Links
    BY <1>1, <1>2 DEF Links
  <1>4. line' = [line EXCEPT ![1] = link]
    OBVIOUS
  <1>5. /\ line' \in Seq(Links) /\ Len(line') = Len(line) /\ DOMAIN line' = DOMAIN line
        /\ \A j \in DOMAIN line : line'[j] = IF j = 1 THEN link ELSE line[j]
    BY <1>1, <1>3, <1>4, LinkReplaced
  <1> HIDE DEF link
  <1>6. \A j \in DOMAIN line : /\ line'[j].end = line[j].end
                               /\ Len(line'[j].data) <= SocketBuffer
    <2> TAKE j \in DOMAIN line
    <2>1. CASE j = 1
      <3>1. Len(line[1].data) <= SocketBuffer /\ Len(line[1].data) \in Nat
        BY <1>1 DEF LineInv
      <3>2. line'[j] = link
        BY <2>1, <1>5
      <3>3. Len(link.data) <= SocketBuffer
        BY <1>2, <3>1, CapacityAssumption
      <3> QED
        BY <2>1, <1>2, <3>2, <3>3
    <2>2. CASE j # 1
      BY <2>2, <1>5 DEF LineInv
    <2> QED
      BY <2>1, <2>2
  <1>7. line' # << >> /\ Last(line') = line'[Len(line)] /\ Last(line').end = Last(line).end
    BY <1>1, <1>5, <1>6 DEF Last
  <1>8. LineInv'
    BY <1>5, <1>6, <1>7 DEF LineInv
  <1>9. Newest' = IF Len(line) = 1 THEN Tail(Newest) ELSE Newest
    BY <1>1, <1>2, <1>5, <1>7 DEF Newest
  <1> QED
    BY <1>5, <1>8, <1>9

\* The receiver hangs up: the first connection is gone, also for the Mac.
LEMMA HangUpKeeps ==
    ASSUME LineInv, sock \in SocketStates, line # << >>, HangUp
    PROVE  /\ LineInv' /\ sock' \in SocketStates /\ (sock = "none" => sock' = "none")
           /\ Len(line') = Len(line) - 1
           /\ sock' = "open" => sock = "open" /\ line' # << >> /\ Newest' = Newest
  <1>1. /\ line' \in Seq(Links) /\ Len(line') = Len(line) - 1
        /\ \A j \in DOMAIN line' : j + 1 \in DOMAIN line /\ line'[j] = line[j + 1]
        /\ line' # << >> => Last(line') = Last(line)
    BY FirstGone DEF HangUp
  <1>2. /\ Len(line) \in DOMAIN line /\ Len(line) \in Nat \ {0} /\ Served = line[1]
        /\ Last(line) = line[Len(line)]
    BY LastLink DEF Served
  <1>3. Len(line) \in Nat /\ Len(line) <= Backlog + 1 /\ DOMAIN line' = 1..Len(line')
    BY <1>1, <1>2 DEF LineInv
  <1>4. \A j \in DOMAIN line' :
           /\ Len(line'[j].data) <= SocketBuffer
           /\ line'[j].end = "live" => sock = "open" /\ j = Len(line')
    <2> TAKE j \in DOMAIN line'
    <2>1. /\ Len(line[j + 1].data) <= SocketBuffer
          /\ line[j + 1].end = "live" => sock = "open" /\ j + 1 = Len(line)
      BY <1>1 DEF LineInv
    <2> QED
      BY <1>1, <1>2, <1>3, <2>1
  <1>5. Len(line') <= Backlog + 1
    BY <1>1, <1>3, LimitAssumption
  <1>6. CASE Served.end = "live" /\ sock = "open"
    <2>1. Len(line') = 0
      BY <1>1, <1>2, <1>6 DEF LineInv
    <2>2. sock' \in {"orphan", "failing"}
      BY <1>6 DEF HangUp, SocketLeft
    <2>3. DOMAIN line' = {}
      BY <1>3, <2>1
    <2> QED
      BY <1>1, <1>5, <1>6, <2>2, <2>3 DEF LineInv, SocketStates
  <1>7. CASE Served.end # "live" \/ sock # "open"
    <2>1. sock' = sock
      BY <1>7 DEF HangUp, SocketLeft
    <2>2. sock = "open" => Last(line).end = "live" /\ Len(line) # 1
      BY <1>2, <1>7 DEF LineInv
    <2>3. sock = "open" => line' # << >>
      BY <1>1, <1>2, <2>2
    <2> QED
      BY <1>1, <1>4, <1>5, <2>1, <2>2, <2>3 DEF LineInv, Newest
  <1> QED
    BY <1>6, <1>7

LEMMA StopKeeps ==
    ASSUME sock \in SocketStates, ReceiverStops
    PROVE  /\ LineInv' /\ sock' \in SocketStates \ {"open"}
           /\ (sock = "none" => sock' = "none")
  <1>1. /\ line' = << >> /\ sock' \in SocketStates \ {"open"}
        /\ (sock = "none" => sock' = "none")
    BY DEF ReceiverStops, SocketLeft, SocketStates
  <1> QED
    BY <1>1, LimitAssumption DEF LineInv

\* A path breaks: only a part of what was on its way arrives.
LEMMA PathLostKeeps ==
    ASSUME LineInv, sock \in SocketStates, PathLost
    PROVE  /\ LineInv' /\ sock' \in SocketStates /\ (sock = "none" => sock' = "none")
           /\ Len(line') = Len(line)
           /\ sock' = "open" => sock = "open" /\ Newest' = Newest
  <1>1. PICK i \in DOMAIN line : \E arrived \in Prefixes(line[i].data) :
           /\ line' = [line EXCEPT ![i] = [data |-> arrived, end |-> "lost"]]
           /\ IF line[i].end # "live" THEN UNCHANGED sock
              ELSE IF arrived = line[i].data THEN SocketLeft
              ELSE sock' = "failing"
    BY DEF PathLost
  <1>2. PICK arrived \in Prefixes(line[i].data) :
           /\ line' = [line EXCEPT ![i] = [data |-> arrived, end |-> "lost"]]
           /\ IF line[i].end # "live" THEN UNCHANGED sock
              ELSE IF arrived = line[i].data THEN SocketLeft
              ELSE sock' = "failing"
    BY <1>1
  <1> DEFINE link == [data |-> arrived, end |-> "lost"]
  <1>3. line[i].data \in Seq(Messages) /\ Len(line[i].data) <= SocketBuffer
    BY LinkType DEF LineInv
  <1>4. arrived \in Seq(Messages) /\ Len(arrived) <= SocketBuffer
    <2>1. PICK l \in 0..Len(line[i].data) : arrived = SubSeq(line[i].data, 1, l)
      BY DEF Prefixes
    <2>2. arrived \in Seq(Messages) /\ Len(arrived) = l
      BY <1>3, <2>1
    <2> QED
      BY <1>3, <2>2, CapacityAssumption
  <1>5. link \in Links
    BY <1>4 DEF Links
  <1>6. /\ line' \in Seq(Links) /\ Len(line') = Len(line) /\ DOMAIN line' = DOMAIN line
        /\ \A j \in DOMAIN line : line'[j] = IF j = i THEN link ELSE line[j]
    BY <1>2, <1>5, LinkReplaced
  <1>7. \A j \in DOMAIN line : Len(line'[j].data) <= SocketBuffer
    BY <1>4, <1>6 DEF LineInv
  <1>8. CASE line[i].end = "live"
    <2>1. sock = "open" /\ i = Len(line)
      BY <1>8 DEF LineInv
    <2>2. sock' \in {"orphan", "failing"}
      BY <1>2, <1>8, <2>1 DEF SocketLeft
    <2>3. \A j \in DOMAIN line : line'[j].end # "live"
      BY <1>6, <2>1 DEF LineInv
    <2> QED
      BY <1>6, <1>7, <2>1, <2>2, <2>3 DEF LineInv, SocketStates
  <1>9. CASE line[i].end # "live"
    <2>1. sock' = sock
      BY <1>2, <1>9
    <2>2. \A j \in DOMAIN line : line'[j].end = "live" => line[j].end = "live"
      BY <1>6
    <2>3. sock = "open" => line' # << >> /\ Last(line') = Last(line)
      <3> SUFFICES ASSUME sock = "open" PROVE line' # << >> /\ Last(line') = Last(line)
        OBVIOUS
      <3>1. Len(line) \in DOMAIN line /\ Last(line) = line[Len(line)] /\ line[Len(line)].end = "live"
        BY LastLink DEF LineInv
      <3> QED
        BY <1>6, <1>9, <3>1 DEF Last
    <2> QED
      BY <1>6, <1>7, <2>1, <2>2, <2>3 DEF LineInv, Newest
  <1> QED
    BY <1>8, <1>9
-----------------------------------------------------------------------------
(* The inductive invariant.                                                *)

\* What TypeOK says of the rest.
ScalarInv ==
    /\ fingers \in Frames /\ message \in Frames
    /\ running \in BOOLEAN /\ connected \in BOOLEAN /\ reconnect_requested \in BOOLEAN
    /\ holds \in BOOLEAN /\ host \in BOOLEAN
    /\ queue \in Seq(Frames) /\ Len(queue) <= QueueCapacity
    /\ pc \in {"connect", "opening", "abandon", "open", "loop", "send", "shut", "done"}
    /\ sock \in SocketStates
    /\ rx \in {"down", "accept", "recv"}
    /\ faults \in 0..MaxFaults
    /\ rx = "recv" => line # << >>

\* No socket and no frame survives a session.
SessionInv ==
    /\ pc \in {"connect", "done"} => sock = "none"
    /\ pc \in {"connect", "opening", "abandon", "open", "done"} => ~connected
    /\ ~connected => queue = << >>

\* What a session has sent has been taken only by a receiver that has taken
\* its RESET.
OpeningInv ==
    sock = "open" =>
        /\ pc = "opening" => Newest = << >>
        /\ pc \in {"open", "loop", "send"} /\ Newest = << >> => rx = "recv" /\ Len(line) = 1
        /\ pc = "open" => IF Newest = << >> THEN ~host ELSE Last(Newest) = "reset"

\* The newest thing on the way is what the fingers do, or the RESET.
LatestInv ==
    connected =>
        /\ queue # << >> => Last(queue) = fingers
        /\ queue = << >> /\ pc = "send" => message = fingers
        /\ queue = << >> /\ pc = "loop" /\ sock = "open" =>
              IF Newest = << >> THEN host => fingers = "some"
              ELSE Last(Newest) \in {"reset", fingers}

IInv == ScalarInv /\ LineInv /\ SessionInv /\ OpeningInv /\ LatestInv

LEMMA TypesSplit == TypeOK <=> ScalarInv /\ LineInv
  BY DEF TypeOK, ScalarInv, LineInv

LEMMA InitInv ==
    ASSUME Init
    PROVE  IInv
  <1>1. line = << >> /\ queue = << >> /\ sock = "none" /\ connected = FALSE /\ rx = "accept"
    BY DEF Init
  <1>2. ScalarInv
    <2>1. 0 \in 0..MaxFaults
      BY LimitAssumption
    <2>2. << >> \in Seq(Frames) /\ Len(<< >>) <= QueueCapacity
      BY CapacityAssumption
    <2> QED
      BY <1>1, <2>1, <2>2 DEF Init, ScalarInv, Frames, SocketStates
  <1>3. LineInv
    BY <1>1, LimitAssumption DEF LineInv
  <1>4. SessionInv /\ OpeningInv /\ LatestInv
    BY <1>1 DEF SessionInv, OpeningInv, LatestInv
  <1> QED
    BY <1>2, <1>3, <1>4 DEF IInv

LEMMA StutterInv ==
    ASSUME IInv, UNCHANGED vars
    PROVE  IInv'
  BY DEF vars, agent, receiver, IInv, ScalarInv, LineInv, SessionInv, OpeningInv, LatestInv,
         Newest

-----------------------------------------------------------------------------
(* Every step of the agent keeps it.                                       *)

LEMMA LineKept ==
    ASSUME LineInv, UNCHANGED <<line, sock>>
    PROVE  LineInv' /\ Newest' = Newest
  BY DEF LineInv, Newest

LEMMA ContactFrameInv ==
    ASSUME IInv, NEW f \in Frames, ContactFrame(f)
    PROVE  IInv'
  <1>1. LineInv' /\ Newest' = Newest
    BY LineKept DEF IInv, ContactFrame, FrameIgnored, FrameQueued, FrameOverflows
  <1>2. CASE FrameIgnored(f)
    BY <1>1, <1>2
       DEF FrameIgnored, agent, receiver, IInv, ScalarInv, SessionInv, OpeningInv, LatestInv
  <1>3. CASE FrameQueued(f)
    <2>1. /\ queue' \in Seq(Frames) /\ Len(queue') <= QueueCapacity
          /\ queue' # << >> /\ Last(queue') = f
      BY <1>3, CapacityAssumption DEF FrameQueued, IInv, ScalarInv, Last
    <2>2. ScalarInv' /\ SessionInv' /\ OpeningInv'
      BY <1>1, <1>3, <2>1 DEF FrameQueued, receiver, IInv, ScalarInv, SessionInv, OpeningInv
    <2>3. LatestInv'
      BY <1>3, <2>1 DEF FrameQueued, LatestInv
    <2> QED
      BY <1>1, <2>2, <2>3 DEF IInv
  <1>4. CASE FrameOverflows(f)
    <2>1. queue' = << >> /\ connected' = FALSE
      BY <1>4 DEF FrameOverflows
    <2>2. queue' \in Seq(Frames) /\ Len(queue') <= QueueCapacity
      BY <2>1, CapacityAssumption
    <2>3. ScalarInv'
      BY <1>4, <2>1, <2>2 DEF FrameOverflows, receiver, IInv, ScalarInv
    <2>4. SessionInv' /\ OpeningInv' /\ LatestInv'
      BY <1>1, <1>4, <2>1
         DEF FrameOverflows, receiver, IInv, SessionInv, OpeningInv, LatestInv
    <2> QED
      BY <1>1, <2>3, <2>4 DEF IInv
  <1> QED
    BY <1>2, <1>3, <1>4 DEF ContactFrame

LEMMA ConnectInv ==
    ASSUME IInv, Connect
    PROVE  IInv'
  <1>1. sock = "none"
    BY DEF IInv, SessionInv, Connect, SenderGoes
  <1>2. LineInv' /\ Newest' = << >>
    BY <1>1, ConnectKeeps DEF IInv
  <1>3. line' # << >>
    BY <1>2 DEF Connect, LineInv
  <1> QED
    BY <1>2, <1>3, CapacityAssumption
       DEF Connect, SenderGoes, receiver, SocketStates, IInv, ScalarInv, SessionInv,
           OpeningInv, LatestInv

LEMMA SendOpeningInv ==
    ASSUME IInv, SendOpening
    PROVE  IInv'
  <1>1. /\ LineInv' /\ sock' \in SocketStates \ {"none"}
        /\ pc = "opening" /\ pc' \in {"open", "abandon"}
        /\ sock' = "open" => /\ sock = "open" /\ pc' = "open" /\ Len(line') = Len(line)
                             /\ Newest' = Append(Newest, "reset")
    BY SendKeeps DEF IInv, ScalarInv, SendOpening, Messages
  <1>2. sock' = "open" => Newest' # << >> /\ Last(Newest') = "reset"
    BY <1>1 DEF IInv, OpeningInv, Last
  <1>3. line # << >> => line' # << >>
    BY DEF SendOpening, Send
  <1>4. ScalarInv'
    BY <1>1, <1>3 DEF SendOpening, receiver, IInv, ScalarInv
  <1>5. SessionInv' /\ LatestInv'
    BY <1>1 DEF SendOpening, IInv, SessionInv, LatestInv
  <1>6. OpeningInv'
    BY <1>1, <1>2 DEF OpeningInv
  <1> QED
    BY <1>1, <1>4, <1>5, <1>6 DEF IInv
LEMMA AbandonInv ==
    ASSUME IInv, Abandon
    PROVE  IInv'
  <1>1. LineInv' /\ sock' = "none" /\ Len(line') = Len(line)
    BY CloseKeeps DEF IInv, Abandon
  <1>2. line # << >> => line' # << >>
    BY <1>1 DEF IInv, LineInv
  <1>3. ScalarInv'
    BY <1>1, <1>2 DEF Abandon, SenderGoes, receiver, SocketStates, IInv, ScalarInv
  <1> QED
    BY <1>1, <1>3
       DEF Abandon, SenderGoes, IInv, SessionInv, OpeningInv, LatestInv

LEMMA OpenInv ==
    ASSUME IInv, Open
    PROVE  IInv'
  <1>1. LineInv' /\ Newest' = Newest
    BY LineKept DEF IInv, Open
  <1>2. queue = << >> /\ pc = "open" /\ pc' = "loop"
    BY DEF IInv, SessionInv, Open, SenderGoes
  <1>3. ScalarInv' /\ SessionInv' /\ OpeningInv'
    BY <1>1, <1>2 DEF Open, receiver, IInv, ScalarInv, SessionInv, OpeningInv
  <1>4. LatestInv'
    BY <1>1, <1>2 DEF Open, receiver, IInv, OpeningInv, LatestInv
  <1> QED
    BY <1>1, <1>3, <1>4 DEF IInv

LEMMA PopInv ==
    ASSUME IInv, Pop
    PROVE  IInv'
  <1>1. LineInv' /\ Newest' = Newest
    BY LineKept DEF IInv, Pop
  <1>2. /\ message' \in Frames /\ queue' \in Seq(Frames) /\ Len(queue') <= QueueCapacity
        /\ queue' # << >> => Last(queue') = Last(queue)
        /\ queue' = << >> => message' = Last(queue)
    <2>1. /\ queue \in Seq(Frames) /\ queue # << >> /\ Len(queue) <= QueueCapacity
          /\ message' = Head(queue) /\ queue' = Tail(queue)
      BY DEF Pop, IInv, ScalarInv
    <2>2. message' \in Frames /\ queue' \in Seq(Frames) /\ Len(queue') = Len(queue) - 1
      BY <2>1
    <2>3. Len(queue') <= QueueCapacity
      BY <2>1, <2>2, CapacityAssumption
    <2> QED
      BY <2>1, <2>2, <2>3, LastStays
  <1>3. connected
    BY DEF Pop, IInv, SessionInv
  <1>4. ScalarInv' /\ SessionInv' /\ OpeningInv'
    BY <1>1, <1>2, <1>3 DEF Pop, SenderGoes, receiver, IInv, ScalarInv, SessionInv, OpeningInv
  <1>5. LatestInv'
    BY <1>2, <1>3 DEF Pop, SenderGoes, IInv, LatestInv
  <1> QED
    BY <1>1, <1>4, <1>5 DEF IInv

LEMMA SendFrameInv ==
    ASSUME IInv, SendFrame
    PROVE  IInv'
  <1>1. message \in Messages
    BY DEF IInv, ScalarInv, Messages
  <1>2. /\ LineInv' /\ sock' \in SocketStates \ {"none"}
        /\ pc = "send" /\ pc' \in {"loop", "shut"}
        /\ sock' = "open" => /\ sock = "open" /\ pc' = "loop" /\ Len(line') = Len(line)
                             /\ Newest' = Append(Newest, message)
    BY <1>1, SendKeeps DEF IInv, ScalarInv, SendFrame
  <1>3. sock' = "open" => Newest' # << >> /\ Last(Newest') = message
    <2>1. sock = "open" => Newest \in Seq(Messages)
      BY LastLink DEF IInv, LineInv
    <2> QED
      BY <1>1, <1>2, <2>1 DEF Last
  <1>4. line # << >> => line' # << >>
    BY DEF SendFrame, Send
  <1>5. ScalarInv'
    BY <1>2, <1>4 DEF SendFrame, receiver, IInv, ScalarInv, Frames
  <1>6. SessionInv' /\ OpeningInv'
    BY <1>2, <1>3 DEF SendFrame, IInv, SessionInv, OpeningInv
  <1>7. LatestInv'
    BY <1>2, <1>3 DEF SendFrame, IInv, LatestInv
  <1> QED
    BY <1>2, <1>5, <1>6, <1>7 DEF IInv

LEMMA LeaveInv ==
    ASSUME IInv, Leave
    PROVE  IInv'
  <1>1. LineInv' /\ Newest' = Newest
    BY LineKept DEF IInv, Leave
  <1> QED
    BY <1>1
       DEF Leave, SenderGoes, receiver, IInv, ScalarInv, SessionInv, OpeningInv, LatestInv

LEMMA ShutInv ==
    ASSUME IInv, Shut
    PROVE  IInv'
  <1>1. LineInv' /\ sock' = "none" /\ Len(line') = Len(line)
    BY CloseKeeps DEF IInv, Shut
  <1>2. line # << >> => line' # << >>
    BY <1>1 DEF IInv, LineInv
  <1>3. queue' \in Seq(Frames) /\ Len(queue') <= QueueCapacity
    BY CapacityAssumption DEF Shut
  <1>4. ScalarInv'
    BY <1>1, <1>2, <1>3 DEF Shut, SenderGoes, receiver, SocketStates, IInv, ScalarInv
  <1> QED
    BY <1>1, <1>4
       DEF Shut, SenderGoes, IInv, SessionInv, OpeningInv, LatestInv

LEMMA ExitInv ==
    ASSUME IInv, Exit
    PROVE  IInv'
  <1>1. LineInv' /\ Newest' = Newest
    BY LineKept DEF IInv, Exit
  <1> QED
    BY <1>1
       DEF Exit, SenderGoes, receiver, IInv, ScalarInv, SessionInv, OpeningInv, LatestInv

LEMMA StopAgentInv ==
    ASSUME IInv, stop_agent
    PROVE  IInv'
  <1>1. LineInv' /\ Newest' = Newest
    BY LineKept DEF IInv, stop_agent
  <1>2. ScalarInv' /\ SessionInv'
    BY DEF stop_agent, receiver, IInv, ScalarInv, SessionInv
  <1>3. OpeningInv' /\ LatestInv'
    BY <1>1 DEF stop_agent, receiver, IInv, OpeningInv, LatestInv
  <1> QED
    BY <1>1, <1>2, <1>3 DEF IInv

-----------------------------------------------------------------------------
(* Every step of the receiver and of the network keeps it.                 *)

LEMMA AcceptInv ==
    ASSUME IInv, Accept \/ Start
    PROVE  IInv'
  <1>1. LineInv' /\ Newest' = Newest
    BY LineKept DEF IInv, Accept, Start
  <1> QED
    BY <1>1
       DEF Accept, Start, agent, IInv, ScalarInv, SessionInv, OpeningInv, LatestInv

\* The last message of the newest connection is the newest on the way.
LEMMA ReceiveInv ==
    ASSUME IInv, Receive
    PROVE  IInv'
  <1>1. rx = "recv" /\ line # << >> /\ Served.data # << >>
    BY DEF Receive, Reading, IInv, ScalarInv
  <1>2. /\ LineInv' /\ Len(line') = Len(line)
        /\ Newest' = IF Len(line) = 1 THEN Tail(Newest) ELSE Newest
    BY <1>1, TakeKeeps DEF IInv, Receive
  <1>3. /\ Newest \in Seq(Messages) /\ Head(line) = line[1] /\ Last(line) = line[Len(line)]
        /\ Len(line) \in Nat \ {0}
    BY <1>1, LastLink DEF IInv
  <1>4. Len(line) = 1 => Newest = Served.data
    BY <1>3 DEF Newest, Served
  <1>5. line' # << >>
    BY <1>2, <1>3 DEF LineInv
  <1>6. holds' \in BOOLEAN /\ host' = holds'
    BY DEF Receive
  <1>7. ScalarInv' /\ SessionInv'
    BY <1>5, <1>6 DEF Receive, agent, IInv, ScalarInv, SessionInv
  <1>8. CASE Len(line) # 1
    <2>1. Newest' = Newest /\ Len(line') = Len(line)
      BY <1>2, <1>8
    <2>2. sock = "open" /\ pc \in {"open", "loop", "send"} => Newest # << >>
      BY <1>8 DEF IInv, OpeningInv
    <2>3. OpeningInv' /\ LatestInv'
      BY <2>1, <2>2 DEF Receive, agent, IInv, OpeningInv, LatestInv
    <2> QED
      BY <1>2, <1>7, <2>3 DEF IInv
  <1>9. CASE Len(line) = 1
    <2>1. /\ Newest' = Tail(Newest) /\ Newest # << >>
          /\ host' = (Head(Newest) = "some")
      BY <1>1, <1>2, <1>4, <1>9 DEF Receive
    <2>2. /\ Newest' = << >> => Head(Newest) = Last(Newest)
          /\ Newest' # << >> => Last(Newest') = Last(Newest)
      BY <1>3, <2>1, LastStays
    <2>3. OpeningInv'
      BY <1>1, <1>2, <1>9, <2>1, <2>2 DEF Receive, agent, IInv, OpeningInv
    <2>4. LatestInv'
      BY <2>1, <2>2 DEF Receive, agent, IInv, LatestInv
    <2> QED
      BY <1>2, <1>7, <2>3, <2>4 DEF IInv
  <1> QED
    BY <1>8, <1>9

LEMMA OnTimeoutInv ==
    ASSUME IInv, OnTimeout
    PROVE  IInv'
  <1>1. LineInv' /\ Newest' = Newest
    BY LineKept DEF IInv, OnTimeout
  <1> QED
    BY <1>1
       DEF OnTimeout, Release, agent, IInv, ScalarInv, SessionInv, OpeningInv, LatestInv

LEMMA HangUpInv ==
    ASSUME IInv, HangUp, rx = "recv", Served.data # << >> \/ Served.end # "live"
    PROVE  IInv'
  <1>1. line # << >>
    BY DEF IInv, ScalarInv
  <1>2. /\ LineInv' /\ sock' \in SocketStates /\ (sock = "none" => sock' = "none")
        /\ Len(line') = Len(line) - 1
        /\ sock' = "open" => sock = "open" /\ line' # << >> /\ Newest' = Newest
    BY <1>1, HangUpKeeps DEF IInv, ScalarInv
  <1>3. ScalarInv' /\ SessionInv'
    BY <1>2 DEF HangUp, agent, IInv, ScalarInv, SessionInv
  <1>4. sock' = "open" => Len(line) # 1
    <2>1. Len(line) \in Nat /\ line' \in Seq(Links)
      BY <1>2 DEF IInv, LineInv
    <2>2. line' # << >> => Len(line') # 0
      BY <2>1
    <2> QED
      BY <1>2, <2>1, <2>2
  <1>5. sock' = "open" /\ pc \in {"open", "loop", "send"} => Newest # << >>
    BY <1>2, <1>4 DEF IInv, OpeningInv
  <1>6. OpeningInv' /\ LatestInv'
    BY <1>2, <1>5 DEF HangUp, agent, IInv, OpeningInv, LatestInv
  <1> QED
    BY <1>2, <1>3, <1>6 DEF IInv

LEMMA ReceiverStopsInv ==
    ASSUME IInv, ReceiverStops
    PROVE  IInv'
  <1>1. /\ LineInv' /\ sock' \in SocketStates \ {"open"}
        /\ (sock = "none" => sock' = "none")
    BY StopKeeps DEF IInv, ScalarInv
  <1>2. faults' \in 0..MaxFaults
    BY LimitAssumption DEF ReceiverStops, Fault, IInv, ScalarInv
  <1>3. ScalarInv'
    BY <1>1, <1>2 DEF ReceiverStops, agent, IInv, ScalarInv
  <1> QED
    BY <1>1, <1>3 DEF ReceiverStops, agent, IInv, SessionInv, OpeningInv, LatestInv

LEMMA PathLostInv ==
    ASSUME IInv, PathLost
    PROVE  IInv'
  <1>1. /\ LineInv' /\ sock' \in SocketStates /\ (sock = "none" => sock' = "none")
        /\ Len(line') = Len(line)
        /\ sock' = "open" => sock = "open" /\ Newest' = Newest
    BY PathLostKeeps DEF IInv, ScalarInv
  <1>2. UNCHANGED <<fingers, agent, receiver>> /\ faults < MaxFaults /\ faults' = faults + 1
    BY DEF PathLost, Fault
  <1>3. faults' \in 0..MaxFaults
    BY <1>2, LimitAssumption DEF IInv, ScalarInv
  <1>4. line # << >> => line' # << >>
    BY <1>1 DEF IInv, LineInv
  <1>5. ScalarInv'
    BY <1>1, <1>2, <1>3, <1>4 DEF agent, receiver, IInv, ScalarInv
  <1> QED
    BY <1>1, <1>2, <1>5 DEF agent, receiver, IInv, SessionInv, OpeningInv, LatestInv

LEMMA SocketBreaksInv ==
    ASSUME IInv, SocketBreaks
    PROVE  IInv'
  <1>1. LineInv'
    BY DEF SocketBreaks, IInv, LineInv
  <1> QED
    BY <1>1
       DEF SocketBreaks, SocketStates, agent, receiver, IInv, ScalarInv, SessionInv,
           OpeningInv, LatestInv
-----------------------------------------------------------------------------
(* Theorems.                                                               *)

LEMMA ReceiverHangsUpInv ==
    ASSUME IInv, EndOfStream \/ RefuseBurst \/ RefuseFrame
    PROVE  IInv'
  BY HangUpInv DEF EndOfStream, RefuseBurst, RefuseFrame, Reading

LEMMA NextInv ==
    ASSUME IInv, Next
    PROVE  IInv'
  <1>1. CASE Sender
    BY <1>1, ConnectInv, SendOpeningInv, AbandonInv, OpenInv, PopInv, SendFrameInv, LeaveInv,
       ShutInv, ExitInv DEF Sender
  <1>2. CASE ReceiverStep
    BY <1>2, AcceptInv, ReceiveInv, OnTimeoutInv, ReceiverHangsUpInv DEF ReceiverStep
  <1> QED
    BY <1>1, <1>2, ContactFrameInv, StopAgentInv, ReceiverStopsInv, PathLostInv,
       SocketBreaksInv DEF Next

(* The inductive invariant of the two programs and their connections: only *)
(* the newest connection can be live, no frame survives a session, and the *)
(* newest thing between trackpad and screen is what the fingers do, or the *)
(* RESET that stands for what an overflow or a broken path has lost        *)
(* (main.c:167-176, 310-348).                                              *)
THEOREM BridgeInvariant == Spec => []IInv
  <1>1. Init => IInv
    BY InitInv
  <1>2. IInv /\ [Next]_vars => IInv'
    BY NextInv, StutterInv
  <1> QED
    BY <1>1, <1>2, PTL DEF Spec

(* Every variable has its type, at most Backlog connections wait behind    *)
(* the accepted one, none holds more than its socket, and only the newest  *)
(* is live, for as long as the Mac's socket is open (main.c:267-348,       *)
(* main.cpp:76-113).                                                       *)
THEOREM TypeCorrect == Spec => []TypeOK
  <1>1. IInv => TypeOK
    BY TypesSplit DEF IInv
  <1> QED
    BY <1>1, BridgeInvariant, PTL

(* Nothing is left over, for any capacities and any number of broken paths *)
(* and restarts: once everything that was sent has been taken, Windows     *)
(* sees a contact only if a finger is down (main.c:171-173, 319-329,       *)
(* 342-343).                                                               *)
THEOREM NoLeftOvers == Spec => []NothingLeftOver
  <1>1. IInv => NothingLeftOver
    <2> SUFFICES ASSUME IInv, pc = "loop", connected, queue = << >>, Len(line) = 1,
                        Served = [data |-> << >>, end |-> "live"], host
                 PROVE  fingers = "some"
      BY DEF NothingLeftOver
    <2>1. 1 \in DOMAIN line /\ Head(line) = line[1] /\ Last(line) = line[1]
      BY DEF IInv, LineInv, Last
    <2>2. line[1].end = "live" /\ Newest = << >>
      BY <2>1 DEF Served, Newest
    <2>3. sock = "open"
      BY <2>1, <2>2 DEF IInv, LineInv
    <2> QED
      BY <2>2, <2>3 DEF IInv, LatestInv
  <1> QED
    BY <1>1, BridgeInvariant, PTL
=============================================================================
