-------------------------- MODULE WebSocketProofs --------------------------
(* Theorems about WebSocketConnection for every set of connections and     *)
(* every number of frames, and about FrameCodec for every message, masking *)
(* key and buffer.                                                         *)
EXTENDS FrameCodec, ExtremaLemmas, SequenceTheorems, TLAPS

-----------------------------------------------------------------------------
(* Types.  That references never go below zero is not a matter of types:   *)
(* it follows from the invariant below.                                    *)

Types ==
    /\ running \in {Idle} \union (Connection \X Hook)
    /\ conn \in [Connection -> {"http", "handshake", "refused", "open", "closed"}]
    /\ rfc6455 \in [Connection -> BOOLEAN] /\ evcon \in [Connection -> BOOLEAN]
    /\ refs \in [Connection -> Int] /\ kept \subseteq Connection
    /\ reading \in [Connection -> BOOLEAN] /\ writing \in [Connection -> BOOLEAN]
    /\ input \in [Connection -> Seq(PeerFrame)]
    /\ output \in [Connection -> Seq(Frame)]
    /\ wire \in [Connection -> Frame \union {"none"}]
    /\ sends \in [Connection -> Nat] /\ received \in [Connection -> Nat]
    /\ last \in [Connection -> Hook \union {"none"}] /\ threw \subseteq Connection

\* Running a hook of c is being on c and on no other connection.
LEMMA HookOn ==
    ASSUME NEW c \in Connection, NEW h \in Hook
    PROVE  <<c, h>> # Idle /\ <<c, h>>[1] = c /\ <<c, h>>[2] = h
BY DEF Idle

\* Appending a frame to an output buffer keeps its type and its first frame.
LEMMA AppendFrame ==
    ASSUME NEW s \in Seq(Frame), NEW f \in Frame
    PROVE  /\ Append(s, f) \in Seq(Frame) /\ Append(s, f) # <<>>
           /\ Head(Append(s, f)) = IF s = <<>> THEN f ELSE Head(s)
<1>1. CASE s = <<>>
  BY <1>1
<1>2. CASE s # <<>>
  BY <1>2
<1> QED
  BY <1>1, <1>2

\* What is left of an output buffer of which n frames were written.
LEMMA DrainFrames ==
    ASSUME NEW s \in Seq(Frame), s # <<>>, NEW n \in 1..Len(s)
    PROVE  /\ SubSeq(s, n + 1, Len(s)) \in Seq(Frame)
           /\ SubSeq(s, n + 1, Len(s)) = <<>> <=> n = Len(s)
           /\ Head(s) \in Frame
<1> DEFINE t == SubSeq(s, n + 1, Len(s))
<1>1. t \in Seq(Frame)
  OBVIOUS
<1>2. Len(t) = Len(s) - n
  OBVIOUS
<1>3. t = <<>> <=> n = Len(s)
  <2> HIDE DEF t
  <2>1. t = <<>> <=> Len(t) = 0
    BY <1>1
  <2> QED
    BY <1>2, <2>1
<1>4. Head(s) \in Frame
  OBVIOUS
<1> QED
  BY <1>1, <1>3, <1>4

\* Calling a hook keeps the types of what it changes.
LEMMA CallType ==
    ASSUME Types, NEW c \in Connection, NEW h \in Hook, Call(c, h)
    PROVE  /\ running' \in {Idle} \union (Connection \X Hook)
           /\ last' \in [Connection -> Hook \union {"none"}]
BY DEF Types, Call

\* Queueing a frame keeps the types of the buffer and of its directions.
LEMMA WriteFrameType ==
    ASSUME Types, NEW c \in Connection, NEW f \in Frame, WriteFrame(c, f)
    PROVE  /\ reading' \in [Connection -> BOOLEAN] /\ writing' \in [Connection -> BOOLEAN]
           /\ output' \in [Connection -> Seq(Frame)]
BY AppendFrame DEF Types, WriteFrame

\* The 101 response and the call of afterHandshake keep all types.
LEMMA UpgradeType ==
    ASSUME Types, NEW c \in Connection, NEW n \in Int, Upgrade(c, n)
    PROVE  Types'
<1>1. running' \in {Idle} \union (Connection \X Hook) /\ last' \in [Connection -> Hook \union {"none"}]
  BY CallType DEF Types, Upgrade, Hook
<1>2. output' \in [Connection -> Seq(Frame)]
  <2>1. Append(output[c], "101") \in Seq(Frame)
    BY AppendFrame DEF Types, Frame
  <2> QED
    BY <2>1 DEF Types, Upgrade
<1>3. refs' \in [Connection -> Int]
  BY DEF Types, Upgrade
<1>4. rfc6455' \in [Connection -> BOOLEAN]
  BY DEF Types, Upgrade
<1> QED
  BY <1>1, <1>2, <1>3, <1>4 DEF Types, Upgrade, countVars

\* A refused handshake keeps all types.
LEMMA RefuseType ==
    ASSUME Types, NEW c \in Connection, NEW n \in Int, Refuse(c, n)
    PROVE  Types'
BY DEF Types, Refuse, bufferVars, countVars, historyVars

\* The release of a connection keeps all types.
LEMMA ClosedType ==
    ASSUME Types, NEW c \in Connection, NEW n \in Int, Closed(c, n),
           running' \in {Idle} \union (Connection \X Hook),
           last' \in [Connection -> Hook \union {"none"}]
    PROVE  Types'
<1>1. input' \in [Connection -> Seq(PeerFrame)] /\ output' \in [Connection -> Seq(Frame)]
  <2>1. <<>> \in Seq(PeerFrame) /\ <<>> \in Seq(Frame)
    OBVIOUS
  <2> QED
    BY <2>1 DEF Types, Closed
<1>2. /\ evcon' \in [Connection -> BOOLEAN] /\ refs' \in [Connection -> Int]
      /\ reading' \in [Connection -> BOOLEAN] /\ writing' \in [Connection -> BOOLEAN]
  BY DEF Types, Closed
<1>3. conn' \in [Connection -> {"http", "handshake", "refused", "open", "closed"}]
  BY DEF Types, Closed
<1> QED
  BY <1>1, <1>2, <1>3 DEF Types, Closed, countVars

\* Every step keeps the types: one case for each action.
LEMMA TypesStep ==
    ASSUME Types, [Next]_vars
    PROVE  Types'
<1> USE DEF bufferVars, countVars, historyVars
<1>1. CASE UNCHANGED vars
  BY <1>1 DEF Types, vars
<1>2. ASSUME NEW c \in Connection, Handshake(c) PROVE Types'
  <2>1. CASE c \in Plain
    BY <1>2, <2>1, UpgradeType, RefuseType DEF Handshake
  <2>2. CASE c \notin Plain
    <3>1. "beforeHandshake" \in Hook
      BY DEF Hook
    <3>2. Call(c, "beforeHandshake")
      BY <1>2, <2>2 DEF Handshake
    <3>3. /\ running' \in {Idle} \union (Connection \X Hook)
          /\ last' \in [Connection -> Hook \union {"none"}]
      BY <3>1, <3>2, CallType
    <3>4. /\ conn' = [conn EXCEPT ![c] = "handshake"] /\ refs' = [refs EXCEPT ![c] = 2]
          /\ UNCHANGED <<rfc6455, evcon, kept, bufferVars, input, wire, countVars, threw>>
      BY <1>2, <2>2 DEF Handshake
    <3>5. /\ conn' \in [Connection -> {"http", "handshake", "refused", "open", "closed"}]
          /\ refs' \in [Connection -> Int]
      BY <3>4 DEF Types
    <3> QED
      BY <3>3, <3>4, <3>5 DEF Types
  <2> QED
    BY <2>1, <2>2
<1>3. ASSUME NEW c \in Connection, ReadReady(c) PROVE Types'
  <2> DEFINE op == Opcode(c, input[c])
  <2>1. /\ input' \in [Connection -> Seq(PeerFrame)]
        /\ UNCHANGED <<conn, rfc6455, evcon, kept, wire, countVars, threw>>
    BY <1>3 DEF Types, ReadReady
  <2>2. CASE op \in {"close", "ping"} /\ WriteFrame(c, op) /\ UNCHANGED <<running, refs, last>>
    <3>1. op \in Frame
      BY <2>2 DEF Frame
    <3> HIDE DEF op
    <3> QED
      BY <2>1, <2>2, <3>1, WriteFrameType DEF Types
  <2>3. CASE refs' = [refs EXCEPT ![c] = @ + 1] /\ Call(c, "onMessage") /\ UNCHANGED bufferVars
    <3>1. "onMessage" \in Hook
      BY DEF Hook
    <3> QED
      BY <2>1, <2>3, <3>1, CallType DEF Types
  <2>4. CASE UNCHANGED <<running, refs, last, bufferVars>>
    BY <2>1, <2>4 DEF Types
  <2> QED
    BY <1>3, <2>2, <2>3, <2>4 DEF ReadReady
<1>4. ASSUME NEW c \in Connection, WriteReady(c) PROVE Types'
  <2>1. PICK n \in 1..Len(output[c]) :
          /\ wire' = [wire EXCEPT ![c] = IF @ = "none" THEN Head(output[c]) ELSE @]
          /\ output' = [output EXCEPT ![c] = SubSeq(@, n + 1, Len(@))]
          /\ writing' = [writing EXCEPT ![c] = n < Len(output[c])]
          /\ reading' = [reading EXCEPT ![c] = @ \/ n = Len(output[c])]
    BY <1>4 DEF WriteReady
  <2>2. SubSeq(output[c], n + 1, Len(output[c])) \in Seq(Frame) /\ Head(output[c]) \in Frame
    BY <1>4, DrainFrames DEF Types, WriteReady
  <2>3. wire' \in [Connection -> Frame \union {"none"}] /\ output' \in [Connection -> Seq(Frame)]
    BY <2>1, <2>2 DEF Types
  <2>4. writing' \in [Connection -> BOOLEAN] /\ reading' \in [Connection -> BOOLEAN]
    BY <2>1 DEF Types
  <2> QED
    BY <1>4, <2>3, <2>4 DEF Types, WriteReady
<1>5. ASSUME NEW c \in Connection, ConnectionFails(c) PROVE Types'
  <2>1. CASE c \in Plain
    <3>1. Closed(c, 1) /\ UNCHANGED <<running, last>>
      BY <1>5, <2>1 DEF ConnectionFails
    <3>2. /\ running' \in {Idle} \union (Connection \X Hook)
          /\ last' \in [Connection -> Hook \union {"none"}]
      BY <3>1 DEF Types
    <3> QED
      BY <3>1, <3>2, ClosedType
  <2>2. CASE c \notin Plain
    <3>1. "onClose" \in Hook
      BY DEF Hook
    <3> QED
      BY <1>5, <2>2, <3>1, CallType DEF Types, ConnectionFails
  <2> QED
    BY <2>1, <2>2
<1>6. ASSUME NEW c \in Connection, HookReturns(c) PROVE Types'
  <2>1. CASE BeforeReturns(c)
    BY <2>1, UpgradeType, RefuseType DEF BeforeReturns
  <2>2. CASE AfterReturns(c)
    BY <2>2 DEF Types, AfterReturns
  <2>3. CASE AfterThrows(c)
    <3>1. /\ reading' \in [Connection -> BOOLEAN] /\ writing' \in [Connection -> BOOLEAN]
          /\ output' \in [Connection -> Seq(Frame)]
      <4>1. CASE WriteFrame(c, "close")
        BY <4>1, WriteFrameType DEF Frame
      <4>2. CASE UNCHANGED bufferVars
        BY <4>2 DEF Types
      <4> QED
        BY <2>3, <4>1, <4>2 DEF AfterThrows
    <3>2. /\ running' = Idle /\ refs' = [refs EXCEPT ![c] = @ - 1]
          /\ UNCHANGED <<conn, rfc6455, evcon, kept, input, wire, countVars, historyVars>>
      BY <2>3 DEF AfterThrows
    <3> QED
      BY <3>1, <3>2 DEF Types
  <2>4. CASE MessageReturns(c)
    BY <2>4 DEF Types, MessageReturns
  <2>5. CASE MessageThrows(c)
    BY <2>5, WriteFrameType DEF Types, MessageThrows, Frame
  <2>6. CASE CloseReturns(c)
    <3>1. Closed(c, 2) /\ running' = Idle /\ last' = last
      BY <2>6 DEF CloseReturns
    <3>2. /\ running' \in {Idle} \union (Connection \X Hook)
          /\ last' \in [Connection -> Hook \union {"none"}]
      BY <3>1 DEF Types
    <3> QED
      BY <3>1, <3>2, ClosedType
  <2> QED
    BY <1>6, <2>1, <2>2, <2>3, <2>4, <2>5, <2>6 DEF HookReturns
<1>7. ASSUME NEW c \in Connection, UserCall(c) PROVE Types'
  <2>1. ASSUME NEW f \in {"text", "close"}, UserSends(c, f) PROVE Types'
    <3>1. f \in Frame
      BY DEF Frame
    <3>2. sends' \in [Connection -> Nat]
      BY <2>1, BoundsAssumption DEF Types, UserSends
    <3> QED
      BY <2>1, <3>1, <3>2, WriteFrameType DEF Types, UserSends
  <2>2. CASE KeepContext(c)
    BY <2>2 DEF Types, KeepContext
  <2>3. CASE DropContext(c)
    BY <2>3 DEF Types, DropContext
  <2> QED
    BY <1>7, <2>1, <2>2, <2>3 DEF UserCall
<1>8. ASSUME NEW c \in Connection, NEW f \in PeerFrame, PeerSends(c, f) PROVE Types'
  <2>1. received' \in [Connection -> Nat]
    BY <1>8, BoundsAssumption DEF Types, PeerSends
  <2>2. input' \in [Connection -> Seq(PeerFrame)]
    BY <1>8 DEF Types, PeerSends
  <2> QED
    BY <1>8, <2>1, <2>2 DEF Types, PeerSends
<1> QED
  BY <1>1, <1>2, <1>3, <1>4, <1>5, <1>6, <1>7, <1>8 DEF Next

-----------------------------------------------------------------------------
(* The invariant, for one connection: which hook runs goes with how far    *)
(* the connection is, and before the upgrade nothing is queued and the     *)
(* object is known to nobody but the hook.                                 *)

HookFits(c) ==
    On(c) => /\ conn[c] = IF running[2] = "beforeHandshake" THEN "handshake" ELSE "open"
             /\ c \in Plain => running[2] = "onMessage"
Untouched(c) ==
    /\ conn[c] = "http" => c \notin kept
    /\ conn[c] \in {"http", "handshake", "refused"} => output[c] = <<>> /\ wire[c] = "none"
Connected(c) == evcon[c] <=> conn[c] = "open"
Hears(c) == conn[c] = "open" => reading[c] \/ (writing[c] /\ output[c] # <<>>)
Held(c) ==
    refs[c] = (IF conn[c] \in {"handshake", "open", "refused"} THEN 1 ELSE 0)
              + (IF On(c) THEN 1 ELSE 0) + (IF c \in kept THEN 1 ELSE 0)
Begun(c) ==
    /\ wire[c] \in {"none", "101"}
    /\ wire[c] = "none" /\ output[c] # <<>> => Head(output[c]) = "101"
    /\ conn[c] = "open" => wire[c] = "101" \/ output[c] # <<>>
ConnInv(c) == /\ HookFits(c) /\ Untouched(c) /\ Connected(c)
              /\ Hears(c) /\ Held(c) /\ Begun(c)
WInv == \A c \in Connection : ConnInv(c)

Step(c) ==
    \/ Handshake(c) \/ ReadReady(c) \/ WriteReady(c) \/ ConnectionFails(c)
    \/ HookReturns(c) \/ UserCall(c) \/ (\E f \in PeerFrame : PeerSends(c, f))

\* What a step leaves of a connection it is not about.
Same(q) ==
    /\ conn'[q] = conn[q] /\ evcon'[q] = evcon[q] /\ refs'[q] = refs[q]
    /\ q \in kept' <=> q \in kept
    /\ reading'[q] = reading[q] /\ writing'[q] = writing[q]
    /\ output'[q] = output[q] /\ wire'[q] = wire[q]
    /\ On(q)' <=> On(q)
    /\ On(q) => running' = running

\* The invariant speaks of nothing but what Same keeps.
LEMMA SameKeepsInv ==
    ASSUME NEW q \in Connection, ConnInv(q), Same(q)
    PROVE  ConnInv(q)'
BY DEF Same, ConnInv, HookFits, Untouched, Connected, Hears, Held, Begun

\* A hook of one connection is not a hook of another.
LEMMA OnOne ==
    ASSUME NEW c \in Connection, NEW q \in Connection, q # c, Types
    PROVE  /\ running = Idle => ~On(q)
           /\ \A h : running = <<c, h>> => ~On(q)
BY DEF On, Idle

\* Nor is it one in the next state.
LEMMA OnOneNext ==
    ASSUME NEW c \in Connection, NEW q \in Connection, q # c
    PROVE  /\ running' = Idle => ~On(q)'
           /\ \A h : running' = <<c, h>> => ~On(q)'
           /\ running' = running => (On(q)' <=> On(q))
BY DEF On, Idle

\* A step of one connection leaves every other as it was: user code reaches
\* another only through UserSends, which is a step of that other.
LEMMA OthersSame ==
    ASSUME Types, NEW c \in Connection, NEW q \in Connection, q # c, Step(c)
    PROVE  Same(q)
<1> USE DEF bufferVars, countVars, historyVars
<1>0. /\ \A f : WriteFrame(c, f) => /\ output'[q] = output[q]
                                    /\ reading'[q] = reading[q] /\ writing'[q] = writing[q]
      /\ \A h : Call(c, h) => running' = <<c, h>>
      /\ \A n : Upgrade(c, n) => /\ conn'[q] = conn[q] /\ evcon'[q] = evcon[q]
                                 /\ refs'[q] = refs[q] /\ kept' = kept
                                 /\ reading'[q] = reading[q] /\ writing'[q] = writing[q]
                                 /\ output'[q] = output[q] /\ wire'[q] = wire[q]
                                 /\ running' = running \/ running' = <<c, "afterHandshake">>
      /\ \A n : Refuse(c, n) => /\ conn'[q] = conn[q] /\ evcon'[q] = evcon[q]
                                /\ refs'[q] = refs[q] /\ kept' = kept
                                /\ reading'[q] = reading[q] /\ writing'[q] = writing[q]
                                /\ output'[q] = output[q] /\ wire'[q] = wire[q]
                                /\ running' = Idle
      /\ \A n : Closed(c, n) => /\ conn'[q] = conn[q] /\ evcon'[q] = evcon[q]
                                /\ refs'[q] = refs[q] /\ kept' = kept
                                /\ reading'[q] = reading[q] /\ writing'[q] = writing[q]
                                /\ output'[q] = output[q] /\ wire'[q] = wire[q]
  BY DEF Types, WriteFrame, Call, Upgrade, Refuse, Closed
<1>1. CASE Handshake(c)
  BY <1>0, <1>1, OnOne, OnOneNext DEF Types, Same, Handshake
<1>2. CASE ReadReady(c)
  BY <1>0, <1>2, OnOne, OnOneNext DEF Types, Same, ReadReady
<1>3. CASE WriteReady(c)
  BY <1>3, OnOne, OnOneNext DEF Types, Same, WriteReady
<1>4. CASE ConnectionFails(c)
  BY <1>0, <1>4, OnOne, OnOneNext DEF Types, Same, ConnectionFails
<1>5. CASE HookReturns(c)
  <2>1. CASE BeforeReturns(c)
    BY <1>0, <2>1, OnOne, OnOneNext DEF Same, BeforeReturns
  <2>2. CASE AfterReturns(c)
    BY <2>2, OnOne, OnOneNext DEF Types, Same, AfterReturns
  <2>3. CASE AfterThrows(c)
    BY <1>0, <2>3, OnOne, OnOneNext DEF Types, Same, AfterThrows
  <2>4. CASE MessageReturns(c)
    BY <2>4, OnOne, OnOneNext DEF Types, Same, MessageReturns
  <2>5. CASE MessageThrows(c)
    BY <1>0, <2>5, OnOne, OnOneNext DEF Types, Same, MessageThrows
  <2>6. CASE CloseReturns(c)
    BY <1>0, <2>6, OnOne, OnOneNext DEF Same, CloseReturns
  <2> QED
    BY <1>5, <2>1, <2>2, <2>3, <2>4, <2>5, <2>6 DEF HookReturns
<1>6. CASE UserCall(c)
  <2>1. ASSUME NEW f \in {"text", "close"}, UserSends(c, f) PROVE Same(q)
    BY <1>0, <2>1, OnOneNext DEF Same, UserSends
  <2>2. CASE KeepContext(c)
    BY <2>2, OnOneNext DEF Types, Same, KeepContext
  <2>3. CASE DropContext(c)
    BY <2>3, OnOneNext DEF Types, Same, DropContext
  <2> QED
    BY <1>6, <2>1, <2>2, <2>3 DEF UserCall
<1>7. ASSUME NEW f \in PeerFrame, PeerSends(c, f) PROVE Same(q)
  BY <1>7, OnOneNext DEF Same, PeerSends
<1> QED
  BY <1>1, <1>2, <1>3, <1>4, <1>5, <1>6, <1>7 DEF Step

\* What the upgrade does to its own connection.
LEMMA UpgradeOwn ==
    ASSUME Types, NEW c \in Connection, NEW n \in Int, ConnInv(c), Upgrade(c, n),
           conn[c] \in {"http", "handshake"}, c \in Plain => running = Idle,
           refs[c] + n = 1 + (IF c \in kept THEN 1 ELSE 0)
    PROVE  ConnInv(c)'
<1>1. /\ conn'[c] = "open" /\ evcon'[c] = TRUE
      /\ reading'[c] = TRUE /\ writing'[c] = TRUE
      /\ output'[c] = Append(output[c], "101") /\ wire' = wire /\ kept' = kept
  BY DEF Types, Upgrade
<1>2. output'[c] # <<>> /\ Head(output'[c]) = "101" /\ wire'[c] = "none"
  <2>1. output[c] = <<>> /\ wire[c] = "none"
    BY DEF ConnInv, Untouched
  <2>2. output[c] \in Seq(Frame) /\ "101" \in Frame
    BY DEF Types, Frame
  <2> QED
    BY <1>1, <2>1, <2>2, AppendFrame
<1>3. CASE c \in Plain
  <2>1. refs'[c] = refs[c] + n /\ ~On(c)'
    BY <1>3 DEF Types, Upgrade, On
  <2> QED
    BY <1>1, <1>2, <2>1 DEF ConnInv, HookFits, Untouched, Connected, Hears, Held, Begun
<1>4. CASE c \notin Plain
  <2>1. refs'[c] = refs[c] + n + 1 /\ running' = <<c, "afterHandshake">>
    BY <1>4 DEF Types, Upgrade, Call
  <2>2. On(c)' /\ running'[2] = "afterHandshake"
    BY <2>1 DEF On, Idle
  <2>3. Held(c)'
    BY <1>1, <2>1, <2>2 DEF Held, Types
  <2>4. HookFits(c)'
    BY <1>1, <1>4, <2>2 DEF HookFits
  <2> QED
    BY <1>1, <1>2, <2>3, <2>4 DEF ConnInv, Untouched, Connected, Hears, Begun
<1> QED
  BY <1>3, <1>4

\* A refused handshake keeps the invariant: its object stays for ever.
LEMMA RefuseOwn ==
    ASSUME Types, NEW c \in Connection, NEW n \in Int, ConnInv(c), Refuse(c, n),
           conn[c] \in {"http", "handshake"},
           refs[c] + n = 1 + (IF c \in kept THEN 1 ELSE 0)
    PROVE  ConnInv(c)'
<1>1. /\ conn'[c] = "refused" /\ refs'[c] = refs[c] + n /\ running' = Idle
      /\ UNCHANGED <<evcon, kept, bufferVars, wire>>
  BY DEF Types, Refuse
<1>2. ~On(c)'
  BY <1>1 DEF On
<1> QED
  BY <1>1, <1>2 DEF ConnInv, HookFits, Untouched, Connected, Hears, Held, Begun, bufferVars

\* The release of a connection keeps the invariant.
LEMMA ClosedOwn ==
    ASSUME Types, NEW c \in Connection, NEW n \in Int, ConnInv(c), Closed(c, n),
           ~On(c)', refs[c] - n = (IF c \in kept THEN 1 ELSE 0)
    PROVE  ConnInv(c)'
<1>1. /\ conn'[c] = "closed" /\ refs'[c] = refs[c] - n /\ evcon'[c] = FALSE
      /\ output'[c] = <<>> /\ wire' = wire /\ kept' = kept
  BY DEF Types, Closed
<1> QED
  BY <1>1 DEF ConnInv, HookFits, Untouched, Connected, Hears, Held, Begun

\* Frames queued on a connection that is open leave it hearing and begun.
LEMMA WriteFrameOwn ==
    ASSUME Types, NEW c \in Connection, NEW f \in Frame, ConnInv(c), conn[c] = "open",
           WriteFrame(c, f), conn' = conn, wire' = wire
    PROVE  Hears(c)' /\ Begun(c)'
<1>1. output'[c] = Append(output[c], f) /\ writing'[c] = TRUE
  BY DEF Types, WriteFrame
<1>2. output[c] \in Seq(Frame)
  BY DEF Types
<1> QED
  BY <1>1, <1>2, AppendFrame DEF ConnInv, Hears, Begun

\* A step of a connection keeps its invariant: one case for each action.
LEMMA OwnStep ==
    ASSUME Types, NEW c \in Connection, ConnInv(c), Step(c)
    PROVE  ConnInv(c)'
<1> USE DEF bufferVars, countVars, historyVars
<1>1. CASE Handshake(c)
  <2>1. conn[c] = "http" /\ c \notin kept /\ ~On(c) /\ refs[c] = 0 /\ running = Idle
    BY <1>1 DEF Handshake, ConnInv, Untouched, Held, On
  <2>2. CASE c \in Plain
    <3>1. Upgrade(c, 1) \/ Refuse(c, 1)
      BY <1>1, <2>2 DEF Handshake
    <3> QED
      BY <2>1, <3>1, UpgradeOwn, RefuseOwn
  <2>3. CASE c \notin Plain
    <3>1. /\ conn'[c] = "handshake" /\ refs'[c] = 2 /\ running' = <<c, "beforeHandshake">>
          /\ UNCHANGED <<evcon, kept, output, wire>>
      BY <1>1, <2>3 DEF Types, Handshake, Call
    <3>2. On(c)' /\ running'[2] = "beforeHandshake"
      BY <3>1 DEF On, Idle
    <3>3. HookFits(c)' /\ Held(c)'
      BY <2>1, <2>3, <3>1, <3>2 DEF HookFits, Held
    <3>4. Untouched(c)' /\ Connected(c)' /\ Hears(c)' /\ Begun(c)'
      BY <2>1, <3>1 DEF ConnInv, Untouched, Connected, Hears, Begun
    <3> QED
      BY <3>3, <3>4 DEF ConnInv
  <2> QED
    BY <2>2, <2>3
<1>2. CASE ReadReady(c)
  <2> DEFINE op == Opcode(c, input[c])
  <2>1. conn[c] = "open" /\ ~On(c) /\ running = Idle /\ UNCHANGED <<conn, evcon, kept, wire>>
    BY <1>2 DEF ReadReady, On
  <2>2. CASE op \in {"close", "ping"} /\ WriteFrame(c, op) /\ UNCHANGED <<running, refs, last>>
    <3>1. op \in Frame
      BY <2>2 DEF Frame
    <3> HIDE DEF op
    <3>2. Hears(c)' /\ Begun(c)'
      BY <2>1, <2>2, <3>1, WriteFrameOwn
    <3>3. On(c)' <=> On(c)
      BY <2>2 DEF On
    <3> QED
      BY <2>1, <2>2, <3>2, <3>3 DEF ConnInv, HookFits, Untouched, Connected, Held
  <2>3. CASE refs' = [refs EXCEPT ![c] = @ + 1] /\ Call(c, "onMessage") /\ UNCHANGED bufferVars
    <3>1. refs'[c] = refs[c] + 1 /\ running' = <<c, "onMessage">>
      BY <2>3 DEF Types, Call
    <3>2. On(c)' /\ running'[2] = "onMessage"
      BY <3>1 DEF On, Idle
    <3>3. refs[c] \in Int
      BY DEF Types
    <3> QED
      BY <2>1, <2>3, <3>1, <3>2, <3>3
      DEF ConnInv, HookFits, Untouched, Connected, Hears, Held, Begun
  <2>4. CASE UNCHANGED <<running, refs, last, bufferVars>>
    <3>1. On(c)' <=> On(c)
      BY <2>4 DEF On
    <3> QED
      BY <2>1, <2>4, <3>1 DEF ConnInv, HookFits, Untouched, Connected, Hears, Held, Begun
  <2> QED
    BY <1>2, <2>2, <2>3, <2>4 DEF ReadReady
<1>3. CASE WriteReady(c)
  <2>1. PICK n \in 1..Len(output[c]) :
          /\ wire' = [wire EXCEPT ![c] = IF @ = "none" THEN Head(output[c]) ELSE @]
          /\ output' = [output EXCEPT ![c] = SubSeq(@, n + 1, Len(@))]
          /\ writing' = [writing EXCEPT ![c] = n < Len(output[c])]
          /\ reading' = [reading EXCEPT ![c] = @ \/ n = Len(output[c])]
    BY <1>3 DEF WriteReady
  <2>2. /\ conn[c] = "open" /\ output[c] # <<>> /\ output[c] \in Seq(Frame)
        /\ UNCHANGED <<running, conn, evcon, refs, kept>>
    BY <1>3 DEF WriteReady, Types
  <2>3. output'[c] = <<>> <=> n = Len(output[c])
    BY <2>1, <2>2, DrainFrames DEF Types
  <2>4. /\ wire'[c] = IF wire[c] = "none" THEN Head(output[c]) ELSE wire[c]
        /\ writing'[c] = (n < Len(output[c]))
        /\ reading'[c] = (reading[c] \/ n = Len(output[c]))
    BY <2>1 DEF Types
  <2>5. wire'[c] = "101"
    BY <2>2, <2>4 DEF ConnInv, Begun
  <2>6. Hears(c)'
    <3>1. CASE n = Len(output[c])
      BY <2>4, <3>1 DEF Hears
    <3>2. CASE n # Len(output[c])
      <4>1. n < Len(output[c])
        BY <2>1, <2>2, <3>2
      <4> QED
        BY <2>3, <2>4, <3>2, <4>1 DEF Hears
    <3> QED
      BY <3>1, <3>2
  <2>7. On(c)' <=> On(c)
    BY <2>2 DEF On
  <2> QED
    BY <2>2, <2>5, <2>6, <2>7 DEF ConnInv, HookFits, Untouched, Connected, Held, Begun
<1>4. CASE ConnectionFails(c)
  <2>1. conn[c] = "open" /\ ~On(c) /\ running = Idle /\ refs[c] \in Int
    BY <1>4 DEF ConnectionFails, On, Types
  <2>2. CASE c \in Plain
    <3>1. Closed(c, 1) /\ running' = running
      BY <1>4, <2>2 DEF ConnectionFails
    <3>2. ~On(c)' /\ refs[c] - 1 = IF c \in kept THEN 1 ELSE 0
      BY <2>1, <3>1 DEF On, ConnInv, Held
    <3> QED
      BY <3>1, <3>2, ClosedOwn
  <2>3. CASE c \notin Plain
    <3>1. /\ refs'[c] = refs[c] + 1 /\ running' = <<c, "onClose">>
          /\ UNCHANGED <<conn, evcon, kept, bufferVars, wire>>
      BY <1>4, <2>3 DEF Types, ConnectionFails, Call
    <3>2. On(c)' /\ running'[2] = "onClose"
      BY <3>1 DEF On, Idle
    <3> QED
      BY <2>1, <2>3, <3>1, <3>2
      DEF ConnInv, HookFits, Untouched, Connected, Hears, Held, Begun
  <2> QED
    BY <2>2, <2>3
<1>5. CASE HookReturns(c)
  <2>0. /\ refs[c] \in Int
        /\ \A h \in Hook : running = <<c, h>> => On(c) /\ running[2] = h
        /\ running' = Idle => ~On(c)'
    <3>1. \A h \in Hook : running = <<c, h>> => On(c) /\ running[2] = h
      BY HookOn DEF On
    <3> QED
      BY <3>1 DEF On, Types
  <2>1. CASE BeforeReturns(c)
    <3>1. conn[c] = "handshake" /\ On(c) /\ c \notin Plain
      BY <2>0, <2>1 DEF BeforeReturns, ConnInv, HookFits, Hook
    <3>2. refs[c] + (-1) = 1 + (IF c \in kept THEN 1 ELSE 0)
      BY <2>0, <2>1, <3>1 DEF BeforeReturns, ConnInv, Held
    <3>3. CASE Refuse(c, -1)
      BY <3>1, <3>2, <3>3, RefuseOwn
    <3>4. CASE Upgrade(c, -1)
      BY <3>1, <3>2, <3>4, UpgradeOwn
    <3> QED
      BY <2>1, <3>3, <3>4 DEF BeforeReturns
  <2>2. ASSUME running = <<c, "afterHandshake">> \/ running = <<c, "onMessage">>,
               running' = Idle, refs' = [refs EXCEPT ![c] = @ - 1],
               UNCHANGED <<conn, evcon, kept, wire>>,
               UNCHANGED bufferVars \/ WriteFrame(c, "close")
        PROVE  ConnInv(c)'
    <3>1. On(c) /\ conn[c] = "open" /\ ~On(c)' /\ refs'[c] = refs[c] - 1
      BY <2>0, <2>2 DEF ConnInv, HookFits, Types, Hook
    <3>2. Hears(c)' /\ Begun(c)'
      <4>1. CASE UNCHANGED bufferVars
        BY <2>2, <4>1 DEF ConnInv, Hears, Begun
      <4>2. CASE WriteFrame(c, "close")
        BY <2>2, <3>1, <4>2, WriteFrameOwn DEF Frame
      <4> QED
        BY <2>2, <4>1, <4>2
    <3> QED
      BY <2>0, <2>2, <3>1, <3>2 DEF ConnInv, HookFits, Untouched, Connected, Held
  <2>3. CASE AfterReturns(c) \/ AfterThrows(c)
    BY <2>2, <2>3 DEF AfterReturns, AfterThrows
  <2>4. CASE MessageReturns(c) \/ MessageThrows(c)
    BY <2>2, <2>4 DEF MessageReturns, MessageThrows
  <2>5. CASE CloseReturns(c)
    <3>1. On(c) /\ conn[c] = "open" /\ Closed(c, 2) /\ ~On(c)'
      BY <2>0, <2>5 DEF CloseReturns, ConnInv, HookFits, Hook
    <3>2. refs[c] - 2 = IF c \in kept THEN 1 ELSE 0
      BY <2>0, <3>1 DEF ConnInv, Held
    <3> QED
      BY <3>1, <3>2, ClosedOwn
  <2> QED
    BY <1>5, <2>1, <2>3, <2>4, <2>5 DEF HookReturns
<1>6. CASE UserCall(c)
  <2>0. refs[c] \in Int
    BY DEF Types
  <2>1. ASSUME NEW f \in {"text", "close"}, UserSends(c, f) PROVE ConnInv(c)'
    <3>1. conn[c] = "open" /\ WriteFrame(c, f) /\ UNCHANGED <<running, conn, evcon, refs, kept, wire>>
      BY <2>1 DEF UserSends, ConnInv, Connected
    <3>2. f \in Frame
      BY DEF Frame
    <3>3. Hears(c)' /\ Begun(c)'
      BY <3>1, <3>2, WriteFrameOwn
    <3>4. On(c)' <=> On(c)
      BY <3>1 DEF On
    <3> QED
      BY <3>1, <3>3, <3>4 DEF ConnInv, HookFits, Untouched, Connected, Held
  <2>2. CASE KeepContext(c)
    <3>1. /\ On(c) /\ On(c)' /\ c \notin kept /\ c \in kept' /\ refs'[c] = refs[c] + 1
          /\ UNCHANGED <<running, conn, evcon, bufferVars, wire>>
      BY <2>2 DEF KeepContext, On, Types
    <3>2. conn[c] # "http"
      BY <3>1 DEF ConnInv, HookFits
    <3> QED
      BY <2>0, <3>1, <3>2 DEF ConnInv, HookFits, Untouched, Connected, Hears, Held, Begun
  <2>3. CASE DropContext(c)
    <3>1. /\ On(c)' <=> On(c)
          /\ c \in kept /\ c \notin kept' /\ refs'[c] = refs[c] - 1
          /\ UNCHANGED <<running, conn, evcon, bufferVars, wire>>
      BY <2>3 DEF DropContext, On, Types
    <3> QED
      BY <2>0, <3>1 DEF ConnInv, HookFits, Untouched, Connected, Hears, Held, Begun
  <2> QED
    BY <1>6, <2>1, <2>2, <2>3 DEF UserCall
<1>7. ASSUME NEW f \in PeerFrame, PeerSends(c, f) PROVE ConnInv(c)'
  <2>1. UNCHANGED <<running, conn, evcon, refs, kept, bufferVars, wire>>
    BY <1>7 DEF PeerSends
  <2>2. On(c)' <=> On(c)
    BY <2>1 DEF On
  <2> QED
    BY <2>1, <2>2 DEF ConnInv, HookFits, Untouched, Connected, Hears, Held, Begun
<1> QED
  BY <1>1, <1>2, <1>3, <1>4, <1>5, <1>6, <1>7 DEF Step

-----------------------------------------------------------------------------
(* The theorems.                                                           *)

\* The invariant holds at the start and every step keeps it.
THEOREM WInvariant == Spec => [](Types /\ WInv)
<1>1. Init => Types /\ WInv
  <2>1. Init => Types
    <3>1. <<>> \in Seq(PeerFrame) /\ <<>> \in Seq(Frame)
      OBVIOUS
    <3> QED
      BY <3>1, BoundsAssumption DEF Init, Types
  <2>2. Init => WInv
    <3>1. Init => \A c \in Connection : ~On(c)
      BY DEF Init, On
    <3>2. ASSUME Init, NEW c \in Connection PROVE ConnInv(c)
      <4>1. /\ conn[c] = "http" /\ evcon[c] = FALSE /\ refs[c] = 0 /\ kept = {}
            /\ output[c] = <<>> /\ wire[c] = "none" /\ ~On(c)
        BY <3>1, <3>2 DEF Init
      <4> QED
        BY <4>1 DEF ConnInv, HookFits, Untouched, Connected, Hears, Held, Begun
    <3> QED
      BY <3>2 DEF WInv
  <2> QED
    BY <2>1, <2>2
<1>2. Types /\ WInv /\ [Next]_vars => (Types /\ WInv)'
  <2> SUFFICES ASSUME Types, WInv, [Next]_vars
               PROVE  Types' /\ WInv'
    OBVIOUS
  <2>1. Types'
    BY TypesStep
  <2>2. CASE UNCHANGED vars
    <3>1. ASSUME NEW q \in Connection PROVE ConnInv(q)'
      <4>1. Same(q)
        BY <2>2 DEF vars, bufferVars, Same, On
      <4> QED
        BY <4>1, SameKeepsInv DEF WInv
    <3> QED
      BY <2>1, <3>1 DEF WInv
  <2>3. ASSUME NEW c \in Connection, Step(c) PROVE WInv'
    <3>1. ASSUME NEW q \in Connection PROVE ConnInv(q)'
      <4>1. CASE q = c
        BY <2>3, <4>1, OwnStep DEF WInv
      <4>2. CASE q # c
        BY <2>3, <4>2, OthersSame, SameKeepsInv DEF WInv
      <4> QED
        BY <4>1, <4>2
    <3> QED
      BY <3>1 DEF WInv
  <2>4. CASE Next
    <3>1. \E c \in Connection : Step(c)
      BY <2>4 DEF Next, Step
    <3> QED
      BY <2>1, <2>3, <3>1
  <2> QED
    BY <2>1, <2>2, <2>4
<1> QED
  BY <1>1, <1>2, PTL DEF Spec

\* Every variable keeps its type, and references are never below zero.
THEOREM WTypeCorrect == Spec => []TypeOK
<1>1. Types /\ WInv => TypeOK
  <2> SUFFICES ASSUME Types, WInv PROVE TypeOK
    OBVIOUS
  <2>1. \A c \in Connection : refs[c] \in Nat
    <3>1. ASSUME NEW c \in Connection PROVE refs[c] \in Nat
      BY DEF WInv, ConnInv, Held
    <3> QED
      BY <3>1
  <2>2. refs \in [Connection -> Nat]
    BY <2>1 DEF Types
  <2> QED
    BY <2>2 DEF Types, TypeOK
<1> QED
  BY <1>1, WInvariant, PTL

\* No connection is ever left with reading off and nothing to write.
THEOREM NobodyDeaf == Spec => []NeverDeaf
<1>1. WInv => NeverDeaf
  BY DEF WInv, ConnInv, Hears, NeverDeaf
<1> QED
  BY <1>1, WInvariant, PTL

\* send and close reach a connection exactly while it stands.
THEOREM CallsReachOpen == Spec => []CallsReachOpenConnection
<1>1. WInv => CallsReachOpenConnection
  BY DEF WInv, ConnInv, Connected, CallsReachOpenConnection
<1> QED
  BY <1>1, WInvariant, PTL

\* The connection object lives exactly as long as somebody uses it, except
\* for a refused handshake.
THEOREM ContextHeld == Spec => []ContextHeldWhileUsed
<1>1. WInv => ContextHeldWhileUsed
  BY DEF WInv, ConnInv, Held, ContextHeldWhileUsed
<1> QED
  BY <1>1, WInvariant, PTL

\* The 101 response is the first frame on the wire.
THEOREM UpgradeComesFirst == Spec => []UpgradeFirst
<1>1. WInv => UpgradeFirst
  BY DEF WInv, ConnInv, Begun, UpgradeFirst
<1> QED
  BY <1>1, WInvariant, PTL

-----------------------------------------------------------------------------
(* The order of the hooks.                                                 *)

\* The hook called last is the one that runs; before the first none was called,
\* and while the connection stands and onClose does not run, it was afterHandshake
\* or a message (a message or none, where there are no other hooks).
LastFits(c) ==
    /\ conn[c] = "http" => last[c] = "none"
    /\ On(c) => last[c] = running[2]
    /\ conn[c] = "open" /\ running # <<c, "onClose">> =>
          last[c] \in IF c \in Plain THEN {"none", "onMessage"}
                      ELSE {"afterHandshake", "onMessage"}
LastInv == \A c \in Connection : LastFits(c)

\* What a step does about hooks: it calls none, or one returns, or it calls the
\* one whose turn it is.
HookStep(c) ==
    \/ /\ running' = running /\ last'[c] = last[c]
       /\ \/ conn'[c] = conn[c] \/ conn'[c] \in {"refused", "closed"}
          \/ c \in Plain /\ conn[c] = "http" /\ conn'[c] = "open" /\ running = Idle
    \/ /\ running' = Idle /\ last'[c] = last[c]
       /\ \/ conn'[c] = conn[c] /\ On(c) /\ running[2] \notin {"beforeHandshake", "onClose"}
          \/ conn'[c] \in {"refused", "closed"}
    \/ /\ running = Idle /\ conn[c] = "http" /\ c \notin Plain
       /\ running' = <<c, "beforeHandshake">> /\ last'[c] = "beforeHandshake"
       /\ conn'[c] = "handshake"
    \/ /\ running = <<c, "beforeHandshake">> /\ c \notin Plain
       /\ running' = <<c, "afterHandshake">> /\ last'[c] = "afterHandshake"
       /\ conn'[c] = "open"
    \/ /\ running = Idle /\ conn[c] = "open"
       /\ running' = <<c, "onMessage">> /\ last'[c] = "onMessage" /\ conn'[c] = "open"
    \/ /\ running = Idle /\ conn[c] = "open" /\ c \notin Plain
       /\ running' = <<c, "onClose">> /\ last'[c] = "onClose" /\ conn'[c] = "open"

\* Every step of a connection is such a step.
LEMMA StepOfHooks ==
    ASSUME Types, NEW c \in Connection, ConnInv(c), Step(c)
    PROVE  HookStep(c)
<1> USE DEF bufferVars, countVars, historyVars
<1>1. CASE Handshake(c)
  BY <1>1 DEF Types, Handshake, Upgrade, Refuse, Call, HookStep
<1>2. CASE ReadReady(c)
  BY <1>2 DEF Types, ReadReady, Call, HookStep
<1>3. CASE WriteReady(c)
  BY <1>3 DEF WriteReady, HookStep
<1>4. CASE ConnectionFails(c)
  BY <1>4 DEF Types, ConnectionFails, Closed, Call, HookStep
<1>5. CASE HookReturns(c)
  <2>1. CASE BeforeReturns(c)
    <3>1. c \notin Plain
      BY <2>1, HookOn DEF BeforeReturns, ConnInv, HookFits, On, Hook
    <3> QED
      BY <2>1, <3>1 DEF Types, BeforeReturns, Upgrade, Refuse, Call, HookStep
  <2>2. CASE AfterReturns(c) \/ AfterThrows(c) \/ MessageReturns(c) \/ MessageThrows(c)
    <3>1. /\ running' = Idle /\ last' = last /\ conn' = conn
          /\ running \in {<<c, "afterHandshake">>, <<c, "onMessage">>}
      BY <2>2 DEF AfterReturns, AfterThrows, MessageReturns, MessageThrows
    <3>2. On(c) /\ running[2] \in {"afterHandshake", "onMessage"}
      BY <3>1, HookOn DEF On, Hook
    <3> QED
      BY <3>1, <3>2 DEF HookStep
  <2>3. CASE CloseReturns(c)
    BY <2>3 DEF Types, CloseReturns, Closed, HookStep
  <2> QED
    BY <1>5, <2>1, <2>2, <2>3 DEF HookReturns
<1>6. CASE UserCall(c)
  BY <1>6 DEF UserCall, UserSends, KeepContext, DropContext, HookStep
<1>7. ASSUME NEW f \in PeerFrame, PeerSends(c, f) PROVE HookStep(c)
  BY <1>7 DEF PeerSends, HookStep
<1> QED
  BY <1>1, <1>2, <1>3, <1>4, <1>5, <1>6, <1>7 DEF Step

\* A step of one connection calls no hook of another.
LEMMA OthersLast ==
    ASSUME Types, NEW c \in Connection, NEW q \in Connection, q # c, Step(c)
    PROVE  last'[q] = last[q]
<1> USE DEF bufferVars, countVars, historyVars
<1>1. \A h : Call(c, h) => last'[q] = last[q]
  BY DEF Types, Call
<1>2. Handshake(c) \/ ReadReady(c) \/ WriteReady(c) \/ ConnectionFails(c) => last'[q] = last[q]
  BY <1>1 DEF Handshake, Upgrade, Refuse, ReadReady, WriteReady, ConnectionFails
<1>3. HookReturns(c) => last'[q] = last[q]
  BY <1>1 DEF HookReturns, BeforeReturns, Upgrade, Refuse, AfterReturns, AfterThrows,
     MessageReturns, MessageThrows, CloseReturns
<1>4. UserCall(c) \/ (\E f \in PeerFrame : PeerSends(c, f)) => last'[q] = last[q]
  BY DEF UserCall, UserSends, KeepContext, DropContext, PeerSends
<1> QED
  BY <1>2, <1>3, <1>4 DEF Step

\* A step keeps what is known of the hook called last.
LEMMA LastStep ==
    ASSUME Types, WInv, LastInv, [Next]_vars
    PROVE  LastInv'
<1> SUFFICES ASSUME NEW q \in Connection PROVE LastFits(q)'
  BY DEF LastInv
<1>1. LastFits(q) /\ ConnInv(q)
  BY DEF LastInv, WInv
<1>2. CASE UNCHANGED vars
  BY <1>1, <1>2 DEF vars, historyVars, LastFits, On
<1>3. ASSUME NEW c \in Connection, c # q, Step(c) PROVE LastFits(q)'
  <2>1. Same(q) /\ last'[q] = last[q]
    BY <1>3, OthersSame, OthersLast
  <2>2. running' = <<q, "onClose">> <=> running = <<q, "onClose">>
    <3>1. running = <<q, "onClose">> => On(q)
      BY HookOn DEF On, Hook
    <3>2. running' = <<q, "onClose">> => On(q)'
      BY HookOn DEF On, Hook
    <3> QED
      BY <2>1, <3>1, <3>2 DEF Same
  <2> QED
    BY <1>1, <2>1, <2>2 DEF Same, LastFits
<1>4. ASSUME Step(q) PROVE LastFits(q)'
  <2>1. HookStep(q)
    BY <1>1, <1>4, StepOfHooks
  <2>2. On(q) => conn[q] \in {"handshake", "open"}
    BY <1>1 DEF ConnInv, HookFits
  <2>3. running = <<q, "onClose">> => On(q)
    BY HookOn DEF On, Hook
  <2>4. CASE running' = running /\ last'[q] = last[q]
    <3>1. \/ conn'[q] = conn[q] \/ conn'[q] \in {"refused", "closed"}
          \/ q \in Plain /\ conn[q] = "http" /\ conn'[q] = "open" /\ running = Idle
      BY <2>1, <2>4, HookOn DEF HookStep, On, Idle, Hook
    <3> QED
      BY <1>1, <2>4, <3>1 DEF LastFits, On
  <2>5. CASE running' = Idle /\ last'[q] = last[q]
    <3>1. /\ ~On(q)'
          /\ \/ conn'[q] = conn[q] /\ running # <<q, "onClose">>
             \/ conn'[q] \in {"refused", "closed"}
             \/ running' = running
      BY <2>1, <2>5, HookOn DEF HookStep, Idle, Hook, On
    <3> QED
      BY <1>1, <2>4, <2>5, <3>1 DEF LastFits
  <2>6. ASSUME NEW h \in Hook, running' = <<q, h>>, last'[q] = h,
               conn'[q] = IF h = "beforeHandshake" THEN "handshake" ELSE "open",
               h \in {"afterHandshake", "beforeHandshake"} => q \notin Plain
        PROVE  LastFits(q)'
    <3>1. On(q)' => last'[q] = running'[2]
      BY <2>6, HookOn
    <3>2. h = "onClose" => running' = <<q, "onClose">>
      BY <2>6
    <3> QED
      BY <2>6, <3>1, <3>2 DEF LastFits, Hook
  <2> QED
    BY <2>1, <2>4, <2>5, <2>6 DEF HookStep, Hook
<1> QED
  BY <1>2, <1>3, <1>4 DEF Next, Step

\* In each state of a connection the hook called last is one that belongs there.
THEOREM LastCalled == Spec => []LastInv
<1>1. Init => LastInv
  BY DEF Init, LastInv, LastFits, On
<1> QED
  BY <1>1, LastStep, WInvariant, PTL DEF Spec

\* A hook is called only after the one before it returned, in the order of the
\* handshake, onClose once and nothing after it.
THEOREM HooksInOrder == Spec => HookOrder
<1>1. Types /\ WInv /\ LastInv /\ [Next]_vars =>
        [\A c \in Connection : \A h \in Hook :
            running' = <<c, h>> /\ running # running' =>
                /\ running \in {Idle, <<c, "beforeHandshake">>}
                /\ last[c] \in CASE h = "beforeHandshake" -> {"none"}
                                 [] h = "afterHandshake"  -> {"beforeHandshake"}
                                 [] OTHER -> IF c \in Plain THEN {"none", "onMessage"}
                                             ELSE {"afterHandshake", "onMessage"}]_vars
  <2> SUFFICES ASSUME Types, WInv, LastInv, Next, NEW q \in Connection, NEW h \in Hook,
                      running' = <<q, h>>, running # running'
               PROVE  /\ running \in {Idle, <<q, "beforeHandshake">>}
                      /\ last[q] \in CASE h = "beforeHandshake" -> {"none"}
                                       [] h = "afterHandshake"  -> {"beforeHandshake"}
                                       [] OTHER -> IF q \in Plain THEN {"none", "onMessage"}
                                                   ELSE {"afterHandshake", "onMessage"}
    OBVIOUS
  <2>1. PICK c \in Connection : Step(c)
    BY DEF Next, Step
  <2>2. HookStep(c) /\ LastFits(c)
    BY <2>1, StepOfHooks DEF WInv, LastInv
  <2>3. \A k \in Hook : running' = <<c, k>> => c = q /\ k = h
    OBVIOUS
  <2>4. running' # Idle
    BY HookOn
  <2>5. \/ /\ h = "beforeHandshake" /\ running = Idle /\ last[q] = "none"
        \/ /\ h = "afterHandshake" /\ running = <<q, "beforeHandshake">>
           /\ last[q] = "beforeHandshake"
        \/ /\ h \in {"onMessage", "onClose"} /\ running = Idle
           /\ last[q] \in IF q \in Plain THEN {"none", "onMessage"}
                          ELSE {"afterHandshake", "onMessage"}
    <3>1. running = Idle => running # <<q, "onClose">>
      BY HookOn DEF Hook
    <3>2. running = <<q, "beforeHandshake">> => On(q) /\ running[2] = "beforeHandshake"
      BY HookOn DEF Hook, On
    <3> QED
      BY <2>2, <2>3, <2>4, <3>1, <3>2 DEF HookStep, LastFits, Hook
  <2>6. running \in {Idle, <<q, "beforeHandshake">>}
    BY <2>5
  <2>7. CASE h = "beforeHandshake"
    BY <2>5, <2>6, <2>7
  <2>8. CASE h = "afterHandshake"
    BY <2>5, <2>6, <2>8
  <2>9. CASE h \in {"onMessage", "onClose"}
    BY <2>5, <2>6, <2>9
  <2> QED
    BY <2>7, <2>8, <2>9 DEF Hook
<1> QED
  BY <1>1, WInvariant, LastCalled, PTL DEF Spec, HookOrder

-----------------------------------------------------------------------------
(* The frames: the exclusive or undoes itself, the length is written in the *)
(* form of the fewest bytes, and what one side frames the other one finds,  *)
(* for every message, key and buffer.                                       *)

\* Two bits: the exclusive or with the same bits twice is nothing.
LEMMA XorTwice2 ==
    ASSUME NEW a \in 0..3, NEW b \in 0..3
    PROVE  Xor2(a, b) \in 0..3 /\ Xor2(Xor2(a, b), b) = a
<1>1. /\ a \div 2 \in 0..1 /\ a % 2 \in 0..1 /\ a = 2 * (a \div 2) + (a % 2)
      /\ b \div 2 \in 0..1 /\ b % 2 \in 0..1
  OBVIOUS
<1>2. \A x \in 0..1, y \in 0..1 : Xor1(x, y) \in 0..1 /\ Xor1(Xor1(x, y), y) = x
  BY DEF Xor1
<1> DEFINE h == Xor1(a \div 2, b \div 2)
           l == Xor1(a % 2, b % 2)
<1>3. h \in 0..1 /\ l \in 0..1 /\ Xor1(h, b \div 2) = a \div 2 /\ Xor1(l, b % 2) = a % 2
  BY <1>1, <1>2
<1>4. Xor2(a, b) = 2 * h + l
  BY DEF Xor2
<1> HIDE DEF h, l
<1>5. (2 * h + l) \div 2 = h /\ (2 * h + l) % 2 = l
  BY <1>3
<1> QED
  BY <1>1, <1>3, <1>4, <1>5 DEF Xor2

\* The same of four bits,
LEMMA XorTwice4 ==
    ASSUME NEW a \in 0..15, NEW b \in 0..15
    PROVE  Xor4(a, b) \in 0..15 /\ Xor4(Xor4(a, b), b) = a
<1>1. /\ a \div 4 \in 0..3 /\ a % 4 \in 0..3 /\ a = 4 * (a \div 4) + (a % 4)
      /\ b \div 4 \in 0..3 /\ b % 4 \in 0..3
  OBVIOUS
<1> DEFINE h == Xor2(a \div 4, b \div 4)
           l == Xor2(a % 4, b % 4)
<1>3. h \in 0..3 /\ l \in 0..3 /\ Xor2(h, b \div 4) = a \div 4 /\ Xor2(l, b % 4) = a % 4
  BY <1>1, XorTwice2
<1>4. Xor4(a, b) = 4 * h + l
  BY DEF Xor4
<1> HIDE DEF h, l
<1>5. (4 * h + l) \div 4 = h /\ (4 * h + l) % 4 = l
  BY <1>3
<1> QED
  BY <1>1, <1>3, <1>4, <1>5 DEF Xor4

\* and of the eight of a byte.
LEMMA XorTwice ==
    ASSUME NEW a \in Byte, NEW b \in Byte
    PROVE  ByteXor(a, b) \in Byte /\ ByteXor(ByteXor(a, b), b) = a
<1>1. /\ a \div 16 \in 0..15 /\ a % 16 \in 0..15 /\ a = 16 * (a \div 16) + (a % 16)
      /\ b \div 16 \in 0..15 /\ b % 16 \in 0..15
  BY DEF Byte
<1> DEFINE h == Xor4(a \div 16, b \div 16)
           l == Xor4(a % 16, b % 16)
<1>3. h \in 0..15 /\ l \in 0..15 /\ Xor4(h, b \div 16) = a \div 16 /\ Xor4(l, b % 16) = a % 16
  BY <1>1, XorTwice4
<1>4. ByteXor(a, b) = 16 * h + l
  BY DEF ByteXor
<1> HIDE DEF h, l
<1>5. (16 * h + l) \div 16 = h /\ (16 * h + l) % 16 = l
  BY <1>3
<1>6. ByteXor(a, b) \in Byte
  BY <1>3, <1>4 DEF Byte
<1>7. ByteXor(16 * h + l, b) = a
  BY <1>1, <1>3, <1>5 DEF ByteXor
<1> QED
  BY <1>4, <1>6, <1>7

-----------------------------------------------------------------------------
\* A function over the first positions is a sequence of that length.
LEMMA IsSequence ==
    ASSUME NEW S, NEW n \in Nat, NEW s \in [1..n -> S]
    PROVE  s \in Seq(S) /\ Len(s) = n /\ DOMAIN s = 1..n
  BY SeqDef

\* The recursive function of BigEndian.
ShiftedIs(f, n, w) ==
    f = [k \in 0..(w - 1) |-> IF k = 0 THEN n ELSE f[k - 1] \div 256]

\* That function exists for the two bytes of a short length,
LEMMA Shifts2 ==
    ASSUME NEW n \in Nat
    PROVE  \E f : ShiftedIs(f, n, 2)
<1> DEFINE f == [k \in 0..1 |-> IF k = 0 THEN n ELSE n \div 256]
<1>1. ShiftedIs(f, n, 2)
  BY DEF ShiftedIs
<1> QED
  BY <1>1

\* and for the eight of a long one.
LEMMA Shifts8 ==
    ASSUME NEW n \in Nat
    PROVE  \E f : ShiftedIs(f, n, 8)
<1> DEFINE s1 == n \div 256
           s2 == s1 \div 256
           s3 == s2 \div 256
           s4 == s3 \div 256
           s5 == s4 \div 256
           s6 == s5 \div 256
           s7 == s6 \div 256
           g == <<n, s1, s2, s3, s4, s5, s6, s7>>
           f == [k \in 0..7 |-> g[k + 1]]
<1>1. ShiftedIs(f, n, 8)
  BY DEF ShiftedIs
<1> QED
  BY <1>1

\* Division by 256, again and again.
LEMMA Divided ==
    ASSUME NEW n \in Nat, n <= MaxString
    PROVE  /\ (n \div 256) \div 256 = n \div 65536
           /\ (n \div 65536) \div 256 = n \div 16777216
           /\ (n \div 16777216) \div 256 = 0
           /\ (n \div 16777216) % 256 = n \div 16777216
           /\ n \div 16777216 \in Byte
           /\ n <= 65535 => n \div 256 \in Byte /\ (n \div 256) % 256 = n \div 256
<1>1. (n \div 256) \div 256 = n \div 65536
  BY SMT
<1>2. (n \div 65536) \div 256 = n \div 16777216
  BY SMT
<1>3. n \div 16777216 \in 0..127
  BY SMT DEF MaxString
<1>4. (n \div 16777216) \div 256 = 0 /\ (n \div 16777216) % 256 = n \div 16777216
  BY SMT, <1>3
<1>5. n \div 16777216 \in Byte
  BY SMT, <1>3 DEF Byte
<1>6. n <= 65535 => n \div 256 \in Byte /\ (n \div 256) % 256 = n \div 256
  BY SMT DEF Byte
<1> QED
  BY ONLY SMT, <1>1, <1>2, <1>4, <1>5, <1>6

\* One element before a sequence.
LEMMA Joined ==
    ASSUME NEW S, NEW p \in Seq(S), NEW q \in Seq(S), NEW t \in Seq(S),
           Len(p) = 1, Len(t) = 1 + Len(q), t[1] = p[1],
           \A i \in 1..Len(q) : t[1 + i] = q[i]
    PROVE  p \o q = t
<1> DEFINE r == p \o q
<1>1. /\ r \in Seq(S) /\ Len(r) = Len(p) + Len(q)
      /\ \A i \in 1..(Len(p) + Len(q)) : r[i] = IF i <= Len(p) THEN p[i] ELSE q[i - Len(p)]
  BY ONLY p \in Seq(S), q \in Seq(S), ConcatProperties
<1> HIDE DEF r
<1>2. Len(q) \in Nat /\ Len(r) = Len(t)
  BY <1>1
<1>3. ASSUME NEW i \in 1..Len(r) PROVE r[i] = t[i]
  <2>1. CASE i = 1
    BY <1>1, <1>2, <2>1
  <2>2. CASE i # 1
    <3>1. i - 1 \in 1..Len(q) /\ 1 + (i - 1) = i
      BY <1>1, <1>2, <2>2
    <3>2. t[1 + (i - 1)] = q[i - 1]
      BY <3>1
    <3>3. r[i] = q[i - 1]
      BY <1>1, <1>2, <2>2
    <3> QED
      BY <3>1, <3>2, <3>3
  <2> QED
    BY <2>1, <2>2
<1>4. r = t
  BY ONLY <1>1, <1>2, <1>3, SeqEqual, t \in Seq(S)
<1> QED
  BY <1>4 DEF r

\* The eight bytes of a number that four can hold, and the two of one that two can.
LEMMA BigEndianIs ==
    ASSUME NEW n \in Nat, n <= MaxString
    PROVE  /\ BigEndian(n, 8) = <<0, 0, 0, 0, n \div 16777216, (n \div 65536) % 256,
                                  (n \div 256) % 256, n % 256>>
           /\ n <= 65535 => BigEndian(n, 2) = <<n \div 256, n % 256>>
<1>1. ASSUME NEW w \in {2, 8}
      PROVE  \E f : /\ ShiftedIs(f, n, w)
                    /\ BigEndian(n, w) = [k \in 1..w |-> f[w - k] % 256]
  <2> DEFINE f == CHOOSE g : ShiftedIs(g, n, w)
  <2>1. ShiftedIs(f, n, w)
    BY SMT, Shifts2, Shifts8
  <2>2. BigEndian(n, w) = [k \in 1..w |-> f[w - k] % 256]
    BY SMT DEF BigEndian, ShiftedIs
  <2> QED
    BY SMT, <2>1, <2>2
<1> DEFINE d == n \div 16777216
           c == n \div 65536
           b == n \div 256
<1>2. b \div 256 = c /\ c \div 256 = d /\ d \div 256 = 0 /\ d % 256 = d
      /\ (n <= 65535 => b % 256 = b)
  BY SMT, Divided
<1>3. BigEndian(n, 8) = <<0, 0, 0, 0, d, c % 256, b % 256, n % 256>>
  <2>1. PICK f : ShiftedIs(f, n, 8) /\ BigEndian(n, 8) = [k \in 1..8 |-> f[8 - k] % 256]
    BY SMT, <1>1
  <2>2. f[0] = n /\ f[1] = b
    BY SMT, <2>1 DEF ShiftedIs
  <2>3. \A k \in 1..7 : f[k] = f[k - 1] \div 256
    BY SMT, <2>1 DEF ShiftedIs
  <2> HIDE DEF b, c, d
  <2>4. f[2] = c /\ f[3] = d
    BY SMT, <1>2, <2>2, <2>3
  <2>5. f[4] = 0
    BY SMT, <1>2, <2>4, <2>3
  <2>6. f[5] = 0 /\ f[6] = 0 /\ f[7] = 0
    BY SMT, <2>3, <2>5
  <2>7. BigEndian(n, 8) = [k \in 1..8 |-> f[8 - k] % 256]
    BY SMT, <2>1
  <2>8. BigEndian(n, 8) = <<f[7] % 256, f[6] % 256, f[5] % 256, f[4] % 256,
                            f[3] % 256, f[2] % 256, f[1] % 256, f[0] % 256>>
    BY SMT, <2>7
  <2> QED
    BY SMT, <1>2, <2>2, <2>4, <2>5, <2>6, <2>8
<1>4. ASSUME n <= 65535 PROVE BigEndian(n, 2) = <<b, n % 256>>
  <2>1. PICK f : ShiftedIs(f, n, 2) /\ BigEndian(n, 2) = [k \in 1..2 |-> f[2 - k] % 256]
    BY SMT, <1>1
  <2>2. f[0] = n /\ f[1] = b
    BY SMT, <2>1 DEF ShiftedIs
  <2> HIDE DEF b, c, d
  <2>3. BigEndian(n, 2) = <<f[1] % 256, f[0] % 256>>
    BY SMT, <2>1
  <2> QED
    BY SMT, <1>2, <1>4, <2>2, <2>3
<1> QED
  BY ONLY SMT, <1>3, <1>4

\* encode_data chooses the form of a length that takes the fewest bytes.
LEMMA LengthIsLeast ==
    ASSUME NEW n \in Nat, n <= MaxString
    PROVE  /\ Length(n) = LeastForm(n, 0)
           /\ Length(n) \in Seq(Byte)
<1> DEFINE d == n \div 16777216
           c == (n \div 65536) % 256
           b == n \div 256
           a == n % 256
           two == <<126, b, a>>
           eight == <<127, 0, 0, 0, 0, d, c, b % 256, a>>
<1>3. 0 + 127 = 127 /\ 0 + 126 = 126 /\ 0 + n = n
  BY SMT
<1>4. d \in Byte /\ c \in Byte /\ b % 256 \in Byte /\ a \in Byte
      /\ (n <= 65535 => b \in Byte)
      /\ (n <= 125 => n \in Byte)
      /\ 0 \in Byte /\ 126 \in Byte /\ 127 \in Byte
  <2>1. \A x \in Nat : x % 256 \in Byte
    BY SMT DEF Byte
  <2>2. n \div 65536 \in Nat /\ b \in Nat
    BY SMT
  <2> QED
    BY SMT, <2>1, <2>2, Divided DEF Byte
<1>5. Length(n) = IF n <= 125 THEN <<n>> ELSE IF n <= 65535 THEN two ELSE eight
  BY SMT DEF Length
<1> HIDE DEF a, b, c, d
<1>6. Length(n) \in Seq(Byte)
  BY SMT, <1>4, <1>5
<1>7. Len(<<n>>) = 1 /\ Len(two) = 3 /\ Len(eight) = 9
  BY SMT
<1>8. <<127>> \o BigEndian(n, 8) = eight
  <2> DEFINE p == <<127>>
             q == <<0, 0, 0, 0, d, c, b % 256, a>>
  <2>1. BigEndian(n, 8) = q
    BY SMT, BigEndianIs DEF a, b, c, d
  <2>2. p \in Seq(Byte) /\ q \in Seq(Byte) /\ eight \in Seq(Byte)
    BY SMT, <1>4
  <2>3. /\ Len(p) = 1 /\ Len(q) = 8 /\ Len(eight) = 9 /\ eight[1] = p[1]
        /\ eight[2] = q[1] /\ eight[3] = q[2] /\ eight[4] = q[3] /\ eight[5] = q[4]
        /\ eight[6] = q[5] /\ eight[7] = q[6] /\ eight[8] = q[7] /\ eight[9] = q[8]
    BY SMT
  <2> HIDE DEF p, q, eight
  <2>4. Len(p) = 1 /\ Len(eight) = 1 + Len(q) /\ eight[1] = p[1]
    BY SMT, <2>3
  <2>5. \A i \in 1..Len(q) : eight[1 + i] = q[i]
    BY SMT, <2>3
  <2>6. p \o q = eight
    BY ONLY <2>2, <2>4, <2>5, Joined
  <2> QED
    BY SMT, <2>1, <2>6 DEF p
<1>9. n <= 65535 => <<126>> \o BigEndian(n, 2) = two
  <2> SUFFICES ASSUME n <= 65535 PROVE <<126>> \o BigEndian(n, 2) = two
    BY SMT
  <2> DEFINE p == <<126>>
             q == <<b, a>>
  <2>1. BigEndian(n, 2) = q
    BY SMT, BigEndianIs DEF a, b
  <2>2. p \in Seq(Byte) /\ q \in Seq(Byte) /\ two \in Seq(Byte)
    BY SMT, <1>4
  <2>3. /\ Len(p) = 1 /\ Len(q) = 2 /\ Len(two) = 3 /\ two[1] = p[1]
        /\ two[2] = q[1] /\ two[3] = q[2]
    BY SMT
  <2> HIDE DEF p, q, two
  <2>4. Len(p) = 1 /\ Len(two) = 1 + Len(q) /\ two[1] = p[1]
    BY SMT, <2>3
  <2>5. \A i \in 1..Len(q) : two[1 + i] = q[i]
    BY SMT, <2>3
  <2>6. p \o q = two
    BY ONLY <2>2, <2>4, <2>5, Joined
  <2> QED
    BY SMT, <2>1, <2>6 DEF p
<1> HIDE DEF two, eight
<1> DEFINE x1 == <<n>>
           x2 == <<126>> \o BigEndian(n, 2)
           x8 == <<127>> \o BigEndian(n, 8)
<1>10. LengthForms(n, 0) = (IF n <= 125 THEN {x1} ELSE {})
                           \union (IF n <= 65535 THEN {x2} ELSE {}) \union {x8}
  <2>1. (n < 126 <=> n <= 125) /\ (n < 65536 <=> n <= 65535)
    BY SMT
  <2> QED
    BY ONLY SMT, <1>3, <2>1 DEF LengthForms
<1>11. x8 = eight /\ (n <= 65535 => x2 = two) /\ Len(x1) = 1
       /\ Length(n) = IF n <= 125 THEN x1 ELSE IF n <= 65535 THEN two ELSE eight
  BY SMT, <1>5, <1>7, <1>8, <1>9
<1> HIDE DEF x1, x2, x8
<1>12. ASSUME NEW f \in LengthForms(n, 0)
       PROVE  (n <= 125 /\ f = x1) \/ (n <= 65535 /\ f = two) \/ f = eight
  BY SMT, <1>10, <1>11
<1>13. ASSUME NEW f \in LengthForms(n, 0)
       PROVE  /\ Len(Length(n)) <= Len(f)
              /\ Len(f) <= Len(Length(n)) => f = Length(n)
  <2>1. (n <= 125 /\ f = x1) \/ (n <= 65535 /\ f = two) \/ f = eight
    BY SMT, <1>12
  <2>2. CASE n <= 125
    <3>1. Length(n) = x1 /\ Len(Length(n)) = 1
      BY SMT, <1>11, <2>2
    <3>2. f = Length(n) \/ Len(f) = 3 \/ Len(f) = 9
      BY SMT, <1>7, <2>1, <3>1
    <3>3. CASE f = Length(n)
      <4>1. 1 <= 1 /\ 3 <= 3
        OBVIOUS
      <4> QED
        BY ONLY <3>1, <3>3, <4>1
    <3>4. CASE Len(f) = 3 \/ Len(f) = 9
      <4>1. 1 <= 3 /\ 1 <= 9 /\ 3 <= 9 /\ ~(3 <= 1) /\ ~(9 <= 1) /\ ~(9 <= 3)
        OBVIOUS
      <4> QED
        BY ONLY <3>1, <3>4, <4>1
    <3> QED
      BY ONLY SMT, <3>2, <3>3, <3>4
  <2>3. CASE n > 125 /\ n <= 65535
    <3>1. Length(n) = two /\ Len(Length(n)) = 3
      BY SMT, <1>7, <1>11, <2>3
    <3>2. f = Length(n) \/ Len(f) = 9
      BY SMT, <1>7, <2>1, <2>3, <3>1
    <3>3. CASE f = Length(n)
      <4>1. 1 <= 1 /\ 3 <= 3
        OBVIOUS
      <4> QED
        BY ONLY <3>1, <3>3, <4>1
    <3>4. CASE Len(f) = 9
      <4>1. 1 <= 3 /\ 1 <= 9 /\ 3 <= 9 /\ ~(3 <= 1) /\ ~(9 <= 1) /\ ~(9 <= 3)
        OBVIOUS
      <4> QED
        BY ONLY <3>1, <3>4, <4>1
    <3> QED
      BY ONLY SMT, <3>2, <3>3, <3>4
  <2>4. CASE n > 65535
    BY SMT, <1>7, <1>11, <2>1, <2>4
  <2> QED
    BY SMT, <2>2, <2>3, <2>4
<1>14. Length(n) \in LengthForms(n, 0)
  BY SMT, <1>10, <1>11
<1>15. LeastForm(n, 0) = Length(n)
  BY SMT, <1>13, <1>14 DEF LeastForm
<1> QED
  BY ONLY SMT, <1>6, <1>15

-----------------------------------------------------------------------------
\* What is taken for a string of C is a sequence, all of it without a NUL byte.
LEMMA CutIs ==
    ASSUME NEW S, NEW s \in Seq(S)
    PROVE  Cut(s) \in Seq(S) /\ (~Has(s, 0) => Cut(s) = s)
<1>1. CASE ~Has(s, 0)
  BY <1>1 DEF Cut, Has
<1>2. CASE Has(s, 0)
  <2> DEFINE I == {i \in 1..Len(s) : s[i] = 0}
  <2>1. I # {} /\ I \in SUBSET Nat
    BY <1>2 DEF Has
  <2>2. Min(I) \in I
    <3>1. \E x \in I : \A y \in I : x <= y
      <4> HIDE DEF I
      <4> QED
        BY <2>1, LeastExists
    <3> QED
      BY <3>1 DEF Min
  <2>3. Cut(s) = SubSeq(s, 1, Min(I) - 1)
    BY <1>2, <2>1 DEF Cut, Has, SelectInSeq
  <2>4. Min(I) - 1 \in 0..Len(s)
    BY <2>2
  <2>5. SubSeq(s, 1, Min(I) - 1) \in Seq(S)
    <3> HIDE DEF I
    <3> QED
      BY <2>4, SubSeqProperties
  <2> QED
    BY <1>2, <2>3, <2>5
<1> QED
  BY <1>1, <1>2

\* What is written is as long as announced, and is the frame when it is that long.
LEMMA WrittenIs ==
    ASSUME NEW S, NEW b \in Seq(S), NEW n \in Nat
    PROVE  /\ Len(Written([bytes |-> b, outlen |-> n])) = n
           /\ n = Len(b) => Written([bytes |-> b, outlen |-> n]) = b
<1> DEFINE w == Written([bytes |-> b, outlen |-> n])
<1>1. w = [k \in 1..n |-> IF k <= Len(b) THEN b[k]
                          ELSE IF k = Len(b) + 1 THEN 0 ELSE Unknown]
  BY DEF Written
<1>2. Len(w) = n
  BY <1>1
<1>3. ASSUME n = Len(b) PROVE w = b
  <2>1. w = [k \in 1..n |-> b[k]]
    BY <1>1, <1>3
  <2>2. b = [k \in 1..n |-> b[k]]
    BY <1>3
  <2> QED
    BY <2>1, <2>2
<1> QED
  BY <1>2, <1>3

\* What encode_data writes for a message is as long as its head announces, and
\* is head and message when that has no NUL byte.
LEMMA FrameWritten ==
    ASSUME NEW m \in Seq(Byte), Len(m) <= MaxString,
           NEW frame, frame = Written(Encode(m, WS_FRAME.STRING)),
           NEW head, head = <<128 + WS_FRAME.STRING>> \o LeastForm(Len(m), 0)
    PROVE  Len(frame) = Len(head) + Len(m) /\ (~Has(m, 0) => frame = head \o m)
<1> DEFINE L == Length(Len(m))
           p == <<128 + WS_FRAME.STRING>>
<1>1. L = LeastForm(Len(m), 0) /\ L \in Seq(Byte) /\ Len(L) \in Nat /\ Len(m) \in Nat
  BY LengthIsLeast
<1>2. p \in Seq(Byte) /\ Len(p) = 1
  BY DEF Byte, WS_FRAME
<1>3. Encode(m, WS_FRAME.STRING) = [bytes  |-> head \o Cut(m), outlen |-> 1 + Len(L) + Len(m)]
  BY <1>1 DEF Encode
<1> HIDE DEF p, L
<1>4. head = p \o L
  BY <1>1 DEF p
<1>5. head \in Seq(Byte) /\ Len(head) = 1 + Len(L)
  BY <1>1, <1>2, <1>4
<1>6. Cut(m) \in Seq(Byte) /\ (~Has(m, 0) => Cut(m) = m)
  BY CutIs
<1>7. head \o Cut(m) \in Seq(Byte) /\ Len(head \o Cut(m)) = Len(head) + Len(Cut(m))
  BY <1>5, <1>6
<1>8. 1 + Len(L) + Len(m) \in Nat
  BY <1>1
<1>9. Len(frame) = 1 + Len(L) + Len(m)
  <2>1. frame = Written([bytes |-> head \o Cut(m), outlen |-> 1 + Len(L) + Len(m)])
    BY <1>3
  <2>2. Len(Written([bytes |-> head \o Cut(m), outlen |-> 1 + Len(L) + Len(m)]))
        = 1 + Len(L) + Len(m)
    BY ONLY <1>7, <1>8, WrittenIs
  <2> QED
    BY <2>1, <2>2
<1>10. ASSUME ~Has(m, 0) PROVE frame = head \o m
  <2>1. Len(head \o m) = 1 + Len(L) + Len(m) /\ head \o m \in Seq(Byte)
    BY <1>5
  <2>2. Encode(m, WS_FRAME.STRING) = [bytes |-> head \o m, outlen |-> 1 + Len(L) + Len(m)]
    BY <1>3, <1>6, <1>10
  <2> QED
    BY <1>8, <2>1, <2>2, WrittenIs
<1> QED
  BY <1>5, <1>9, <1>10

\* What it writes in hixie-76 is the message up to its first NUL in its two bytes.
LEMMA HixieFrameWritten ==
    ASSUME NEW m \in Seq(Byte)
    PROVE  Written(EncodeHixie76(m, WS_FRAME.STRING)) = <<0>> \o Cut(m) \o <<255>>
<1> DEFINE b == <<0>> \o Cut(m) \o <<255>>
<1>1. Cut(m) \in Seq(Byte)
  BY CutIs
<1>2. b \in Seq(Byte) /\ Len(b) \in Nat
  BY <1>1 DEF Byte
<1>3. EncodeHixie76(m, WS_FRAME.STRING) = [bytes |-> b, outlen |-> Len(b)]
  BY DEF EncodeHixie76, WS_FRAME
<1> HIDE DEF b
<1>4. Written(EncodeHixie76(m, WS_FRAME.STRING)) = b
  BY <1>2, <1>3, WrittenIs
<1> QED
  BY <1>4 DEF b

-----------------------------------------------------------------------------
\* Where the parts of two sequences one behind the other stand.
LEMMA TwoParts ==
    ASSUME NEW S, NEW a \in Seq(S), NEW b \in Seq(S)
    PROVE  /\ a \o b \in Seq(S) /\ Len(a \o b) = Len(a) + Len(b)
           /\ \A i \in 1..Len(a) : (a \o b)[i] = a[i]
           /\ \A i \in 1..Len(b) : (a \o b)[Len(a) + i] = b[i]
  OBVIOUS

\* Where the parts of a masked frame stand in it.
Holds4(S, a, b, c, d, f) ==
    /\ f \in Seq(S) /\ Len(f) = Len(a) + Len(b) + Len(c) + Len(d)
    /\ \A i \in 1..Len(a) : f[i] = a[i]
    /\ \A i \in 1..Len(b) : f[Len(a) + i] = b[i]
    /\ \A i \in 1..Len(c) : f[Len(a) + Len(b) + i] = c[i]
    /\ \A i \in 1..Len(d) : f[Len(a) + Len(b) + Len(c) + i] = d[i]

\* Four sequences one behind the other are parts in that sense.
LEMMA FourParts ==
    ASSUME NEW S, NEW a \in Seq(S), NEW b \in Seq(S), NEW c \in Seq(S), NEW d \in Seq(S),
           NEW f, f = a \o b \o c \o d
    PROVE  Holds4(S, a, b, c, d, f)
<1> DEFINE g == a \o b
           h == g \o c
<1>1. /\ g \in Seq(S) /\ Len(g) = Len(a) + Len(b)
      /\ \A i \in 1..Len(a) : g[i] = a[i]
      /\ \A i \in 1..Len(b) : g[Len(a) + i] = b[i]
  OBVIOUS
<1> HIDE DEF g
<1>2. /\ h \in Seq(S) /\ Len(h) = Len(g) + Len(c)
      /\ \A i \in 1..Len(g) : h[i] = g[i]
      /\ \A i \in 1..Len(c) : h[Len(g) + i] = c[i]
  <2>1. g \in Seq(S)
    BY <1>1
  <2> QED
    BY ONLY <2>1, c \in Seq(S), TwoParts
<1> HIDE DEF h
<1>3. f = h \o d
  BY DEF g, h
<1>4. /\ f \in Seq(S) /\ Len(f) = Len(h) + Len(d)
      /\ \A i \in 1..Len(h) : f[i] = h[i]
      /\ \A i \in 1..Len(d) : f[Len(h) + i] = d[i]
  <2>1. h \in Seq(S)
    BY <1>2
  <2>2. /\ h \o d \in Seq(S) /\ Len(h \o d) = Len(h) + Len(d)
        /\ \A i \in 1..Len(h) : (h \o d)[i] = h[i]
        /\ \A i \in 1..Len(d) : (h \o d)[Len(h) + i] = d[i]
    BY ONLY <2>1, d \in Seq(S), TwoParts
  <2> QED
    BY ONLY <1>3, <2>2
<1>5. Len(a) \in Nat /\ Len(b) \in Nat /\ Len(c) \in Nat /\ Len(d) \in Nat
  OBVIOUS
<1>6. \A i \in 1..Len(a) : f[i] = a[i]
  BY <1>1, <1>2, <1>4, <1>5
<1>7. \A i \in 1..Len(b) : f[Len(a) + i] = b[i]
  BY <1>1, <1>2, <1>4, <1>5
<1>8. \A i \in 1..Len(c) : f[Len(a) + Len(b) + i] = c[i]
  BY <1>1, <1>2, <1>4, <1>5
<1>9. \A i \in 1..Len(d) : f[Len(a) + Len(b) + Len(c) + i] = d[i]
  BY <1>1, <1>2, <1>4, <1>5
<1> QED
  BY <1>1, <1>2, <1>4, <1>6, <1>7, <1>8, <1>9 DEF Holds4

\* The first byte of each form of a length says how many bytes it has.
LEMMA FormIs ==
    ASSUME NEW n \in Nat, n <= MaxString, NEW form \in LengthForms(n, 128)
    PROVE  /\ form \in Seq(Byte)
           /\ \/ Len(form) = 1 /\ form[1] % 128 \notin {126, 127}
              \/ Len(form) = 3 /\ form[1] % 128 = 126
              \/ Len(form) = 9 /\ form[1] % 128 = 127
<1> DEFINE x1 == <<128 + n>>
           p2 == <<254>>
           q2 == BigEndian(n, 2)
           p8 == <<255>>
           q8 == BigEndian(n, 8)
<1>1. (n < 126 /\ form = x1) \/ (n <= 65535 /\ form = p2 \o q2) \/ form = p8 \o q8
  <2>1. 128 + 126 = 254 /\ 128 + 127 = 255 /\ (n < 65536 <=> n <= 65535)
    BY SMT
  <2> HIDE DEF x1, q2, q8
  <2>2. LengthForms(n, 128) = (IF n < 126 THEN {x1} ELSE {})
                \union (IF n < 65536 THEN {<<128 + 126>> \o q2} ELSE {})
                \union {<<128 + 127>> \o q8}
    BY SMT DEF LengthForms, x1, q2, q8
  <2> QED
    BY SMT, <2>1, <2>2
<1>2. p2 \in Seq(Byte) /\ Len(p2) = 1 /\ p2[1] = 254 /\ 254 % 128 = 126
  BY SMT DEF Byte
<1>3. p8 \in Seq(Byte) /\ Len(p8) = 1 /\ p8[1] = 255 /\ 255 % 128 = 127
  BY SMT DEF Byte
<1>4. n < 126 => x1 \in Seq(Byte) /\ Len(x1) = 1 /\ x1[1] % 128 \notin {126, 127}
  BY SMT DEF Byte
<1>5. \A x \in Nat : x % 256 \in Byte
  BY SMT DEF Byte
<1>6. n \div 65536 \in Nat /\ n \div 256 \in Nat /\ n \div 16777216 \in Byte
      /\ (n <= 65535 => n \div 256 \in Byte) /\ 0 \in Byte
  BY SMT, Divided DEF Byte
<1>7. q8 \in Seq(Byte) /\ Len(q8) = 8
  <2> DEFINE d == n \div 16777216
             c == (n \div 65536) % 256
             b == (n \div 256) % 256
             a == n % 256
  <2>1. q8 = <<0, 0, 0, 0, d, c, b, a>>
    BY SMT, BigEndianIs
  <2>2. d \in Byte /\ c \in Byte /\ b \in Byte /\ a \in Byte
    BY SMT, <1>5, <1>6
  <2> HIDE DEF q8, a, b, c, d
  <2> QED
    BY SMT, <1>6, <2>1, <2>2
<1>8. ASSUME n <= 65535 PROVE q2 \in Seq(Byte) /\ Len(q2) = 2
  <2> DEFINE b == n \div 256
             a == n % 256
  <2>1. q2 = <<b, a>>
    BY SMT, <1>8, BigEndianIs
  <2>2. b \in Byte /\ a \in Byte
    BY SMT, <1>5, <1>6, <1>8
  <2> HIDE DEF q2, a, b
  <2> QED
    BY SMT, <2>1, <2>2
<1> HIDE DEF x1, p2, q2, p8, q8
<1>9. CASE n < 126 /\ form = x1
  BY SMT, <1>4, <1>9
<1>10. CASE n <= 65535 /\ form = p2 \o q2
  <2>1. form \in Seq(Byte) /\ Len(form) = 3 /\ form[1] = p2[1]
    <3>1. q2 \in Seq(Byte) /\ Len(q2) = 2
      BY SMT, <1>8, <1>10
    <3>2. p2 \in Seq(Byte) /\ Len(p2) + Len(q2) = 3 /\ 1 \in 1..Len(p2)
      BY SMT, <1>2, <3>1
    <3> QED
      BY ONLY <1>10, <3>1, <3>2, TwoParts
  <2> QED
    BY SMT, <1>2, <2>1
<1>11. CASE form = p8 \o q8
  <2>1. form \in Seq(Byte) /\ Len(form) = 9 /\ form[1] = p8[1]
    <3>1. p8 \in Seq(Byte) /\ q8 \in Seq(Byte) /\ Len(p8) + Len(q8) = 9 /\ 1 \in 1..Len(p8)
      BY SMT, <1>3, <1>7, <1>11
    <3> QED
      BY ONLY <1>11, <3>1, TwoParts
  <2> QED
    BY SMT, <1>3, <2>1
<1> QED
  BY SMT, <1>1, <1>9, <1>10, <1>11

\* A masking key is four bytes.
LEMMA KeyIs ==
    ASSUME NEW mask \in [1..4 -> Byte]
    PROVE  mask \in Seq(Byte) /\ Len(mask) = 4 /\ \A k \in 1..4 : mask[k] \in Byte
<1>1. PICK n \in Nat : n = 4
  OBVIOUS
<1>2. mask \in [1..n -> Byte]
  BY <1>1
<1>3. mask \in Seq(Byte) /\ Len(mask) = n
  BY ONLY n \in Nat, <1>2, IsSequence
<1> QED
  BY <1>1, <1>3

\* Unmasking a masked frame gives its message and its type, for every key and
\* every form of the length.
LEMMA FrameDecoded ==
    ASSUME NEW m \in Seq(Byte), Len(m) <= MaxString, NEW mask \in [1..4 -> Byte],
           NEW type \in {1, 2}, NEW form \in LengthForms(Len(m), 128),
           NEW frame, frame = MaskedFrame(type, form, mask, m)
    PROVE  OpcodeRfc6455(frame) = type /\ Decode(frame) = m
<1> DEFINE p == <<128 + type>>
           key(k) == mask[1 + ((k - 1) % 4)]
           body == [k \in DOMAIN m |-> ByteXor(m[k], key(k))]
           l == Len(form)
           n == Len(m)
<1>1. frame = p \o form \o mask \o body
  BY DEF MaskedFrame
<1>2. p \in Seq(Byte) /\ Len(p) = 1 /\ p[1] % 128 = type
  <2>1. CASE type = 1
    BY ONLY <2>1 DEF Byte
  <2>2. CASE type = 2
    BY ONLY <2>2 DEF Byte
  <2> QED
    BY <2>1, <2>2
<1>3. /\ form \in Seq(Byte) /\ l \in Nat /\ l >= 1
      /\ \/ l = 1 /\ form[1] % 128 \notin {126, 127}
         \/ l = 3 /\ form[1] % 128 = 126
         \/ l = 9 /\ form[1] % 128 = 127
  <2>1. n \in Nat
    OBVIOUS
  <2>2. /\ form \in Seq(Byte)
        /\ \/ Len(form) = 1 /\ form[1] % 128 \notin {126, 127}
           \/ Len(form) = 3 /\ form[1] % 128 = 126
           \/ Len(form) = 9 /\ form[1] % 128 = 127
    BY <2>1, FormIs
  <2> QED
    BY <2>2
<1>4. mask \in Seq(Byte) /\ Len(mask) = 4 /\ \A k \in 1..4 : mask[k] \in Byte
  BY KeyIs
<1>5. n \in Nat /\ DOMAIN m = 1..n /\ \A k \in 1..n : m[k] \in Byte /\ key(k) \in Byte
  <2>1. \A k \in 1..n : 1 + ((k - 1) % 4) \in 1..4
    OBVIOUS
  <2> QED
    BY <1>4, <2>1
<1>6. body \in Seq(Byte) /\ Len(body) = n
      /\ \A k \in 1..n : body[k] = ByteXor(m[k], key(k))
  <2>1. body \in [1..n -> Byte]
    BY <1>5, XorTwice
  <2> HIDE DEF key
  <2>2. \A k \in 1..n : body[k] = ByteXor(m[k], key(k))
    BY <1>5
  <2> HIDE DEF body
  <2> QED
    BY <1>5, <2>1, <2>2, IsSequence
<1> HIDE DEF p, body, key
<1>7. /\ frame \in Seq(Byte) /\ Len(frame) = Len(p) + Len(form) + Len(mask) + Len(body)
      /\ \A i \in 1..Len(p) : frame[i] = p[i]
      /\ \A i \in 1..Len(form) : frame[Len(p) + i] = form[i]
      /\ \A i \in 1..Len(mask) : frame[Len(p) + Len(form) + i] = mask[i]
      /\ \A i \in 1..Len(body) : frame[Len(p) + Len(form) + Len(mask) + i] = body[i]
  <2> HIDE DEF l, n
  <2>1. p \in Seq(Byte)
    BY <1>2
  <2>2. form \in Seq(Byte)
    BY <1>3
  <2>3. mask \in Seq(Byte)
    BY <1>4
  <2>4. body \in Seq(Byte)
    BY <1>6
  <2>5. Holds4(Byte, p, form, mask, body, frame)
    BY ONLY <1>1, <2>1, <2>2, <2>3, <2>4, FourParts
  <2> QED
    BY ONLY <2>5 DEF Holds4
<1>8. Len(frame) = 5 + l + n /\ frame[1] = p[1] /\ frame[2] = form[1]
  BY <1>2, <1>3, <1>4, <1>6, <1>7
<1>9. OpcodeRfc6455(frame) = type
  BY <1>2, <1>8 DEF OpcodeRfc6455
<1>10. MaskAt(frame) = 1 + l
  <2>1. MaskAt(frame) = IF form[1] % 128 = 126 THEN 4
                        ELSE IF form[1] % 128 = 127 THEN 10 ELSE 2
    BY <1>8 DEF MaskAt
  <2>2. CASE l = 1 /\ form[1] % 128 \notin {126, 127}
    BY ONLY <2>1, <2>2
  <2>3. CASE l = 3 /\ form[1] % 128 = 126
    BY ONLY <2>1, <2>3
  <2>4. CASE l = 9 /\ form[1] % 128 = 127
    BY ONLY <2>1, <2>4
  <2> QED
    BY <1>3, <2>2, <2>3, <2>4
<1>11. ~(Len(frame) < 2) /\ Len(frame) - (1 + l) - 4 = n
  BY <1>3, <1>5, <1>8
<1>12. Decode(frame) = [k \in 1..n |-> ByteXor(frame[(1 + l) + 4 + k],
                                              frame[(1 + l) + 1 + ((k - 1) % 4)])]
  BY <1>10, <1>11 DEF Decode
<1>13. ASSUME NEW k \in 1..n
       PROVE  ByteXor(frame[(1 + l) + 4 + k], frame[(1 + l) + 1 + ((k - 1) % 4)]) = m[k]
  <2>1. frame[(1 + l) + 4 + k] = body[k]
    BY <1>2, <1>3, <1>4, <1>6, <1>7
  <2>2. 1 + ((k - 1) % 4) \in 1..4
        /\ (1 + l) + 1 + ((k - 1) % 4) = 1 + l + (1 + ((k - 1) % 4))
    BY <1>3
  <2>3. \A i \in 1..4 : frame[1 + l + i] = mask[i]
    BY <1>2, <1>4, <1>7
  <2>4. frame[(1 + l) + 1 + ((k - 1) % 4)] = key(k)
    BY <2>2, <2>3 DEF key
  <2>5. ByteXor(ByteXor(m[k], key(k)), key(k)) = m[k]
    BY <1>5, XorTwice
  <2> QED
    BY <1>6, <2>1, <2>4, <2>5
<1>14. Decode(frame) = [k \in 1..n |-> m[k]]
  BY <1>12, <1>13
<1>15. m = [k \in 1..n |-> m[k]]
  OBVIOUS
<1> QED
  BY <1>9, <1>14, <1>15

-----------------------------------------------------------------------------
\* The recursive function of Scan.
Start == [open |-> FALSE, buf |-> << >>]
ScanIs(f, data) ==
    f = [i \in 0..Len(data) |-> IF i = 0 THEN Start ELSE Scanned(f[i - 1], data[i])]

\* There is a function that scans a buffer byte by byte.
LEMMA ScanExists ==
    ASSUME NEW data \in Seq(Byte)
    PROVE  \E f : ScanIs(f, data)
<1> DEFINE Upto(f, n) ==
               /\ f = [i \in 0..n |-> f[i]]
               /\ \A i \in 0..n : f[i] = IF i = 0 THEN Start ELSE Scanned(f[i - 1], data[i])
           S == {n \in 0..Len(data) : \E f : Upto(f, n)}
<1>1. S = 0..Len(data)
  <2>1. 0 \in S
    <3>1. Upto([i \in 0..0 |-> Start], 0) /\ 0 \in 0..Len(data)
      OBVIOUS
    <3> HIDE DEF Upto
    <3> QED
      BY <3>1
  <2>2. ASSUME NEW n \in 1..Len(data), n - 1 \in S PROVE n \in S
    <3>1. PICK g : Upto(g, n - 1)
      <4> HIDE DEF Upto
      <4> QED
        BY <2>2
    <3> DEFINE x == Scanned(g[n - 1], data[n])
               f == [i \in 0..n |-> IF i = n THEN x ELSE g[i]]
    <3>2. n \in Nat /\ n > 0 /\ n - 1 \in Nat
      OBVIOUS
    <3>3. f = [i \in 0..n |-> f[i]]
      OBVIOUS
    <3>4. \A i \in 0..n : i # n => i \in 0..(n - 1) /\ f[i] = g[i]
      BY <3>2
    <3>5. f[n] = x /\ f[n - 1] = g[n - 1]
      BY <3>2
    <3> HIDE DEF f
    <3>6. ASSUME NEW i \in 0..n
          PROVE  f[i] = IF i = 0 THEN Start ELSE Scanned(f[i - 1], data[i])
      <4>1. CASE i = n
        BY <3>2, <3>5, <4>1
      <4>2. CASE i # n
        <5>1. i = 0 \/ (i - 1 \in 0..n /\ i - 1 # n)
          BY <3>2
        <5> QED
          BY <3>1, <3>4, <4>2, <5>1
      <4> QED
        BY <4>1, <4>2
    <3>7. Upto(f, n)
      BY <3>3, <3>6
    <3>8. n \in 0..Len(data)
      OBVIOUS
    <3> HIDE DEF Upto
    <3> QED
      BY <3>7, <3>8
  <2>3. Len(data) \in Nat /\ S \in SUBSET (0..Len(data))
    OBVIOUS
  <2> HIDE DEF S
  <2> QED
    BY <2>1, <2>2, <2>3, InductionUpTo
<1>2. Len(data) \in Nat
  OBVIOUS
<1>3. PICK f : Upto(f, Len(data))
  <2> HIDE DEF Upto
  <2> QED
    BY <1>1, <1>2
<1>4. [i \in 0..Len(data) |-> f[i]] =
          [i \in 0..Len(data) |-> IF i = 0 THEN Start ELSE Scanned(f[i - 1], data[i])]
  BY <1>3
<1> QED
  BY <1>3, <1>4 DEF ScanIs

\* The values of the scan of a buffer: the last is its result, and each follows
\* from the one before.
Scans(f, data) == /\ Scan(data) = f[Len(data)] /\ f[0] = Start
                  /\ \A i \in 1..Len(data) : f[i] = Scanned(f[i - 1], data[i])

\* There is such a function for every buffer.
LEMMA ScanUnfolds ==
    ASSUME NEW data \in Seq(Byte)
    PROVE  \E f : Scans(f, data)
<1> DEFINE f == CHOOSE g : ScanIs(g, data)
<1>1. ScanIs(f, data)
  BY ScanExists
<1>2. Scan(data) = f[Len(data)]
  BY DEF Scan, ScanIs, Start
<1> HIDE DEF f
<1>3. \A i \in 0..Len(data) : f[i] = IF i = 0 THEN Start ELSE Scanned(f[i - 1], data[i])
  BY <1>1 DEF ScanIs
<1>4. 0 \in 0..Len(data) /\ \A i \in 1..Len(data) : i \in 0..Len(data) /\ i # 0
  OBVIOUS
<1>5. f[0] = Start /\ \A i \in 1..Len(data) : f[i] = Scanned(f[i - 1], data[i])
  BY <1>3, <1>4
<1> QED
  BY <1>2, <1>5 DEF Scans

\* The states of the scan.
Scanning == [open : BOOLEAN, buf : Seq(Byte)]

\* A byte closes an open message, is added to it or opens one.
LEMMA ScannedIs ==
    ASSUME NEW st \in Scanning, NEW b \in Byte
    PROVE  /\ Scanned(st, b) \in Scanning
           /\ b = 255 => ~Scanned(st, b).open /\ Scanned(st, b).buf = st.buf
           /\ st.open /\ b # 255 => Scanned(st, b).open /\ Scanned(st, b).buf = Append(st.buf, b)
           /\ ~st.open /\ b = 0 => Scanned(st, b).open /\ Scanned(st, b).buf = st.buf
<1>1. st.open \in BOOLEAN /\ st.buf \in Seq(Byte)
  BY DEF Scanning
<1>2. CASE st.open /\ b = 255
  <2>1. Scanned(st, b) = [st EXCEPT !.open = FALSE]
    BY <1>2 DEF Scanned
  <2> QED
    BY <1>1, <1>2, <2>1 DEF Scanning
<1>3. CASE st.open /\ b # 255
  <2>1. Scanned(st, b) = [st EXCEPT !.buf = Append(st.buf, b)]
    BY <1>3 DEF Scanned
  <2>2. Append(st.buf, b) \in Seq(Byte)
    BY <1>1
  <2> QED
    BY <1>1, <1>3, <2>1, <2>2 DEF Scanning
<1>4. CASE ~st.open
  <2>1. Scanned(st, b) = [st EXCEPT !.open = (b = 0)]
    BY <1>4 DEF Scanned
  <2>2. Scanned(st, b) \in Scanning
    BY <2>1 DEF Scanning
  <2>3. (Scanned(st, b).open <=> b = 0) /\ Scanned(st, b).buf = st.buf
    BY <2>1 DEF Scanning
  <2>4. b = 255 => b # 0
    OBVIOUS
  <2> QED
    BY <1>4, <2>2, <2>3, <2>4
<1> QED
  BY <1>1, <1>2, <1>3, <1>4

\* The scan stays in those states.
LEMMA ScanTyped ==
    ASSUME NEW data \in Seq(Byte), NEW f, Scans(f, data)
    PROVE  \A i \in 0..Len(data) : f[i] \in Scanning
<1> DEFINE S == {i \in 0..Len(data) : f[i] \in Scanning}
<1>1. Len(data) \in Nat /\ S \in SUBSET (0..Len(data))
  OBVIOUS
<1>2. 0 \in S
  <2>1. Start \in Scanning
    <3>1. << >> \in Seq(Byte)
      OBVIOUS
    <3> QED
      BY ONLY <3>1 DEF Start, Scanning
  <2> QED
    BY <1>1, <2>1 DEF Scans
<1>3. ASSUME NEW i \in 1..Len(data), i - 1 \in S PROVE i \in S
  <2>1. data[i] \in Byte /\ f[i - 1] \in Scanning /\ i \in 0..Len(data)
    BY <1>3
  <2>2. f[i] = Scanned(f[i - 1], data[i])
    BY DEF Scans
  <2> QED
    BY <2>1, <2>2, ScannedIs
<1>4. S = 0..Len(data)
  <2> HIDE DEF S
  <2> QED
    BY <1>1, <1>2, <1>3, InductionUpTo
<1> QED
  BY <1>4

\* A buffer that ends in 0xff is closed.
LEMMA ScanCloses ==
    ASSUME NEW data \in Seq(Byte), data # << >>, data[Len(data)] = 255
    PROVE  ~Scan(data).open
<1>1. PICK f : Scans(f, data)
  BY ScanUnfolds
<1>2. Len(data) \in 1..Len(data) /\ Len(data) - 1 \in 0..Len(data) /\ 255 \in Byte
  BY DEF Byte
<1>3. f[Len(data) - 1] \in Scanning
  BY <1>1, <1>2, ScanTyped
<1>4. f[Len(data)] = Scanned(f[Len(data) - 1], 255)
  BY <1>1, <1>2 DEF Scans
<1>5. ~Scanned(f[Len(data) - 1], 255).open
  BY <1>2, <1>3, ScannedIs
<1> QED
  BY <1>1, <1>4, <1>5 DEF Scans

\* A message between the two bytes that frame it is what the decoder finds.
LEMMA HixieDecoded ==
    ASSUME NEW m \in Seq(Byte \ {255}), NEW frame, frame = << 0 >> \o m \o << 255 >>
    PROVE  OpcodeHixie76(frame) = WS_FRAME.STRING /\ DecodeHixie76(frame) = m
<1> DEFINE n == Len(m)
           a == <<0>>
           z == <<255>>
<1>1. m \in Seq(Byte) /\ n \in Nat /\ \A i \in 1..n : m[i] \in Byte /\ m[i] # 255
  OBVIOUS
<1>2. a \in Seq(Byte) /\ z \in Seq(Byte) /\ Len(a) = 1 /\ Len(z) = 1 /\ a[1] = 0 /\ z[1] = 255
  BY DEF Byte
<1>3. frame = (a \o m) \o z
  OBVIOUS
<1> HIDE DEF a, z
<1>4. a \o m \in Seq(Byte) /\ Len(a \o m) = 1 + n /\ (a \o m)[1] = 0
      /\ \A i \in 1..n : (a \o m)[1 + i] = m[i]
  <2>1. /\ a \o m \in Seq(Byte) /\ Len(a \o m) = Len(a) + Len(m)
        /\ \A i \in 1..Len(a) : (a \o m)[i] = a[i]
        /\ \A i \in 1..Len(m) : (a \o m)[Len(a) + i] = m[i]
    <3>1. a \in Seq(Byte)
      BY <1>2
    <3>2. m \in Seq(Byte)
      BY <1>1
    <3> QED
      BY ONLY <3>1, <3>2, TwoParts
  <2> QED
    BY <1>2, <2>1
<1>5. frame \in Seq(Byte) /\ Len(frame) = n + 2 /\ frame[1] = 0 /\ frame[n + 2] = 255
      /\ \A i \in 1..n : frame[1 + i] = m[i]
  <2> DEFINE h == a \o m
  <2> HIDE DEF h
  <2>1. h \in Seq(Byte) /\ Len(h) = 1 + n /\ h[1] = 0 /\ \A i \in 1..n : h[1 + i] = m[i]
    BY <1>4 DEF h
  <2>2. /\ h \o z \in Seq(Byte) /\ Len(h \o z) = Len(h) + Len(z)
        /\ \A i \in 1..Len(h) : (h \o z)[i] = h[i]
        /\ \A i \in 1..Len(z) : (h \o z)[Len(h) + i] = z[i]
    <3>1. z \in Seq(Byte)
      BY <1>2
    <3>2. h \in Seq(Byte)
      BY <2>1
    <3> QED
      BY ONLY <3>1, <3>2, TwoParts
  <2>3. frame = h \o z
    BY <1>3 DEF h
  <2>4. frame \in Seq(Byte) /\ Len(frame) = n + 2 /\ frame[1] = 0
    BY <1>1, <1>2, <2>1, <2>2, <2>3
  <2>5. frame[n + 2] = 255
    <3>1. 1 \in 1..Len(z) /\ Len(h) + 1 = n + 2
      BY <1>1, <1>2, <2>1
    <3> QED
      BY <1>2, <2>2, <2>3, <3>1
  <2>6. ASSUME NEW i \in 1..n PROVE frame[1 + i] = m[i]
    <3>1. 1 + i \in 1..Len(h)
      BY <1>1, <2>1
    <3> QED
      BY <2>1, <2>2, <2>3, <3>1
  <2> QED
    BY <2>4, <2>5, <2>6
<1>6. OpcodeHixie76(frame) = WS_FRAME.STRING
  <2>1. frame[1] # 255
    BY <1>5
  <2>2. frame # <<255, 0>>
    <3>1. <<255, 0>>[1] = 255
      OBVIOUS
    <3> QED
      BY ONLY <2>1, <3>1
  <2> QED
    BY <1>1, <1>5, <2>2 DEF OpcodeHixie76
<1> HIDE DEF n
<1>7. PICK f : Scans(f, frame)
  <2>1. frame \in Seq(Byte)
    BY <1>5
  <2> QED
    BY ONLY <2>1, ScanUnfolds
<1>8. /\ Scan(frame) = f[n + 2] /\ f[0] = Start
      /\ \A i \in 1..(n + 2) : f[i] = Scanned(f[i - 1], frame[i])
      /\ \A i \in 0..(n + 2) : f[i] \in Scanning
  <2>1. frame \in Seq(Byte)
    BY <1>5
  <2>2. Len(frame) = n + 2
    BY <1>5
  <2>3. \A i \in 0..Len(frame) : f[i] \in Scanning
    BY ONLY <1>7, <2>1, ScanTyped
  <2> QED
    BY ONLY <1>7, <2>2, <2>3 DEF Scans
<1> DEFINE Good(i) == /\ f[1 + i].open /\ Len(f[1 + i].buf) = i
                      /\ \A j \in 1..i : f[1 + i].buf[j] = m[j]
           S == {i \in 0..n : Good(i)}
<1>9. 0 \in S
  <2>1. f[0] \in Scanning /\ 0 \in Byte /\ ~f[0].open /\ f[0].buf = << >>
    BY <1>1, <1>8 DEF Start, Byte
  <2>2. f[1] = Scanned(f[0], 0)
    BY <1>1, <1>5, <1>8
  <2>3. f[1].open /\ f[1].buf = << >>
    BY <2>1, <2>2, ScannedIs
  <2> QED
    BY <1>1, <2>3
<1>10. ASSUME NEW i \in 1..n, i - 1 \in S PROVE i \in S
  <2>1. Good(i - 1) /\ 1 + (i - 1) = i
    BY <1>10
  <2>2. f[i].open /\ Len(f[i].buf) = i - 1 /\ \A j \in 1..(i - 1) : f[i].buf[j] = m[j]
    BY <2>1
  <2>3. f[1 + i] = Scanned(f[i], m[i])
    BY <1>1, <1>5, <1>8
  <2>4. f[i] \in Scanning /\ m[i] \in Byte /\ m[i] # 255
    BY <1>1, <1>8
  <2>5. f[1 + i].open /\ f[1 + i].buf = Append(f[i].buf, m[i])
    <3>1. Scanned(f[i], m[i]).open /\ Scanned(f[i], m[i]).buf = Append(f[i].buf, m[i])
      <4>1. f[i] \in Scanning
        BY <2>4
      <4>2. m[i] \in Byte
        BY <2>4
      <4>3. f[i].open /\ m[i] # 255
        BY <2>2, <2>4
      <4> QED
        BY ONLY <4>1, <4>2, <4>3, ScannedIs
    <3> QED
      BY ONLY <2>3, <3>1
  <2>6. f[i].buf \in Seq(Byte)
    BY <2>4 DEF Scanning
  <2>7. Len(f[1 + i].buf) = i /\ \A j \in 1..i : f[1 + i].buf[j] = m[j]
    BY <2>2, <2>4, <2>5, <2>6
  <2>8. Good(i)
    BY <2>5, <2>7
  <2>9. i \in 0..n
    BY <1>1
  <2> HIDE DEF Good
  <2> QED
    BY <2>8, <2>9
<1>11. Good(n)
  <2>1. S \in SUBSET (0..n)
    OBVIOUS
  <2>2. S = 0..n
    <3> HIDE DEF S
    <3> QED
      BY <1>1, <1>9, <1>10, <2>1, InductionUpTo
  <2>3. n \in S
    <3> HIDE DEF S, Good
    <3> QED
      BY <1>1, <2>2
  <2> HIDE DEF Good
  <2> QED
    BY <2>3
<1>12. f[n + 2] = Scanned(f[1 + n], 255) /\ 255 \in Byte /\ f[1 + n] \in Scanning
  <2>1. n + 2 \in 1..(n + 2) /\ (n + 2) - 1 = 1 + n /\ 1 + n \in 0..(n + 2)
    BY <1>1
  <2> QED
    BY <1>5, <1>8, <2>1 DEF Byte
<1>13. Scan(frame).buf = f[1 + n].buf
  BY <1>8, <1>12, ScannedIs
<1>14. f[1 + n].buf = m
  <2>1. f[1 + n].buf \in Seq(Byte)
    BY <1>12 DEF Scanning
  <2>2. m \in Seq(Byte)
    BY <1>1
  <2>3. Len(f[1 + n].buf) = Len(m) /\ Len(m) = n
    BY <1>11 DEF n
  <2>4. \A j \in 1..Len(f[1 + n].buf) : f[1 + n].buf[j] = m[j]
    BY <1>11, <2>3
  <2> QED
    BY ONLY <2>1, <2>2, <2>3, <2>4, SeqEqual
<1> QED
  BY <1>6, <1>13, <1>14 DEF DecodeHixie76

-----------------------------------------------------------------------------
\* What holds of both codecs holds of the one of each open connection, always.
LEMMA OfBoth ==
    ASSUME NEW a, NEW b, a, b
    PROVE  OfProtocol(a, b)
  BY DEF OfProtocol

\* The frame of a message is the one its peer expects, whatever the length: it
\* has the shortest form of it and, without NUL bytes, that payload.
THEOREM PeerReads == Spec => []PeerReadsMessage
<1>1. Rfc6455Encodes
  <2> SUFFICES ASSUME NEW m \in Message,
                      NEW frame \in {Written(Encode(m, WS_FRAME.STRING))},
                      NEW head \in {<<128 + WS_FRAME.STRING>> \o LeastForm(Len(m), 0)}
               PROVE  /\ Len(frame) = Len(head) + Len(m)
                      /\ ~Has(m, 0) => frame = head \o m
    BY DEF Rfc6455Encodes
  <2>1. m \in Seq(Byte) /\ Len(m) <= MaxString
    BY CodecAssumption
  <2>2. frame = Written(Encode(m, WS_FRAME.STRING))
    OBVIOUS
  <2>3. head = <<128 + WS_FRAME.STRING>> \o LeastForm(Len(m), 0)
    OBVIOUS
  <2> QED
    BY ONLY <2>1, <2>2, <2>3, FrameWritten
<1>2. Hixie76Encodes
  <2>1. \A m \in Text : m \in Seq(Byte)
    BY CodecAssumption
  <2> QED
    BY <2>1, HixieFrameWritten DEF Hixie76Encodes
<1>3. PeerReadsMessage
  BY <1>1, <1>2, OfBoth DEF PeerReadsMessage
<1> QED
  BY <1>3, PTL

\* What the peer sent is what onMessage is called with, for every form of the
\* length, every masking key and both protocols.
THEOREM ApplicationReads == Spec => []ApplicationReadsMessage
<1>1. Rfc6455Decodes
  <2> SUFFICES ASSUME NEW m \in {n \in Message : Len(n) <= MaxDecoded}, NEW mask \in Mask,
                      NEW type \in {WS_FRAME.STRING, WS_FRAME.BINARY},
                      NEW form \in LengthForms(Len(m), 128),
                      NEW frame \in {MaskedFrame(type, form, mask, m)}
               PROVE  OpcodeRfc6455(frame) = type /\ Received(frame, TRUE) = Cut(m)
    BY DEF Rfc6455Decodes
  <2>1. m \in Seq(Byte) /\ Len(m) <= MaxString
    BY CodecAssumption
  <2>2. mask \in [1..4 -> Byte] /\ type \in {1, 2} /\ frame = MaskedFrame(type, form, mask, m)
    BY CodecAssumption DEF WS_FRAME
  <2>3. OpcodeRfc6455(frame) = type /\ Decode(frame) = m
    BY ONLY <2>1, <2>2, form \in LengthForms(Len(m), 128), FrameDecoded
  <2> QED
    BY <2>3 DEF Received
<1>2. Hixie76Decodes
  <2> SUFFICES ASSUME NEW m \in Text, NEW frame \in {<< 0 >> \o m \o << 255 >>}
               PROVE  /\ OpcodeHixie76(frame) = WS_FRAME.STRING
                      /\ Received(frame, FALSE) = Cut(m)
    BY DEF Hixie76Decodes
  <2>1. m \in Seq(Byte \ {255})
    BY CodecAssumption
  <2>2. frame = <<0>> \o m \o <<255>>
    OBVIOUS
  <2>3. OpcodeHixie76(frame) = WS_FRAME.STRING /\ DecodeHixie76(frame) = m
    BY ONLY <2>1, <2>2, HixieDecoded
  <2> QED
    BY <2>3 DEF Received
<1>3. ApplicationReadsMessage
  BY <1>1, <1>2, OfBoth DEF ApplicationReadsMessage
<1> QED
  BY <1>3, PTL

\* Whatever has arrived, the hixie-76 decoder stops inside the buffer and the
\* callback takes it for a text or for a close.
THEOREM HixieStops == Spec => []HixieEndsInBuffer
<1>1. Hixie76Answered
  <2>1. ASSUME NEW b \in Buffer PROVE OpcodeHixie76(b) \in {WS_FRAME.CLOSE, WS_FRAME.STRING}
    <3>1. b[1] # 0 \/ ~(b[1] >= 128)
      OBVIOUS
    <3> QED
      BY <3>1 DEF OpcodeHixie76
  <2> QED
    BY <2>1 DEF Hixie76Answered
<1>2. Hixie76Closed
  <2>1. ASSUME NEW b \in Buffer, OpcodeHixie76(b) = WS_FRAME.STRING PROVE ~Scan(b).open
    <3>1. b \in Seq(Byte) /\ b # << >>
      BY CodecAssumption
    <3>2. b[Len(b)] = 255
      BY <2>1 DEF OpcodeHixie76, WS_FRAME
    <3> QED
      BY ONLY <3>1, <3>2, ScanCloses
  <2> QED
    BY <2>1 DEF Hixie76Closed
<1>3. HixieEndsInBuffer
  BY <1>1, <1>2, OfBoth DEF HixieEndsInBuffer
<1> QED
  BY <1>3, PTL
=============================================================================
