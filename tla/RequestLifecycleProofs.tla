----------------------- MODULE RequestLifecycleProofs -----------------------
(* Theorems about RequestLifecycle for every set of requests, every use of *)
(* the API by user code and every behaviour of clients and upstreams.      *)
EXTENDS RequestLifecycle, TLAPS

-----------------------------------------------------------------------------
(* Types.  One lemma for each operator the actions share, then one step    *)
(* for each group of actions.                                              *)

Wire == {"none", "open", "complete", "garbled"}
Evreq == {"live", "owned", "detached", "freed", "dropped"}
Sent == [code : Code, len : Nat]

\* What libevent sends keeps the types of what the client sees.
LEMMA EmitType ==
    ASSUME wire \in [Request -> Wire], sent \in [Request -> Sent],
           evreq \in [Request -> Evreq],
           NEW r \in Request, NEW event, NEW c \in Code, NEW n \in Nat,
           Emit(r, event, c, n)
    PROVE  /\ wire' \in [Request -> Wire]
           /\ sent' \in [Request -> Sent]
           /\ evreq' \in [Request -> Evreq]
<1>1. After(wire[r], event) \in Wire
  BY DEF After, Wire
<1>2. sent[r].code \in Code /\ sent[r].len \in Nat /\ sent[r] \in Sent
  BY DEF Sent
<1> DEFINE line == IF wire[r] = "none" THEN c ELSE sent[r].code
           s(b) == [code |-> line, len |-> sent[r].len + b]
<1>3. \A b \in {0, n} : s(b) \in Sent
  BY <1>2 DEF Sent
<1>4. wire' \in [Request -> Wire]
  BY <1>1 DEF Emit
<1>5. sent' \in [Request -> Sent]
  <2>1. sent' = sent \/ \E b \in {0, n} : sent' = [sent EXCEPT ![r] = s(b)]
    BY DEF Emit, BodySent
  <2> HIDE DEF s
  <2> QED
    BY <2>1, <1>2, <1>3
<1>6. evreq' \in [Request -> Evreq]
  BY DEF Emit, Evreq
<1> QED
  BY <1>4, <1>5, <1>6

\* An access log entry keeps the types of the log and of the stale requests.
LEMMA WriteLogType ==
    ASSUME log \in [Request -> Seq(LogEntry)], stale \in SUBSET Request,
           NEW r \in Request, NEW id \in 0..CounterMax, NEW c \in Code, NEW n \in Nat,
           WriteLog(r, id, c, n)
    PROVE  log' \in [Request -> Seq(LogEntry)] /\ stale' \in SUBSET Request
<1> DEFINE entry == [id |-> id, code |-> c, len |-> n]
<1>1. entry \in LogEntry
  BY DEF LogEntry
<1>2. Append(log[r], entry) \in Seq(LogEntry)
  <2> HIDE DEF entry
  <2> QED
    BY <1>1
<1>3. log' = [log EXCEPT ![r] = Append(log[r], entry)]
  BY DEF WriteLog
<1>4. stale' \in SUBSET Request
  BY DEF WriteLog
<1> HIDE DEF entry
<1> QED
  BY <1>2, <1>3, <1>4

\* The counter never leaves 0..CounterMax: it starts over instead.
LEMMA ArriveType ==
    ASSUME TypeOK, NEW r \in Request, Arrive(r)
    PROVE  /\ request_counter' \in 0..CounterMax
           /\ number' \in [Request -> 0..CounterMax]
           /\ upstream' = upstream
BY CounterMaxAssumption DEF TypeOK, Arrive, NextNumber

\* The end of request_handler keeps the types of all it changes.
LEMMA ConcludeType ==
    ASSUME TypeOK, request_counter' \in 0..CounterMax,
           NEW r \in Request, NEW st \in Status, NEW c \in Code,
           NEW n \in Nat, NEW body \in Nat, Conclude(r, st, c, n, body)
    PROVE  /\ wire' \in [Request -> Wire]
           /\ sent' \in [Request -> Sent]
           /\ evreq' \in [Request -> Evreq]
           /\ log' \in [Request -> Seq(LogEntry)]
           /\ stale' \in SUBSET Request
           /\ phase' \in [Request -> UserFrame \union {"new", "loop"}]
<1> USE DEF TypeOK, Wire, Sent, Evreq
<1>1. /\ wire' \in [Request -> Wire]
      /\ sent' \in [Request -> Sent]
      /\ evreq' \in [Request -> Evreq]
  <2>1. CASE Emit(r, "reply", c, body)
    BY <2>1, EmitType
  <2>2. CASE Emit(r, "end", c, 0)
    BY <2>2, EmitType
  <2>3. CASE UNCHANGED wireVars
    BY <2>3 DEF wireVars
  <2> QED
    BY <2>1, <2>2, <2>3 DEF Conclude
<1>2. log' \in [Request -> Seq(LogEntry)] /\ stale' \in SUBSET Request
  <2>1. CASE UNCHANGED logVars
    BY <2>1 DEF logVars
  <2>2. CASE WriteLog(r, request_counter', c, n)
    BY <2>2, WriteLogType
  <2> QED
    BY <2>1, <2>2 DEF Conclude
<1>3. phase' \in [Request -> UserFrame \union {"new", "loop"}]
  BY DEF Conclude
<1> QED
  BY <1>1, <1>2, <1>3

\* The objects of a request.
LEMMA ObjectsOf ==
    ASSUME NEW r \in Request
    PROVE  Origin(r) \in Object /\ Response(r) \in Object /\ Current(r) \in Object
BY DEF Origin, Response, Current, Object

\* What request_handler does when user code gave back control, types apart.
LEMMA ForwardRequestType ==
    ASSUME TypeOK, NEW r \in Request, NEW c \in Code, NEW outcome \in ForwardOutcome,
           Resume(r, {"handler"}), ForwardRequest(r, c, outcome),
           misused' \in SUBSET Request
    PROVE  TypeOK'
<1> DEFINE forwarded == outcome # "refused"
           st == IF forwarded THEN "FORWARD" ELSE status[Origin(r)]
           c1 == IF forwarded THEN c ELSE 500
           new == [NewCtx(request_counter) EXCEPT !.state = outcome]
<1>1. Origin(r) \in Object /\ status[Origin(r)] \in Status /\ len[Origin(r)] \in Nat
  BY ObjectsOf DEF TypeOK
<1>2. st \in Status /\ c1 \in Code
  BY <1>1 DEF Status, Code, HttpStatus
<1>3. request_counter' \in 0..CounterMax /\ number' = number /\ upstream' = upstream
  BY DEF Resume, TypeOK
<1>4. Conclude(r, st, c1, len[Origin(r)], 0)
  BY DEF ForwardRequest
<1>5. status' \in [Object -> Status] /\ code' \in [Object -> Code] /\ len' = len
  BY <1>1, <1>2 DEF ForwardRequest, TypeOK
<1>6. ctx' \in [Request -> Ctx]
  <2>1. forwarded => new \in Ctx
    BY DEF NewCtx, Ctx, ForwardOutcome, TypeOK
  <2>2. ctx' = IF forwarded THEN [ctx EXCEPT ![r] = new] ELSE ctx
    BY DEF ForwardRequest
  <2> HIDE DEF new, forwarded
  <2> QED
    BY <2>1, <2>2 DEF TypeOK
<1>7. refs' \in [Request -> Int]
  BY DEF ForwardRequest, Released, TypeOK
<1> HIDE DEF st, c1, forwarded, new
<1>8. /\ wire' \in [Request -> Wire]
      /\ sent' \in [Request -> Sent]
      /\ evreq' \in [Request -> Evreq]
      /\ log' \in [Request -> Seq(LogEntry)]
      /\ stale' \in SUBSET Request
      /\ phase' \in [Request -> UserFrame \union {"new", "loop"}]
  BY <1>1, <1>2, <1>3, <1>4, ConcludeType
<1> QED
  BY <1>3, <1>5, <1>6, <1>7, <1>8 DEF TypeOK, Wire, Sent, Evreq

\* The upgrade keeps the types of all it changes.
LEMMA UpgradeType ==
    ASSUME TypeOK, request_counter' \in 0..CounterMax, NEW r \in Request, Upgrade(r)
    PROVE  /\ status' \in [Object -> Status]
           /\ code' \in [Object -> Code]
           /\ wire' \in [Request -> {"none", "open", "complete", "garbled"}]
           /\ sent' \in [Request -> [code : Code, len : Nat]]
           /\ evreq' \in [Request -> {"live", "owned", "detached", "freed", "dropped"}]
           /\ log' \in [Request -> Seq(LogEntry)]
           /\ stale' \in SUBSET Request
           /\ phase' \in [Request -> UserFrame \union {"new", "loop"}]
<1>1. Origin(r) \in Object /\ len[Origin(r)] \in Nat /\ 101 \in Code
  BY ObjectsOf DEF TypeOK, Code, HttpStatus
<1>2. WriteLog(r, request_counter', 101, len[Origin(r)])
  BY DEF Upgrade
<1>3. log' \in [Request -> Seq(LogEntry)] /\ stale' \in SUBSET Request
  BY <1>1, <1>2, WriteLogType DEF TypeOK
<1>4. sent' \in [Request -> [code : Code, len : Nat]]
  BY <1>1 DEF Upgrade, TypeOK
<1> QED
  BY <1>1, <1>3, <1>4 DEF Upgrade, TypeOK, Status, After

\* Freeing the context of a forward keeps its type.
LEMMA FreeCtxType ==
    ASSUME TypeOK, NEW r \in Request, FreeCtx(r)
    PROVE  ctx' \in [Request -> Ctx] /\ refs' \in [Request -> Int]
BY CounterMaxAssumption DEF FreeCtx, TypeOK, NoCtx, Ctx

\* Relaying an upstream's reply keeps the types of all it changes.
LEMMA RelayType ==
    ASSUME TypeOK, NEW r \in Request, NEW c \in Code, NEW n \in Nat, Relay(r, c, n)
    PROVE  /\ len' \in [Object -> Nat]
           /\ wire' \in [Request -> {"none", "open", "complete", "garbled"}]
           /\ sent' \in [Request -> [code : Code, len : Nat]]
           /\ evreq' \in [Request -> {"live", "owned", "detached", "freed", "dropped"}]
           /\ log' \in [Request -> Seq(LogEntry)]
           /\ stale' \in SUBSET Request
           /\ ctx' \in [Request -> Ctx]
           /\ refs' \in [Request -> Int]
<1>1. /\ Origin(r) \in Object /\ code[Origin(r)] \in Code
      /\ LogNumber(r) \in 0..CounterMax
  BY ObjectsOf DEF TypeOK, LogNumber, Ctx
<1>2. Emit(r, "reply", c, n) /\ WriteLog(r, LogNumber(r), code[Origin(r)], n) /\ FreeCtx(r)
  BY DEF Relay
<1>3. log' \in [Request -> Seq(LogEntry)] /\ stale' \in SUBSET Request
  BY <1>1, <1>2, WriteLogType DEF TypeOK
<1>4. len' \in [Object -> Nat]
  BY <1>1 DEF Relay, TypeOK
<1> QED
  BY <1>2, <1>3, <1>4, EmitType, FreeCtxType DEF TypeOK, Wire, Sent, Evreq

\* Receiving a request keeps the types.
LEMMA ReceiveType ==
    ASSUME TypeOK, NEW r \in Request, Receive(r)
    PROVE  TypeOK'
<1>1. Origin(r) \in Object
  BY ObjectsOf
<1>2. CASE \E c \in RejectCodes : ReceiveRejected(r, c)
  <2>1. PICK c \in RejectCodes : ReceiveRejected(r, c)
    BY <1>2
  <2>2. c \in Code
    BY DEF RejectCodes, Code, HttpStatus
  <2>3. request_counter' \in 0..CounterMax /\ number' \in [Request -> 0..CounterMax] /\ upstream' = upstream
    BY <2>1, ArriveType DEF ReceiveRejected
  <2>4. /\ wire' \in [Request -> Wire]
        /\ sent' \in [Request -> Sent]
        /\ evreq' \in [Request -> Evreq]
        /\ log' \in [Request -> Seq(LogEntry)]
        /\ stale' \in SUBSET Request
        /\ phase' \in [Request -> UserFrame \union {"new", "loop"}]
    BY <2>1, <2>2, <2>3, ConcludeType DEF ReceiveRejected, Status
  <2> QED
    BY <1>1, <2>1, <2>2, <2>3, <2>4 DEF ReceiveRejected, TypeOK, Wire, Sent, Evreq
<1>3. CASE ReceiveRouted(r) \/ ReceiveHandshake(r)
  <2>1. request_counter' \in 0..CounterMax /\ number' \in [Request -> 0..CounterMax] /\ upstream' = upstream
    BY <1>3, ArriveType DEF ReceiveRouted, ReceiveHandshake
  <2>2. phase' \in [Request -> UserFrame \union {"new", "loop"}]
    BY <1>3 DEF ReceiveRouted, ReceiveHandshake, TypeOK, UserFrame
  <2>3. refs' \in [Request -> Int]
    BY <1>3 DEF ReceiveRouted, ReceiveHandshake, TypeOK
  <2> QED
    BY <1>3, <2>1, <2>2, <2>3 DEF ReceiveRouted, ReceiveHandshake, TypeOK, wireVars, logVars
<1>4. CASE ReceiveUpgrade(r)
  <2>1. request_counter' \in 0..CounterMax /\ number' \in [Request -> 0..CounterMax] /\ upstream' = upstream
    BY <1>4, ArriveType DEF ReceiveUpgrade
  <2>2. UNCHANGED <<len, refs, ctx, misused>> /\ Upgrade(r)
    BY <1>4 DEF ReceiveUpgrade
  <2> QED
    BY <2>1, <2>2, UpgradeType DEF TypeOK
<1> QED
  BY <1>2, <1>3, <1>4 DEF Receive

\* The calls of user code keep the types.
LEMMA UserCallType ==
    ASSUME TypeOK, NEW r \in Request, UserCall(r)
    PROVE  TypeOK'
<1>1. Current(r) \in Object
  BY ObjectsOf
<1>2. CASE \E c \in StatusCodes : SetResponseStatus(r, c)
  BY <1>1, <1>2, StatusCodesAssumption
     DEF SetResponseStatus, TypeOK, Code, wireVars, logVars
<1>3. CASE \E c \in StatusCodes : SendResponseStart(r, c)
  <2>1. PICK c \in StatusCodes : SendResponseStart(r, c)
    BY <1>3
  <2>2. c \in Code
    BY StatusCodesAssumption DEF Code
  <2>3. Emit(r, "start", c, 0)
    BY <2>1 DEF SendResponseStart
  <2> QED
    BY <1>1, <2>1, <2>2, <2>3, EmitType
       DEF SendResponseStart, TypeOK, Wire, Sent, Evreq, Status, Misuse, logVars
<1>4. CASE SendResponseChunk(r)
  <2>1. Emit(r, "chunk", 0, 1) /\ 0 \in Code
    BY <1>4 DEF SendResponseChunk, Code
  <2>2. /\ wire' \in [Request -> Wire]
        /\ sent' \in [Request -> Sent]
        /\ evreq' \in [Request -> Evreq]
    BY <2>1, EmitType DEF TypeOK, Wire, Sent, Evreq
  <2>3. len' \in [Object -> Nat]
    BY <1>1, <1>4 DEF SendResponseChunk, TypeOK
  <2> QED
    BY <1>4, <2>2, <2>3 DEF SendResponseChunk, TypeOK, Wire, Sent, Evreq, logVars
<1>5. CASE SendResponseEnd(r)
  <2>1. Emit(r, "end", 0, 0) /\ 0 \in Code
    BY <1>5 DEF SendResponseEnd, Code
  <2> QED
    BY <1>1, <1>5, <2>1, EmitType
       DEF SendResponseEnd, TypeOK, Wire, Sent, Evreq, Status, logVars
<1>6. CASE \E reply \in FileReply(r) : SendFile(r, reply[1], reply[2])
  <2>1. PICK reply \in FileReply(r) : SendFile(r, reply[1], reply[2])
    BY <1>6
  <2>2. reply[1] \in Code /\ reply[2] \in Nat
    BY DEF FileReply, Code, HttpStatus
  <2>3. Emit(r, "reply", reply[1], reply[2])
    BY <2>1 DEF SendFile
  <2>4. /\ wire' \in [Request -> Wire]
        /\ sent' \in [Request -> Sent]
        /\ evreq' \in [Request -> Evreq]
    BY <2>2, <2>3, EmitType DEF TypeOK, Wire, Sent, Evreq
  <2> QED
    BY <1>1, <2>1, <2>2, <2>4
       DEF SendFile, TypeOK, Wire, Sent, Evreq, Status, Misuse, logVars
<1> QED
  BY <1>2, <1>3, <1>4, <1>5, <1>6 DEF UserCall

\* The ends of user code keep the types.
LEMMA UserCodeEndsType ==
    ASSUME TypeOK, NEW r \in Request, UserCodeEnds(r)
    PROVE  TypeOK'
<1> DEFINE o == Origin(r)
<1>1. /\ o \in Object /\ Response(r) \in Object
      /\ status[o] \in Status /\ code[o] \in Code /\ len[o] \in Nat
      /\ code[Response(r)] \in Code
  BY ObjectsOf DEF TypeOK
<1>2. ReplyCode(code[o]) \in Code
  BY <1>1 DEF ReplyCode, Code, HttpStatus
<1>3. ASSUME NEW F, Resume(r, F)
      PROVE  request_counter' \in 0..CounterMax /\ number' \in [Request -> 0..CounterMax] /\ upstream' = upstream
  BY <1>3 DEF Resume, TypeOK
<1>4. ASSUME NEW st \in Status, NEW c \in Code, NEW n \in Nat, NEW body \in Nat,
             request_counter' \in 0..CounterMax, Conclude(r, st, c, n, body)
      PROVE  /\ wire' \in [Request -> Wire]
             /\ sent' \in [Request -> Sent]
             /\ evreq' \in [Request -> Evreq]
             /\ log' \in [Request -> Seq(LogEntry)]
             /\ stale' \in SUBSET Request
             /\ phase' \in [Request -> UserFrame \union {"new", "loop"}]
  BY <1>4, ConcludeType
<1>5. CASE HandlerReturnsSent(r)
  <2>1. Resume(r, {"handler"}) /\ Conclude(r, status[o], code[o], len[o], 0)
    BY <1>5 DEF HandlerReturnsSent
  <2>2. request_counter' \in 0..CounterMax /\ number' \in [Request -> 0..CounterMax] /\ upstream' = upstream
    BY <2>1, <1>3
  <2> HIDE DEF o
  <2>3. /\ wire' \in [Request -> Wire]
        /\ sent' \in [Request -> Sent]
        /\ evreq' \in [Request -> Evreq]
        /\ log' \in [Request -> Seq(LogEntry)]
        /\ stale' \in SUBSET Request
        /\ phase' \in [Request -> UserFrame \union {"new", "loop"}]
    BY <1>1, <2>1, <2>2, <1>4
  <2>4. refs' \in [Request -> Int]
    BY <1>5 DEF HandlerReturnsSent, Released, TypeOK
  <2> QED
    BY <1>5, <2>2, <2>3, <2>4 DEF HandlerReturnsSent, TypeOK, Wire, Sent, Evreq, objectVars
<1>6. CASE \E value \in {"nothing", "body", "unprintable"} : HandlerReturns(r, value)
  <2>1. PICK value \in {"nothing", "body", "unprintable"} : HandlerReturns(r, value)
    BY <1>6
  <2> DEFINE c == ReplyCode(code[o])
             n == IF Succeeds(c) /\ value = "body" THEN 1 ELSE len[o]
             c1 == IF Succeeds(c) /\ value = "unprintable" THEN 500 ELSE c
  <2>2. n \in Nat /\ c1 \in Code
    BY <1>1, <1>2 DEF Code, HttpStatus
  <2>3. /\ Resume(r, {"handler"}) /\ Conclude(r, "NONE", c1, n, n)
        /\ code' = [code EXCEPT ![o] = c1] /\ len' = [len EXCEPT ![o] = n]
        /\ refs' = [refs EXCEPT ![r] = Released(r, FALSE)]
        /\ UNCHANGED <<status, ctx, misused>>
    BY <2>1 DEF HandlerReturns
  <2>4. "NONE" \in Status
    BY DEF Status
  <2> HIDE DEF o, n, c1
  <2>5. request_counter' \in 0..CounterMax /\ number' \in [Request -> 0..CounterMax] /\ upstream' = upstream
    BY <2>3, <1>3
  <2>6. /\ wire' \in [Request -> Wire]
        /\ sent' \in [Request -> Sent]
        /\ evreq' \in [Request -> Evreq]
        /\ log' \in [Request -> Seq(LogEntry)]
        /\ stale' \in SUBSET Request
        /\ phase' \in [Request -> UserFrame \union {"new", "loop"}]
    BY <2>2, <2>3, <2>4, <2>5, <1>4
  <2>7. refs' \in [Request -> Int]
    BY <2>3 DEF Released, TypeOK
  <2>8. code' \in [Object -> Code] /\ len' \in [Object -> Nat]
    BY <1>1, <2>2, <2>3 DEF TypeOK
  <2> QED
    BY <2>3, <2>5, <2>6, <2>7, <2>8 DEF TypeOK, Wire, Sent, Evreq
<1>7. CASE \E outcome \in ForwardOutcome : HandlerReturnsForward(r, outcome)
  BY <1>2, <1>7, ForwardRequestType DEF HandlerReturnsForward, TypeOK
<1>8. CASE \E outcome \in ForwardOutcome : HandlerThrowsForward(r, outcome)
  <2>1. PICK outcome \in ForwardOutcome : HandlerThrowsForward(r, outcome)
    BY <1>8
  <2> DEFINE c == IF Sendable(o) THEN ReplyCode(code[o]) ELSE code[o]
  <2>2. c \in Code /\ misused' \in SUBSET Request
    BY <1>1, <1>2, <2>1 DEF HandlerThrowsForward, Misuse, TypeOK
  <2>3. Resume(r, {"handler"}) /\ ForwardRequest(r, c, outcome)
    BY <2>1 DEF HandlerThrowsForward
  <2> HIDE DEF c, o
  <2> QED
    BY <2>2, <2>3, ForwardRequestType
<1>9. CASE \E c \in StatusCodes \union {500} : UserCodeThrows(r, c)
  <2>1. PICK c \in StatusCodes \union {500} : UserCodeThrows(r, c)
    BY <1>9
  <2>2. c \in Code
    BY StatusCodesAssumption DEF Code, HttpStatus
  <2>3. /\ Resume(r, {"handler", "handshake"}) /\ Conclude(r, status[o], c, len[o], 0)
        /\ code' = [code EXCEPT ![o] = c]
        /\ refs' = [refs EXCEPT ![r] = Released(r, FALSE)]
        /\ UNCHANGED <<status, len, ctx, misused>>
    BY <2>1 DEF UserCodeThrows
  <2> HIDE DEF o
  <2>4. request_counter' \in 0..CounterMax /\ number' \in [Request -> 0..CounterMax] /\ upstream' = upstream
    BY <2>3, <1>3
  <2>5. /\ wire' \in [Request -> Wire]
        /\ sent' \in [Request -> Sent]
        /\ evreq' \in [Request -> Evreq]
        /\ log' \in [Request -> Seq(LogEntry)]
        /\ stale' \in SUBSET Request
        /\ phase' \in [Request -> UserFrame \union {"new", "loop"}]
    BY <1>1, <2>2, <2>3, <2>4, <1>4
  <2>6. refs' \in [Request -> Int]
    BY <2>3 DEF Released, TypeOK
  <2>7. code' \in [Object -> Code]
    BY <1>1, <2>2, <2>3 DEF TypeOK
  <2> QED
    BY <2>3, <2>4, <2>5, <2>6, <2>7 DEF TypeOK, Wire, Sent, Evreq
<1>10. CASE HandshakeReturns(r)
  <2>1. Resume(r, {"handshake"}) /\ Upgrade(r) /\ UNCHANGED <<len, ctx>>
    BY <1>10 DEF HandshakeReturns
  <2>2. refs' \in [Request -> Int] /\ misused' \in SUBSET Request
    BY <1>10 DEF HandshakeReturns, Released, Misuse, TypeOK
  <2> QED
    BY <1>3, <2>1, <2>2, UpgradeType DEF TypeOK
<1>11. CASE HandshakeRefused(r)
  <2>1. /\ Resume(r, {"handshake"}) /\ Conclude(r, status[o], 400, len[o], 0)
        /\ code' = [code EXCEPT ![o] = 400]
        /\ refs' = [refs EXCEPT ![r] = Released(r, FALSE)]
        /\ UNCHANGED <<status, len, ctx, misused>>
    BY <1>11 DEF HandshakeRefused
  <2>2. 400 \in Code
    BY DEF Code, HttpStatus
  <2> HIDE DEF o
  <2>3. request_counter' \in 0..CounterMax /\ number' \in [Request -> 0..CounterMax] /\ upstream' = upstream
    BY <2>1, <1>3
  <2>4. /\ wire' \in [Request -> Wire]
        /\ sent' \in [Request -> Sent]
        /\ evreq' \in [Request -> Evreq]
        /\ log' \in [Request -> Seq(LogEntry)]
        /\ stale' \in SUBSET Request
        /\ phase' \in [Request -> UserFrame \union {"new", "loop"}]
    BY <1>1, <2>1, <2>2, <2>3, <1>4
  <2>5. refs' \in [Request -> Int]
    BY <2>1 DEF Released, TypeOK
  <2>6. code' \in [Object -> Code]
    BY <1>1, <2>1, <2>2 DEF TypeOK
  <2> QED
    BY <2>1, <2>3, <2>4, <2>5, <2>6 DEF TypeOK, Wire, Sent, Evreq
<1>12. CASE CallbackReturns(r)
  <2>1. /\ Resume(r, {"callback"}) /\ phase' = [phase EXCEPT ![r] = "loop"]
        /\ Relay(r, code[Response(r)], ctx[r].body)
        /\ UNCHANGED <<status, code, misused>>
    BY <1>12 DEF CallbackReturns
  <2>2. ctx[r].body \in Nat
    BY DEF TypeOK, Ctx
  <2> QED
    BY <1>1, <1>3, <2>1, <2>2, RelayType DEF TypeOK
<1> QED
  BY <1>5, <1>6, <1>7, <1>8, <1>9, <1>10, <1>11, <1>12 DEF UserCodeEnds

\* What libevent calls back with is a status of an upstream or 0, and a body.
LEMMA ResponsesOf ==
    ASSUME NEW r \in Request, NEW answer \in Responses(r)
    PROVE  answer[1] \in UpstreamCodes \union {0} /\ answer[1] \in Code /\ answer[2] \in 0..1
<1>1. CASE answer = <<0, 0>>
  BY <1>1 DEF Code
<1>2. CASE answer \in UpstreamCodes \X (0..1)
  BY <1>2 DEF Code
<1> QED
  BY <1>1, <1>2 DEF Responses

\* The ends of a forward keep the types.
LEMMA UpstreamEndsType ==
    ASSUME TypeOK, NEW r \in Request, UpstreamEnds(r)
    PROVE  TypeOK'
<1>1. CASE UpstreamFails(r)
  <2>1. Emit(r, "reply", 500, 0) /\ 500 \in Code
    BY <1>1 DEF UpstreamFails, Code, HttpStatus
  <2>2. ctx' \in [Request -> Ctx] /\ refs' \in [Request -> Int]
    BY <1>1, FreeCtxType DEF UpstreamFails
  <2> QED
    BY <1>1, <2>1, <2>2, EmitType
       DEF UpstreamFails, TypeOK, Wire, Sent, Evreq, objectVars
<1>2. CASE \E answer \in Responses(r) : UpstreamAnswers(r, answer[1], answer[2])
  <2>1. PICK answer \in Responses(r) : UpstreamAnswers(r, answer[1], answer[2])
    BY <1>2
  <2> DEFINE c == answer[1]
             n == answer[2]
  <2>2. c \in UpstreamCodes \union {0} /\ c \in Code /\ n \in Nat
    BY ResponsesOf
  <2>3. UpstreamAnswers(r, c, n)
    BY <2>1
  <2> HIDE DEF c, n
  <2>4. upstream' \in [Request -> SUBSET (UpstreamCodes \union {0})]
    BY <2>2, <2>3 DEF UpstreamAnswers, TypeOK
  <2> QED
    BY <2>2, <2>3, <2>4, RelayType DEF UpstreamAnswers, TypeOK
<1>3. CASE \E answer \in Responses(r) : CallbackCalled(r, answer[1], answer[2])
  <2>1. PICK answer \in Responses(r) : CallbackCalled(r, answer[1], answer[2])
    BY <1>3
  <2> DEFINE c == answer[1]
             n == answer[2]
  <2>2. /\ c \in UpstreamCodes \union {0} /\ c \in Code /\ n \in Nat
        /\ Response(r) \in Object
    BY ResponsesOf, ObjectsOf
  <2>3. CallbackCalled(r, c, n)
    BY <2>1
  <2> HIDE DEF c, n
  <2>4. upstream' \in [Request -> SUBSET (UpstreamCodes \union {0})]
    BY <2>2, <2>3 DEF CallbackCalled, TypeOK
  <2>5. ctx' \in [Request -> Ctx]
    BY <2>2, <2>3 DEF CallbackCalled, TypeOK, Ctx
  <2> QED
    BY <2>2, <2>3, <2>4, <2>5 DEF CallbackCalled, TypeOK, Status, UserFrame, wireVars
<1> QED
  BY <1>1, <1>2, <1>3 DEF UpstreamEnds

\* Every variable keeps its type: the counter never overflows, no log entry or
\* status line holds anything but a number of the counter and an HTTP status, the
\* status of an upstream, or 0.
THEOREM TypeCorrect == Spec => []TypeOK
<1>1. Init => TypeOK
  BY CounterMaxAssumption DEF Init, TypeOK, Status, Code, Ctx, NoCtx
<1>2. TypeOK /\ [Next]_vars => TypeOK'
  <2> SUFFICES ASSUME TypeOK, [Next]_vars PROVE TypeOK'
    OBVIOUS
  <2>1. ASSUME NEW r \in Request, Receive(r) PROVE TypeOK'
    BY <2>1, ReceiveType
  <2>2. ASSUME NEW r \in Request, UserCall(r) PROVE TypeOK'
    BY <2>2, UserCallType
  <2>3. ASSUME NEW r \in Request, UserCodeEnds(r) PROVE TypeOK'
    BY <2>3, UserCodeEndsType
  <2>4. ASSUME NEW r \in Request, UpstreamEnds(r) PROVE TypeOK'
    BY <2>4, UpstreamEndsType
  <2>5. ASSUME NEW r \in Request, Environment(r) PROVE TypeOK'
    BY <2>5 DEF Environment, ResponseWritten, ClientLeaves, TypeOK, objectVars, logVars
  <2>6. CASE UNCHANGED vars
    BY <2>6 DEF vars, TypeOK
  <2> QED
    BY <2>1, <2>2, <2>3, <2>4, <2>5, <2>6 DEF Next, Quiescent
<1> QED
  BY <1>1, <1>2, PTL DEF Spec

-----------------------------------------------------------------------------
(* The inductive invariant.  A step is about one request: it leaves what   *)
(* the invariant says of the others alone, and re-establishes its own.     *)

Step(r) == Receive(r) \/ UserCall(r) \/ UserCodeEnds(r) \/ UpstreamEnds(r) \/ Environment(r)

\* What RequestInv(q) reads is as it was.
Same(q) ==
    /\ phase'[q] = phase[q] /\ number'[q] = number[q]
    /\ status'[Origin(q)] = status[Origin(q)] /\ status'[Response(q)] = status[Response(q)]
    /\ refs'[q] = refs[q] /\ ctx'[q] = ctx[q] /\ evreq'[q] = evreq[q]
    /\ wire'[q] = wire[q] /\ log'[q] = log[q]
    /\ q \in misused' <=> q \in misused
    /\ q \in stale' <=> q \in stale
    /\ request_counter' = request_counter \/ phase[q] \notin UserFrame

\* A request a step leaves the same keeps its invariant.
LEMMA SameKeepsInv ==
    ASSUME NEW q \in Request, RequestInv(q), Same(q)
    PROVE  RequestInv(q)'
BY DEF Same, RequestInv, Fresh, InHandler, Forwarded, InCallback, Ended, Logged,
       NotSpoilt, Answered, Origin, Response, UserFrame, Freed

\* Objects of different requests are different, and so are the two of one.
LEMMA ObjectsDiffer ==
    ASSUME NEW r \in Request, NEW q \in Request
    PROVE  /\ Origin(r) # Response(q)
           /\ q # r => /\ Origin(q) # Origin(r) /\ Response(q) # Response(r)
                       /\ Origin(q) # Current(r) /\ Response(q) # Current(r)
BY DEF Origin, Response, Current

\* Sending for r changes nothing of q's.
LEMMA EmitSame ==
    ASSUME TypeOK, NEW r \in Request, NEW q \in Request, q # r,
           NEW event, NEW c, NEW n, Emit(r, event, c, n)
    PROVE  wire'[q] = wire[q] /\ evreq'[q] = evreq[q]
BY DEF Emit, TypeOK

\* Logging r changes nothing of q's log entries, nor makes q stale.
LEMMA WriteLogSame ==
    ASSUME TypeOK, NEW r \in Request, NEW q \in Request, q # r,
           NEW id, NEW c, NEW n, WriteLog(r, id, c, n)
    PROVE  log'[q] = log[q] /\ (q \in stale' <=> q \in stale)
BY DEF WriteLog, TypeOK

\* The end of request_handler for r changes nothing of q's.
LEMMA ConcludeSame ==
    ASSUME TypeOK, NEW r \in Request, NEW q \in Request, q # r,
           NEW st, NEW c, NEW n, NEW body, Conclude(r, st, c, n, body)
    PROVE  /\ wire'[q] = wire[q] /\ evreq'[q] = evreq[q] /\ log'[q] = log[q]
           /\ q \in stale' <=> q \in stale
           /\ phase'[q] = phase[q]
<1>1. wire'[q] = wire[q] /\ evreq'[q] = evreq[q]
  BY EmitSame DEF Conclude, wireVars
<1>2. log'[q] = log[q] /\ (q \in stale' <=> q \in stale)
  BY WriteLogSame DEF Conclude, logVars
<1>3. phase'[q] = phase[q]
  BY DEF Conclude, TypeOK
<1> QED
  BY <1>1, <1>2, <1>3

\* Upgrading r's connection changes nothing of q's.
LEMMA UpgradeSame ==
    ASSUME TypeOK, NEW r \in Request, NEW q \in Request, q # r, Upgrade(r)
    PROVE  /\ wire'[q] = wire[q] /\ evreq'[q] = evreq[q] /\ log'[q] = log[q]
           /\ q \in stale' <=> q \in stale
           /\ phase'[q] = phase[q]
           /\ status'[Origin(q)] = status[Origin(q)]
           /\ status'[Response(q)] = status[Response(q)]
BY WriteLogSame, ObjectsDiffer, ObjectsOf DEF Upgrade, TypeOK

\* A step of r changes nothing RequestInv says of another request q.
LEMMA OthersSame ==
    ASSUME TypeOK, NEW r \in Request, NEW q \in Request, q # r, Step(r)
    PROVE  Same(q)
<1> USE ObjectsOf, ObjectsDiffer
<1>0. ASSUME NEW st, NEW c, NEW n, NEW body, Conclude(r, st, c, n, body),
             UNCHANGED <<request_counter, number>>,
             refs'[q] = refs[q], ctx'[q] = ctx[q], q \in misused' <=> q \in misused,
             status'[Origin(q)] = status[Origin(q)],
             status'[Response(q)] = status[Response(q)]
      PROVE  Same(q)
  BY <1>0, ConcludeSame DEF Same
<1>1. CASE \E c \in RejectCodes : ReceiveRejected(r, c)
  <2>1. PICK c \in RejectCodes : ReceiveRejected(r, c)
    BY <1>1
  <2>2. /\ wire'[q] = wire[q] /\ evreq'[q] = evreq[q] /\ log'[q] = log[q]
        /\ q \in stale' <=> q \in stale
        /\ phase'[q] = phase[q]
    BY <2>1, ConcludeSame DEF ReceiveRejected
  <2>3. /\ number'[q] = number[q] /\ phase[q] \notin UserFrame
        /\ UNCHANGED <<status, refs, ctx, misused>>
    BY <2>1 DEF ReceiveRejected, Arrive, InLoop, TypeOK
  <2> QED
    BY <2>2, <2>3 DEF Same
<1>2. CASE ReceiveRouted(r) \/ ReceiveHandshake(r)
  BY <1>2 DEF ReceiveRouted, ReceiveHandshake, Arrive, InLoop, Same, TypeOK, wireVars, logVars
<1>3. CASE ReceiveUpgrade(r)
  BY <1>3, UpgradeSame DEF ReceiveUpgrade, Arrive, InLoop, Same, TypeOK
<1>4. CASE \E c \in StatusCodes : SetResponseStatus(r, c)
  BY <1>4 DEF SetResponseStatus, Same, wireVars, logVars
<1>5. CASE \E c \in StatusCodes : SendResponseStart(r, c)
  BY <1>5, EmitSame DEF SendResponseStart, Same, TypeOK, Misuse, logVars
<1>6. CASE SendResponseChunk(r) \/ SendResponseEnd(r)
  BY <1>6, EmitSame DEF SendResponseChunk, SendResponseEnd, Same, TypeOK, logVars
<1>7. CASE \E reply \in FileReply(r) : SendFile(r, reply[1], reply[2])
  BY <1>7, EmitSame DEF SendFile, Same, TypeOK, Misuse, logVars
<1>8. CASE HandlerReturnsSent(r)
  <2>1. Conclude(r, status[Origin(r)], code[Origin(r)], len[Origin(r)], 0)
    BY <1>8 DEF HandlerReturnsSent
  <2>2. refs'[q] = refs[q] /\ UNCHANGED <<request_counter, number, status, ctx, misused>>
    BY <1>8 DEF HandlerReturnsSent, Resume, TypeOK, objectVars
  <2> QED
    BY <1>0, <2>1, <2>2
<1>9. CASE \E value \in {"nothing", "body", "unprintable"} : HandlerReturns(r, value)
  <2>1. PICK value \in {"nothing", "body", "unprintable"} : HandlerReturns(r, value)
    BY <1>9
  <2>2. \E c, n : Conclude(r, "NONE", c, n, n)
    BY <2>1 DEF HandlerReturns
  <2>3. refs'[q] = refs[q] /\ UNCHANGED <<request_counter, number, status, ctx, misused>>
    BY <2>1 DEF HandlerReturns, Resume, TypeOK
  <2> QED
    BY <1>0, <2>2, <2>3
<1>10. ASSUME NEW c, NEW outcome, ForwardRequest(r, c, outcome), Resume(r, {"handler"}),
              q \in misused' <=> q \in misused
       PROVE  Same(q)
  <2>1. \E st, c1 : Conclude(r, st, c1, len[Origin(r)], 0)
    BY <1>10 DEF ForwardRequest
  <2>2. refs'[q] = refs[q] /\ ctx'[q] = ctx[q]
    BY <1>10 DEF ForwardRequest, TypeOK
  <2>3. /\ status'[Origin(q)] = status[Origin(q)]
        /\ status'[Response(q)] = status[Response(q)]
    BY <1>10 DEF ForwardRequest, TypeOK
  <2>4. UNCHANGED <<request_counter, number>>
    BY <1>10 DEF Resume
  <2> QED
    BY <1>0, <1>10, <2>1, <2>2, <2>3, <2>4
<1>11. CASE \E outcome \in ForwardOutcome : HandlerReturnsForward(r, outcome)
  BY <1>10, <1>11 DEF HandlerReturnsForward
<1>12. CASE \E outcome \in ForwardOutcome : HandlerThrowsForward(r, outcome)
  BY <1>10, <1>12 DEF HandlerThrowsForward, Misuse
<1>13. CASE \E c \in StatusCodes \union {500} : UserCodeThrows(r, c)
  <2>1. PICK c \in StatusCodes \union {500} : UserCodeThrows(r, c)
    BY <1>13
  <2>2. Conclude(r, status[Origin(r)], c, len[Origin(r)], 0)
    BY <2>1 DEF UserCodeThrows
  <2>3. refs'[q] = refs[q] /\ UNCHANGED <<request_counter, number, status, ctx, misused>>
    BY <2>1 DEF UserCodeThrows, Resume, TypeOK
  <2> QED
    BY <1>0, <2>2, <2>3
<1>14. CASE HandshakeReturns(r)
  BY <1>14, UpgradeSame DEF HandshakeReturns, Resume, Same, TypeOK, Misuse
<1>15. CASE HandshakeRefused(r)
  <2>1. Conclude(r, status[Origin(r)], 400, len[Origin(r)], 0)
    BY <1>15 DEF HandshakeRefused
  <2>2. refs'[q] = refs[q] /\ UNCHANGED <<request_counter, number, status, ctx, misused>>
    BY <1>15 DEF HandshakeRefused, Resume, TypeOK
  <2> QED
    BY <1>0, <2>1, <2>2
<1>16. ASSUME NEW c, NEW n, Relay(r, c, n)
       PROVE  /\ wire'[q] = wire[q] /\ evreq'[q] = evreq[q] /\ log'[q] = log[q]
              /\ q \in stale' <=> q \in stale
              /\ refs'[q] = refs[q] /\ ctx'[q] = ctx[q]
  BY <1>16, EmitSame, WriteLogSame DEF Relay, FreeCtx, TypeOK
<1>17. CASE CallbackReturns(r)
  BY <1>16, <1>17 DEF CallbackReturns, Resume, Same, TypeOK
<1>18. CASE UpstreamFails(r)
  BY <1>18, EmitSame DEF UpstreamFails, FreeCtx, Same, TypeOK, objectVars
<1>19. CASE \E answer \in Responses(r) : UpstreamAnswers(r, answer[1], answer[2])
  BY <1>16, <1>19 DEF UpstreamAnswers, Same
<1>20. CASE \E answer \in Responses(r) : CallbackCalled(r, answer[1], answer[2])
  BY <1>20 DEF CallbackCalled, Same, TypeOK, wireVars
<1>21. CASE Environment(r)
  BY <1>21 DEF Environment, ResponseWritten, ClientLeaves, Same, TypeOK, objectVars, logVars
<1> QED
  BY <1>1, <1>2, <1>3, <1>4, <1>5, <1>6, <1>7, <1>8, <1>9, <1>11, <1>12, <1>13, <1>14,
     <1>15, <1>17, <1>18, <1>19, <1>20, <1>21
     DEF Step, Receive, UserCall, UserCodeEnds, UpstreamEnds

\* What libevent does to the request it sends for.
LEMMA EmitOwn ==
    ASSUME TypeOK, NEW r \in Request, NEW event, NEW c, NEW n, Emit(r, event, c, n)
    PROVE  /\ evreq[r] \in {"live", "owned"} =>
                 wire'[r] = After(wire[r], event) /\ evreq'[r] = evreq[r]
           /\ evreq[r] \notin {"live", "owned"} => wire'[r] = wire[r]
           /\ evreq[r] \in Freed => evreq'[r] = evreq[r]
           /\ evreq[r] = "detached" /\ event \in {"reply", "end"} => evreq'[r] = "dropped"
           /\ evreq[r] = "detached" /\ event \notin {"reply", "end"} => evreq'[r] = "detached"
BY DEF Emit, TypeOK, Freed

\* The first entry of a request is its only one.
LEMMA WriteLogOwn ==
    ASSUME TypeOK, NEW r \in Request, NEW id, NEW c, NEW n, log[r] = <<>>,
           WriteLog(r, id, c, n)
    PROVE  /\ log'[r] = <<log'[r][1]>> /\ log'[r][1].id = id
           /\ r \in stale' => r \in stale \/ evreq'[r] \in Freed
BY DEF WriteLog, TypeOK

\* request_handler ends in the event loop, its response ended as its status says,
\* or forwarded; the request object is the forward's or nobody's.
LEMMA ConcludeOwn ==
    ASSUME TypeOK, NEW r \in Request, NEW st \in Status, NEW c, NEW n, NEW body,
           number'[r] = request_counter',
           evreq[r] = "live", log[r] = <<>>,
           st = "SENT" => Answered(r),
           r \notin misused' =>
              /\ r \notin misused
              /\ st = "NONE"    => wire[r] = "none"
              /\ st = "SENDING" => wire[r] = "open"
              /\ st = "SENT"    => wire[r] = "complete"
              /\ st = "FORWARD" => wire[r] = "none",
           NotSpoilt(r),
           IF st = "FORWARD"
           THEN ctx'[r].state # "none" /\ ctx'[r].request_id = number'[r] /\ refs'[r] = 1
           ELSE ctx'[r].state = "none" /\ refs'[r] = 0,
           r \in misused => r \in misused',
           Conclude(r, st, c, n, body)
    PROVE  RequestInv(r)'
<1>1. phase'[r] = "loop"
  BY DEF Conclude, TypeOK
<1>2. CASE st = "FORWARD"
  <2>1. UNCHANGED wireVars /\ UNCHANGED logVars
    BY <1>2 DEF Conclude
  <2> QED
    BY <1>1, <1>2, <2>1 DEF RequestInv, Fresh, InHandler, Forwarded, InCallback, Ended,
       Logged, NotSpoilt, wireVars, logVars
<1>3. CASE st # "FORWARD"
  <2>1. WriteLog(r, request_counter', c, n)
    BY <1>3 DEF Conclude
  <2>2. evreq'[r] = "live"
    BY <1>3, EmitOwn DEF Conclude, wireVars
  <2>3. Answered(r)'
    BY <1>3, EmitOwn DEF Conclude, wireVars, Answered, Status, After
  <2>4. r \notin misused' => wire'[r] = "complete"
    BY <1>3, EmitOwn DEF Conclude, wireVars, Status, After
  <2>5. /\ log'[r] = <<log'[r][1]>> /\ log'[r][1].id = number'[r]
        /\ r \in stale' => r \in stale
    BY <2>1, <2>2, WriteLogOwn DEF Freed
  <2> QED
    BY <1>1, <1>3, <2>2, <2>3, <2>4, <2>5 DEF RequestInv, Fresh, InHandler, Forwarded,
       InCallback, Ended, Logged, NotSpoilt
<1> QED
  BY <1>2, <1>3

\* An upgraded request is complete, and spoilt only if it was begun before.
LEMMA UpgradeOwn ==
    ASSUME TypeOK, NEW r \in Request,
           number'[r] = request_counter', evreq[r] = "live", log[r] = <<>>, NotSpoilt(r),
           ctx'[r].state = "none", refs'[r] = 0,
           r \in misused => r \in misused',
           r \notin misused' => wire[r] = "none",
           Upgrade(r)
    PROVE  RequestInv(r)'
<1>1. phase'[r] = "loop" /\ evreq'[r] = "owned" /\ wire'[r] = After(wire[r], "reply")
  BY DEF Upgrade, TypeOK
<1>2. WriteLog(r, request_counter', 101, len[Origin(r)])
  BY DEF Upgrade
<1>3. /\ log'[r] = <<log'[r][1]>> /\ log'[r][1].id = number'[r]
      /\ r \in stale' => r \in stale
  BY <1>1, <1>2, WriteLogOwn DEF Freed
<1>4. Answered(r)' /\ (r \notin misused' => wire'[r] = "complete")
  BY <1>1 DEF Answered, After
<1> QED
  BY <1>1, <1>3, <1>4 DEF RequestInv, Fresh, InHandler, Forwarded, InCallback, Ended,
     Logged, NotSpoilt

\* A relayed reply ends the forward, and spoils the response only if user code did.
LEMMA RelayOwn ==
    ASSUME TypeOK, NEW r \in Request, NEW c, NEW n,
           phase[r] \in {"loop", "callback"}, phase'[r] = "loop",
           ctx[r].state # "none", Forwarded(r), NotSpoilt(r),
           number'[r] = number[r], misused' = misused,
           Relay(r, c, n)
    PROVE  RequestInv(r)'
<1>1. Emit(r, "reply", c, n) /\ WriteLog(r, ctx[r].request_id, code[Origin(r)], n)
  BY DEF Relay, LogNumber
<1>2. ctx'[r].state = "none" /\ refs'[r] = 0
  BY DEF Relay, FreeCtx, Forwarded, NoCtx, TypeOK
<1>3. /\ log'[r] = <<log'[r][1]>> /\ log'[r][1].id = number'[r]
      /\ r \in stale' => r \in stale \/ evreq'[r] \in Freed
  BY <1>1, WriteLogOwn DEF Forwarded
<1>4. Answered(r)' \/ evreq'[r] \in Freed
  BY <1>1, EmitOwn DEF Answered, After, Freed, TypeOK
<1>5. ASSUME r \notin misused
      PROVE  /\ wire'[r] = "complete" \/ evreq'[r] = "dropped"
             /\ evreq'[r] # "freed" /\ wire'[r] # "garbled"
  <2>1. wire[r] = "none" /\ evreq[r] \in {"live", "detached"}
    BY <1>5 DEF Forwarded
  <2> QED
    BY <1>1, <2>1, EmitOwn DEF After
<1> QED
  BY <1>2, <1>3, <1>4, <1>5 DEF RequestInv, Fresh, InHandler, Forwarded, InCallback,
     Ended, Logged, NotSpoilt, Freed

\* Receiving a request establishes what the invariant says of it.
LEMMA ReceiveInv ==
    ASSUME TypeOK, NEW r \in Request, RequestInv(r), Receive(r)
    PROVE  RequestInv(r)'
<1> USE DEF RequestInv
<1>1. /\ phase[r] = "new" /\ status[Origin(r)] = "NONE" /\ wire[r] = "none"
      /\ evreq[r] = "live" /\ ctx[r].state = "none" /\ refs[r] = 0 /\ log[r] = <<>>
      /\ number'[r] = request_counter'
  BY DEF Receive, ReceiveRejected, ReceiveRouted, ReceiveHandshake, ReceiveUpgrade,
         Arrive, Fresh, TypeOK
<1>2. CASE \E c \in RejectCodes : ReceiveRejected(r, c)
  <2>1. PICK c \in RejectCodes : ReceiveRejected(r, c)
    BY <1>2
  <2>2. "NONE" \in Status
    BY DEF Status
  <2> QED
    BY <1>1, <2>1, <2>2, ConcludeOwn DEF ReceiveRejected
<1>3. CASE ReceiveRouted(r) \/ ReceiveHandshake(r)
  <2>1. phase'[r] \in {"handler", "handshake"} /\ refs'[r] = 2
    BY <1>3 DEF ReceiveRouted, ReceiveHandshake, TypeOK
  <2>2. UNCHANGED <<status, ctx, evreq, wire, log, stale, misused>>
    BY <1>3 DEF ReceiveRouted, ReceiveHandshake, wireVars, logVars
  <2> QED
    BY <1>1, <2>1, <2>2 DEF Fresh, InHandler, Forwarded, InCallback, Ended, Logged,
       NotSpoilt, Answered
<1>4. CASE ReceiveUpgrade(r)
  BY <1>1, <1>4, UpgradeOwn DEF ReceiveUpgrade
<1> QED
  BY <1>2, <1>3, <1>4 DEF Receive

\* The calls of user code keep what the invariant says of its request: a response
\* leaves the order start, chunks, end only by misuse.
LEMMA UserCallInv ==
    ASSUME TypeOK, NEW r \in Request, RequestInv(r), UserCall(r)
    PROVE  RequestInv(r)'
<1> USE DEF RequestInv
<1>1. /\ phase[r] \in UserFrame /\ UNCHANGED <<request_counter, phase, number, refs, ctx, log, stale>>
      /\ r \in misused => r \in misused'
  BY DEF UserCall, SetResponseStatus, SendResponseStart, SendResponseChunk, SendResponseEnd,
         SendFile, Calls, Misuse, logVars
<1>2. log[r] = <<>> /\ (phase[r] # "callback" => evreq[r] = "live" /\ Current(r) = Origin(r))
  BY <1>1 DEF InHandler, Forwarded, InCallback, Current, UserFrame
<1>3. Current(r) \in Object /\ Origin(r) # Response(r)
  BY ObjectsOf, ObjectsDiffer
<1>4. CASE \E c \in StatusCodes : SetResponseStatus(r, c)
  BY <1>1, <1>4 DEF SetResponseStatus, wireVars, Fresh, InHandler, Forwarded, InCallback,
     Ended, Logged, NotSpoilt, Answered
<1>5. CASE /\ \E c \in StatusCodes : SendResponseStart(r, c)
           /\ phase[r] # "callback"
  <2>1. /\ status[Origin(r)] = "NONE" /\ status'[Origin(r)] = "SENDING"
        /\ wire'[r] = After(wire[r], "start") /\ evreq'[r] = "live"
        /\ misused' = misused
    BY <1>2, <1>3, <1>5, EmitOwn DEF SendResponseStart, Sendable, Misuse, TypeOK
  <2> QED
    BY <1>1, <1>2, <1>5, <2>1 DEF Fresh, InHandler, Forwarded, InCallback,
       Ended, Logged, NotSpoilt, Answered, After, UserFrame
<1>6. CASE SendResponseChunk(r) /\ phase[r] # "callback"
  <2>1. /\ status[Origin(r)] = "SENDING" /\ status' = status
        /\ wire'[r] = After(wire[r], "chunk") /\ evreq'[r] = "live"
        /\ misused' = misused
    BY <1>2, <1>6, EmitOwn DEF SendResponseChunk, Streaming
  <2> QED
    BY <1>1, <1>2, <1>6, <2>1 DEF Fresh, InHandler, Forwarded, InCallback,
       Ended, Logged, NotSpoilt, Answered, After, UserFrame
<1>7. CASE SendResponseEnd(r) /\ phase[r] # "callback"
  <2>1. /\ status[Origin(r)] = "SENDING" /\ status'[Origin(r)] = "SENT"
        /\ wire'[r] = After(wire[r], "end") /\ evreq'[r] = "live"
        /\ misused' = misused
    BY <1>2, <1>3, <1>7, EmitOwn DEF SendResponseEnd, Streaming, TypeOK
  <2> QED
    BY <1>1, <1>2, <1>7, <2>1 DEF Fresh, InHandler, Forwarded, InCallback,
       Ended, Logged, NotSpoilt, Answered, After, UserFrame
<1>8. CASE /\ \E reply \in FileReply(r) : SendFile(r, reply[1], reply[2])
           /\ phase[r] # "callback"
  <2>1. /\ status'[Origin(r)] = "SENT"
        /\ wire'[r] = After(wire[r], "reply") /\ evreq'[r] = "live"
        /\ r \notin misused' => status[Origin(r)] = "NONE"
    BY <1>2, <1>3, <1>8, EmitOwn DEF SendFile, Misuse, TypeOK
  <2> QED
    BY <1>1, <1>2, <1>8, <2>1 DEF Fresh, InHandler, Forwarded, InCallback,
       Ended, Logged, NotSpoilt, Answered, After, UserFrame
<1>9. CASE phase[r] = "callback" /\ ~ \E c \in StatusCodes : SetResponseStatus(r, c)
  <2>1. Current(r) = Response(r)
    BY <1>9 DEF Current
  <2>2. r \in misused'
    BY <1>9, <2>1 DEF UserCall, SendResponseStart, SendResponseChunk, SendResponseEnd,
       SendFile, Misuse, InCallback, Streaming
  <2> QED
    BY <1>1, <1>2, <1>9, <2>2 DEF Fresh, InHandler, Forwarded, InCallback,
       Ended, Logged, NotSpoilt
<1> QED
  BY <1>4, <1>5, <1>6, <1>7, <1>8, <1>9 DEF UserCall

\* A forward that is made holds the object and remembers the request's number;
\* one that is refused leaves nothing behind.
LEMMA ForwardRequestInv ==
    ASSUME TypeOK, NEW r \in Request, RequestInv(r), NEW c, NEW outcome \in ForwardOutcome,
           Resume(r, {"handler"}), ForwardRequest(r, c, outcome),
           r \in misused => r \in misused',
           r \notin misused' /\ outcome # "refused" => status[Origin(r)] = "NONE"
    PROVE  RequestInv(r)'
<1> DEFINE st == IF outcome # "refused" THEN "FORWARD" ELSE status[Origin(r)]
           c1 == IF outcome # "refused" THEN c ELSE 500
<1>1. /\ phase[r] = "handler" /\ number'[r] = number[r] /\ request_counter' = request_counter
      /\ number[r] = request_counter /\ status[Origin(r)] \in Status \ {"FORWARD"}
      /\ evreq[r] = "live" /\ ctx[r].state = "none" /\ refs[r] = 2 /\ log[r] = <<>>
      /\ st \in Status
  BY ObjectsOf DEF Resume, RequestInv, InHandler, TypeOK, Status
<1>2. Conclude(r, st, c1, len[Origin(r)], 0)
  BY DEF ForwardRequest
<1>3. /\ outcome # "refused" =>
            ctx'[r].state = outcome /\ ctx'[r].request_id = number'[r] /\ refs'[r] = 1
      /\ outcome = "refused" => ctx'[r].state = "none" /\ refs'[r] = 0
  BY <1>1 DEF ForwardRequest, NewCtx, Released, TypeOK
<1>4. IF st = "FORWARD"
      THEN ctx'[r].state # "none" /\ ctx'[r].request_id = number'[r] /\ refs'[r] = 1
      ELSE ctx'[r].state = "none" /\ refs'[r] = 0
  BY <1>1, <1>3 DEF ForwardOutcome
<1>5. /\ st = "SENT" => Answered(r)
      /\ r \notin misused' =>
              /\ r \notin misused
              /\ st = "NONE"    => wire[r] = "none"
              /\ st = "SENDING" => wire[r] = "open"
              /\ st = "SENT"    => wire[r] = "complete"
              /\ st = "FORWARD" => wire[r] = "none"
  BY <1>1 DEF RequestInv, InHandler
<1>6. NotSpoilt(r) /\ number'[r] = request_counter'
  BY <1>1 DEF RequestInv
<1> HIDE DEF st, c1
<1> QED
  BY <1>1, <1>2, <1>4, <1>5, <1>6, ConcludeOwn

\* Whichever way user code ends, its request is answered or forwarded, and the
\* references on its object are those still needed.
LEMMA UserCodeEndsInv ==
    ASSUME TypeOK, NEW r \in Request, RequestInv(r), UserCodeEnds(r)
    PROVE  RequestInv(r)'
<1> DEFINE o == Origin(r)
<1>1. o \in Object /\ status[o] \in Status
  BY ObjectsOf DEF TypeOK
<1>2. ASSUME Resume(r, {"handler", "handshake"}) \/ Resume(r, {"handler"}) \/ Resume(r, {"handshake"})
      PROVE  /\ number'[r] = request_counter'
             /\ status[o] # "FORWARD" /\ evreq[r] = "live"
             /\ ctx[r].state = "none" /\ refs[r] = 2 /\ log[r] = <<>>
             /\ status[o] = "SENT" => Answered(r)
             /\ r \notin misused =>
                   /\ status[o] = "NONE"    => wire[r] = "none"
                   /\ status[o] = "SENDING" => wire[r] = "open"
                   /\ status[o] = "SENT"    => wire[r] = "complete"
             /\ NotSpoilt(r)
  BY <1>2 DEF Resume, RequestInv, InHandler
<1>3. ASSUME NEW c, NEW n, NEW body,
             Resume(r, {"handler", "handshake"}) \/ Resume(r, {"handler"}) \/ Resume(r, {"handshake"}),
             Conclude(r, status[o], c, n, body),
             refs' = [refs EXCEPT ![r] = Released(r, FALSE)], UNCHANGED <<ctx, misused>>
      PROVE  RequestInv(r)'
  <2>1. refs'[r] = 0
    BY <1>2, <1>3 DEF Released, TypeOK
  <2> HIDE DEF o
  <2> QED
    BY <1>1, <1>2, <1>3, <2>1, ConcludeOwn
<1>4. CASE HandlerReturnsSent(r)
  BY <1>3, <1>4 DEF HandlerReturnsSent
<1>5. CASE \E value \in {"nothing", "body", "unprintable"} : HandlerReturns(r, value)
  BY <1>3, <1>5 DEF HandlerReturns, Sendable
<1>6. CASE \E outcome \in ForwardOutcome : HandlerReturnsForward(r, outcome)
  BY <1>6, ForwardRequestInv DEF HandlerReturnsForward, Sendable
<1>7. CASE \E outcome \in ForwardOutcome : HandlerThrowsForward(r, outcome)
  BY <1>7, ForwardRequestInv DEF HandlerThrowsForward, Sendable, Misuse
<1>8. CASE \E c \in StatusCodes \union {500} : UserCodeThrows(r, c)
  BY <1>3, <1>8 DEF UserCodeThrows
<1>9. CASE HandshakeReturns(r)
  <2>1. refs'[r] = 0 /\ ctx'[r].state = "none"
    BY <1>2, <1>9 DEF HandshakeReturns, Released, TypeOK
  <2>2. /\ r \in misused => r \in misused'
        /\ r \notin misused' => wire[r] = "none"
    BY <1>2, <1>9 DEF HandshakeReturns, Misuse, Sendable
  <2> QED
    BY <1>2, <1>9, <2>1, <2>2, UpgradeOwn DEF HandshakeReturns
<1>10. CASE HandshakeRefused(r)
  BY <1>3, <1>10 DEF HandshakeRefused
<1>11. CASE CallbackReturns(r)
  <2>1. phase[r] = "callback" /\ phase'[r] = "loop" /\ number' = number /\ misused' = misused
    BY <1>11 DEF CallbackReturns, Resume, TypeOK
  <2> QED
    BY <1>11, <2>1, RelayOwn DEF CallbackReturns, RequestInv, InCallback
<1> QED
  BY <1>4, <1>5, <1>6, <1>7, <1>8, <1>9, <1>10, <1>11 DEF UserCodeEnds

\* The end of a forward answers its request and releases what it held.
LEMMA UpstreamEndsInv ==
    ASSUME TypeOK, NEW r \in Request, RequestInv(r), UpstreamEnds(r)
    PROVE  RequestInv(r)'
<1>1. /\ phase[r] = "loop" /\ ctx[r].state = "pending"
      /\ Forwarded(r) /\ NotSpoilt(r)
  BY DEF UpstreamEnds, UpstreamFails, UpstreamAnswers, CallbackCalled, ForwardPending,
         InLoop, UserFrame, RequestInv, Forwarded
<1>2. CASE UpstreamFails(r)
  <2>1. /\ UNCHANGED <<phase, number, log, misused>> /\ Emit(r, "reply", 500, 0)
        /\ r \in stale' => r \in stale \/ evreq[r] \in Freed
    BY <1>2 DEF UpstreamFails
  <2>2. ctx'[r].state = "none" /\ refs'[r] = 0 /\ log'[r] = <<>>
    BY <1>1, <1>2 DEF UpstreamFails, FreeCtx, Forwarded, NoCtx, TypeOK
  <2>3. ASSUME r \notin misused
        PROVE  /\ wire'[r] = "complete" \/ evreq'[r] = "dropped"
               /\ wire'[r] # "garbled" /\ evreq[r] \notin Freed
               /\ r \notin stale
    BY <1>1, <2>1, <2>3, EmitOwn DEF Forwarded, NotSpoilt, After, Freed
  <2> QED
    BY <1>1, <2>1, <2>2, <2>3 DEF RequestInv, Fresh, InHandler, Forwarded, InCallback,
       Ended, Logged, NotSpoilt
<1>3. CASE \E answer \in Responses(r) : UpstreamAnswers(r, answer[1], answer[2])
  <2>1. PICK answer \in Responses(r) : UpstreamAnswers(r, answer[1], answer[2])
    BY <1>3
  <2>2. Relay(r, answer[1], answer[2]) /\ UNCHANGED <<phase, number, misused>>
    BY <2>1 DEF UpstreamAnswers
  <2> QED
    BY <1>1, <2>2, RelayOwn
<1>4. CASE \E answer \in Responses(r) : CallbackCalled(r, answer[1], answer[2])
  <2>1. /\ phase'[r] = "callback" /\ status'[Response(r)] = "NONE"
        /\ ctx'[r].state = "pending" /\ ctx'[r].request_id = ctx[r].request_id
        /\ UNCHANGED <<number, refs, evreq, wire, log, misused>>
        /\ r \in stale' => r \in stale \/ evreq[r] \in Freed
    BY <1>1, <1>4, ObjectsOf DEF CallbackCalled, TypeOK, Ctx, wireVars
  <2> QED
    BY <1>1, <2>1 DEF RequestInv, Fresh, InHandler, Forwarded, InCallback, Ended, Logged,
       NotSpoilt, Freed
<1> QED
  BY <1>2, <1>3, <1>4 DEF UpstreamEnds

\* A response written and a client that leaves keep the invariant.
LEMMA EnvironmentInv ==
    ASSUME TypeOK, NEW r \in Request, RequestInv(r), Environment(r)
    PROVE  RequestInv(r)'
<1>1. /\ UNCHANGED <<request_counter, phase, number, status, refs, ctx, wire, log, misused, stale>>
      /\ phase[r] \notin UserFrame /\ evreq[r] = "live"
      /\ \/ Answered(r) /\ evreq'[r] = "freed"
         \/ phase[r] = "loop" /\ ~Answered(r) /\ evreq'[r] = "detached"
  BY DEF Environment, ResponseWritten, ClientLeaves, InLoop, Answered, TypeOK, objectVars, logVars
<1> QED
  BY <1>1 DEF RequestInv, Fresh, InHandler, Forwarded, InCallback, Ended, Logged, NotSpoilt,
     Answered, Freed, UserFrame

\* The invariant is inductive: it holds in every reachable state.
THEOREM Invariant == Spec => []IInv
<1>1. Init => IInv
  BY ObjectsOf DEF Init, IInv, RequestInv, Fresh, InHandler, Forwarded, InCallback, Ended,
     Logged, NotSpoilt, NoCtx
<1>2. TypeOK /\ IInv /\ [Next]_vars => IInv'
  <2> SUFFICES ASSUME TypeOK, IInv, [Next]_vars, NEW q \in Request
               PROVE  RequestInv(q)'
    BY DEF IInv
  <2>1. RequestInv(q)
    BY DEF IInv
  <2>2. ASSUME NEW r \in Request, Step(r)
        PROVE  RequestInv(q)'
    <3>1. CASE q # r
      BY <2>1, <2>2, <3>1, OthersSame, SameKeepsInv
    <3>2. CASE q = r
      BY <2>1, <2>2, <3>2, ReceiveInv, UserCallInv, UserCodeEndsInv, UpstreamEndsInv,
         EnvironmentInv DEF Step
    <3> QED
      BY <3>1, <3>2
  <2>3. CASE UNCHANGED vars
    BY <2>1, <2>3, SameKeepsInv DEF vars, Same
  <2> QED
    BY <2>2, <2>3 DEF Next, Quiescent, Step
<1> QED
  BY <1>1, <1>2, TypeCorrect, PTL DEF Spec

-----------------------------------------------------------------------------
(* What follows from the invariant.                                        *)

\* However requests and forwards interleave, a response is garbled only for a
\* request whose own user code misused the API.
THEOREM GarblingIsOwnFault == Spec => []GarbledOnlyByMisuse
<1>1. IInv => GarbledOnlyByMisuse
  BY DEF IInv, RequestInv, NotSpoilt, GarbledOnlyByMisuse
<1> QED
  BY <1>1, Invariant, PTL

\* No path out of request_handler or of a forward leaves a waiting client
\* without its answer.
THEOREM NobodyForgotten == Spec => []NoRequestForgotten
<1>1. IInv => NoRequestForgotten
  BY DEF IInv, RequestInv, Ended, Forwarded, Answered, NoRequestForgotten
<1> QED
  BY <1>1, Invariant, PTL

\* A request is logged at most once, under its own number, after it ended.
THEOREM LoggedOnce == Spec => []LogOnceUnderOwnNumber
<1>1. TypeOK /\ IInv => LogOnceUnderOwnNumber
  <2> SUFFICES ASSUME TypeOK, NEW r \in Request, RequestInv(r), log[r] # <<>>
               PROVE  /\ Len(log[r]) = 1
                      /\ log[r][1].id = number[r]
                      /\ phase[r] = "loop" /\ ctx[r].state = "none"
                      /\ Answered(r) \/ evreq[r] \in Freed
    BY DEF IInv, LogOnceUnderOwnNumber
  <2>1. log[r] = <<log[r][1]>> /\ log[r][1].id = number[r]
        /\ (Answered(r) \/ evreq[r] \in Freed)
    BY DEF RequestInv, Logged
  <2>2. Len(log[r]) = 1
    <3>1. \A e : Len(<<e>>) = 1
      OBVIOUS
    <3>2. \A e : log[r] = <<e>> => Len(log[r]) = 1
      BY <3>1
    <3> QED
      BY <2>1, <3>2
  <2>3. phase[r] = "loop" /\ ctx[r].state = "none"
    BY DEF RequestInv, Fresh, InHandler, Forwarded, InCallback, TypeOK, UserFrame
  <2> QED
    BY <2>1, <2>2, <2>3
<1> QED
  BY <1>1, Invariant, TypeCorrect, PTL

\* The request object is held exactly while the server may still use it.
THEOREM ObjectHeld == Spec => []ObjectHeldWhileUsed
<1>1. TypeOK /\ IInv => ObjectHeldWhileUsed
  <2> SUFFICES ASSUME TypeOK, NEW r \in Request, RequestInv(r)
               PROVE  refs[r] = (IF phase[r] \in {"handler", "handshake"} THEN 2 ELSE 0)
                                + (IF ctx[r].state # "none" THEN 1 ELSE 0)
    BY DEF IInv, ObjectHeldWhileUsed
  <2>1. phase[r] \in UserFrame \union {"new", "loop"}
    BY DEF TypeOK
  <2> QED
    BY <2>1 DEF RequestInv, Fresh, InHandler, Forwarded, InCallback, Ended, UserFrame
<1> QED
  BY <1>1, Invariant, TypeCorrect, PTL

\* The evhttp_request is used after libevent freed it only if user code misused
\* the API or the client left while its forward was outstanding.
THEOREM StaleOnlyThen == Spec => []StaleOnlyAfterDeparture
<1>1. TypeOK /\ IInv => StaleOnlyAfterDeparture
  BY DEF IInv, RequestInv, NotSpoilt, StaleOnlyAfterDeparture, TypeOK
<1> QED
  BY <1>1, Invariant, TypeCorrect, PTL

\* What a client sees of a request changes only by libevent's send functions or
\* by the upgrade.
LEMMA WireChanges ==
    ASSUME NEW r \in Request, Step(r)
    PROVE  \/ UNCHANGED <<wire, sent>>
           \/ \E event, c, n : Emit(r, event, c, n)
           \/ Upgrade(r)
<1>1. ASSUME NEW st, NEW c, NEW n, NEW body, Conclude(r, st, c, n, body)
      PROVE  UNCHANGED <<wire, sent>> \/ \E event, code_, n_ : Emit(r, event, code_, n_)
  BY <1>1 DEF Conclude, wireVars
<1>2. CASE Receive(r)
  BY <1>1, <1>2 DEF Receive, ReceiveRejected, ReceiveRouted, ReceiveHandshake,
     ReceiveUpgrade, wireVars
<1>3. CASE UserCall(r)
  BY <1>3 DEF UserCall, SetResponseStatus, SendResponseStart, SendResponseChunk,
     SendResponseEnd, SendFile, wireVars
<1>4. CASE UserCodeEnds(r)
  <2>1. \/ \E st, c, n, body : Conclude(r, st, c, n, body)
        \/ \E c, n : Relay(r, c, n)
        \/ Upgrade(r)
    <3>1. ASSUME NEW c, NEW outcome, ForwardRequest(r, c, outcome)
          PROVE  \E st, c_, n, body : Conclude(r, st, c_, n, body)
      BY <3>1 DEF ForwardRequest
    <3>2. ASSUME NEW value, HandlerReturns(r, value)
          PROVE  \E st, c_, n, body : Conclude(r, st, c_, n, body)
      BY <3>2 DEF HandlerReturns
    <3>3. ASSUME HandlerReturnsSent(r) \/ HandshakeRefused(r)
          PROVE  \E st, c_, n, body : Conclude(r, st, c_, n, body)
      BY <3>3 DEF HandlerReturnsSent, HandshakeRefused
    <3>4. ASSUME NEW c, UserCodeThrows(r, c)
          PROVE  \E st, c_, n, body : Conclude(r, st, c_, n, body)
      BY <3>4 DEF UserCodeThrows
    <3>5. ASSUME NEW outcome, HandlerReturnsForward(r, outcome) \/ HandlerThrowsForward(r, outcome)
          PROVE  \E st, c_, n, body : Conclude(r, st, c_, n, body)
      BY <3>1, <3>5 DEF HandlerReturnsForward, HandlerThrowsForward
    <3>6. HandshakeReturns(r) => Upgrade(r)
      BY DEF HandshakeReturns
    <3>7. CallbackReturns(r) => \E c, n : Relay(r, c, n)
      BY DEF CallbackReturns
    <3> QED
      BY <1>4, <3>2, <3>3, <3>4, <3>5, <3>6, <3>7 DEF UserCodeEnds
  <2> QED
    BY <1>1, <2>1 DEF Relay
<1>5. CASE UpstreamEnds(r)
  BY <1>5 DEF UpstreamEnds, UpstreamFails, UpstreamAnswers, CallbackCalled, Relay, wireVars
<1>6. CASE Environment(r)
  BY <1>6 DEF Environment, ResponseWritten, ClientLeaves
<1> QED
  BY <1>2, <1>3, <1>4, <1>5, <1>6 DEF Step

-----------------------------------------------------------------------------
(* What the clients get: the status lines, the bytes the access log counts, *)
(* and the refinement of ResponseContract.  The invariants, beside IInv.    *)

\* Nothing more is sent with a status line of its own.
Open == {"live", "owned"}
Begun(r) == wire[r] # "none" \/ evreq[r] \notin Open

\* A status line is only ever written with a status, or the one the upstream
\* answered with; a chunk or an end only behind one; and what the callback leaves to
\* be relayed is one.  The upstream answers a request once, which ends its forward.
Lines(r) == HttpStatus \union upstream[r]
LineInv(r) == wire[r] # "none" => sent[r].code \in Lines(r)
UpstreamInv(r) ==
    upstream[r] # {} => phase[r] = "callback" \/ (phase[r] = "loop" /\ ctx[r].state = "none")
StatusInv(r) ==
    /\ LineInv(r) /\ UpstreamInv(r)
    /\ status[Origin(r)] = "SENDING" \/ status[Response(r)] = "SENDING" => Begun(r)
    /\ phase[r] = "callback" => code[Response(r)] \in Lines(r)
    /\ code[Origin(r)] \in HttpStatus \union {0}

\* n bytes are those of s, what the client of r was sent, or more if s has no body.
Counts(r, s, n) == n >= s.len /\ (n = s.len \/ Bodyless(r, s.code))

\* The length of the origin's response counts what its client has been sent, as long
\* as request_handler or the user code under it may still log it.
BytesInv(r) ==
    r \notin misused =>
        /\ wire[r] = "none" => sent[r].len = 0
        /\ wire[r] = "none" /\ phase[r] \in {"new", "handler", "handshake"}
              => len[Origin(r)] = 0
        /\ phase[r] \in {"handler", "handshake"} => Counts(r, sent[r], len[Origin(r)])
        /\ log[r] # <<>> /\ evreq[r] # "dropped" => Counts(r, sent[r], log[r][1].len)
AnswerInv == \A r \in Request : StatusInv(r) /\ BytesInv(r)

-----------------------------------------------------------------------------
(* A step of one request leaves the others' answers alone.                 *)

\* The upstream's status is set only when it answers.
LEMMA UpstreamSet ==
    ASSUME NEW r \in Request, Step(r)
    PROVE  \/ upstream' = upstream
           \/ \E answer \in Responses(r) : upstream' = [upstream EXCEPT ![r] = {answer[1]}]
<1>1. CASE Receive(r)
  BY <1>1 DEF Receive, ReceiveRejected, ReceiveRouted, ReceiveHandshake, ReceiveUpgrade, Arrive
<1>2. CASE UserCall(r)
  BY <1>2 DEF UserCall, SetResponseStatus, SendResponseStart, SendResponseChunk,
     SendResponseEnd, SendFile
<1>3. CASE UserCodeEnds(r)
  BY <1>3 DEF UserCodeEnds, HandlerReturnsSent, HandlerReturns, HandlerReturnsForward,
     HandlerThrowsForward, UserCodeThrows, HandshakeReturns, HandshakeRefused,
     CallbackReturns, Resume
<1>4. CASE UpstreamEnds(r)
  BY <1>4 DEF UpstreamEnds, UpstreamFails, UpstreamAnswers, CallbackCalled
<1>5. CASE Environment(r)
  BY <1>5 DEF Environment, ResponseWritten, ClientLeaves
<1> QED
  BY <1>1, <1>2, <1>3, <1>4, <1>5 DEF Step

\* The upstream answers a request once: its status then stays.
LEMMA UpstreamOnce ==
    ASSUME TypeOK, NEW r \in Request, RequestInv(r), UpstreamInv(r), Step(r)
    PROVE  upstream[r] \subseteq upstream'[r] /\ UpstreamInv(r)'
<1>1. CASE Receive(r)
  BY <1>1 DEF Receive, ReceiveRejected, ReceiveRouted, ReceiveHandshake, ReceiveUpgrade,
     Arrive, UpstreamInv
<1>2. CASE UserCall(r)
  BY <1>2 DEF UserCall, SetResponseStatus, SendResponseStart, SendResponseChunk,
     SendResponseEnd, SendFile, UpstreamInv
<1>3. CASE UserCodeEnds(r)
  <2>1. ASSUME NEW F \in SUBSET {"handler", "handshake"}, Resume(r, F)
        PROVE  upstream[r] = {} /\ upstream'[r] = {}
    BY <2>1 DEF Resume, UpstreamInv
  <2>2. CallbackReturns(r) => /\ phase'[r] = "loop" /\ ctx'[r].state = "none"
                              /\ upstream' = upstream
    BY DEF CallbackReturns, Relay, FreeCtx, NoCtx, Resume, TypeOK
  <2>3. CASE CallbackReturns(r)
    BY <2>2, <2>3 DEF UpstreamInv
  <2>4. CASE ~CallbackReturns(r)
    <3>1. \E F \in SUBSET {"handler", "handshake"} : Resume(r, F)
      BY <1>3, <2>4 DEF UserCodeEnds, HandlerReturnsSent, HandlerReturns,
         HandlerReturnsForward, HandlerThrowsForward, UserCodeThrows, HandshakeReturns,
         HandshakeRefused
    <3> QED
      BY <2>1, <3>1 DEF UpstreamInv
  <2> QED
    BY <2>3, <2>4
<1>4. CASE UpstreamEnds(r)
  <2>1. ForwardPending(r)
    BY <1>4 DEF UpstreamEnds, UpstreamFails, UpstreamAnswers, CallbackCalled
  <2>2. phase[r] = "loop" /\ upstream[r] = {}
    BY <2>1 DEF ForwardPending, InLoop, UserFrame, RequestInv, Forwarded, UpstreamInv
  <2>3. UpstreamFails(r) => upstream' = upstream
    BY DEF UpstreamFails
  <2>4. \A c, n : UpstreamAnswers(r, c, n) => phase'[r] = "loop" /\ ctx'[r].state = "none"
    BY <2>2 DEF UpstreamAnswers, Relay, FreeCtx, NoCtx, TypeOK
  <2>5. \A c, n : CallbackCalled(r, c, n) => phase'[r] = "callback"
    BY DEF CallbackCalled, TypeOK
  <2> QED
    BY <1>4, <2>2, <2>3, <2>4, <2>5 DEF UpstreamEnds, UpstreamInv
<1>5. CASE Environment(r)
  BY <1>5 DEF Environment, ResponseWritten, ClientLeaves, UpstreamInv
<1> QED
  BY <1>1, <1>2, <1>3, <1>4, <1>5 DEF Step

\* What the objects of q hold is as it was.
KeptOf(q) == /\ code'[Response(q)] = code[Response(q)]
             /\ code'[Origin(q)] = code[Origin(q)]
             /\ len'[Origin(q)] = len[Origin(q)]

\* Nor does a step change what another request was sent, is to send or has counted.
LEMMA OthersKept ==
    ASSUME TypeOK, NEW r \in Request, NEW q \in Request, q # r, Step(r)
    PROVE  /\ sent'[q] = sent[q] /\ upstream'[q] = upstream[q]
           /\ KeptOf(q)
<1> USE ObjectsOf, ObjectsDiffer DEF KeptOf
<1>1. sent'[q] = sent[q]
  <2>1. ASSUME NEW event, NEW c, NEW n, Emit(r, event, c, n) PROVE sent'[q] = sent[q]
    BY <2>1 DEF Emit, TypeOK
  <2>2. Upgrade(r) => sent'[q] = sent[q]
    BY DEF Upgrade, TypeOK
  <2> QED
    BY <2>1, <2>2, WireChanges
<1>2. KeptOf(q)
  <2>1. CASE Receive(r)
    BY <2>1 DEF Receive, ReceiveRejected, ReceiveRouted, ReceiveHandshake, ReceiveUpgrade,
       Upgrade, TypeOK
  <2>2. CASE UserCall(r)
    BY <2>2 DEF UserCall, SetResponseStatus, SendResponseStart, SendResponseChunk,
       SendResponseEnd, SendFile, TypeOK
  <2>3. CASE UserCodeEnds(r)
    <3>1. ASSUME NEW c, NEW outcome, ForwardRequest(r, c, outcome)
          PROVE  KeptOf(q)
      BY <3>1 DEF ForwardRequest, TypeOK
    <3>2. ASSUME NEW outcome, HandlerReturnsForward(r, outcome) \/ HandlerThrowsForward(r, outcome)
          PROVE  KeptOf(q)
      BY <3>1, <3>2 DEF HandlerReturnsForward, HandlerThrowsForward
    <3>3. ASSUME NEW value, HandlerReturns(r, value)
          PROVE  KeptOf(q)
      BY <3>3 DEF HandlerReturns, TypeOK
    <3>4. CASE HandlerReturnsSent(r)
      BY <3>4 DEF HandlerReturnsSent, objectVars
    <3>5. ASSUME NEW c, UserCodeThrows(r, c)
          PROVE  KeptOf(q)
      BY <3>5 DEF UserCodeThrows, TypeOK
    <3>6. CASE HandshakeReturns(r)
      BY <3>6 DEF HandshakeReturns, Upgrade, TypeOK
    <3>7. CASE HandshakeRefused(r)
      BY <3>7 DEF HandshakeRefused, TypeOK
    <3>8. CASE CallbackReturns(r)
      BY <3>8 DEF CallbackReturns, Relay, TypeOK
    <3> QED
      BY <2>3, <3>2, <3>3, <3>4, <3>5, <3>6, <3>7, <3>8 DEF UserCodeEnds
  <2>4. CASE UpstreamEnds(r)
    BY <2>4 DEF UpstreamEnds, UpstreamFails, UpstreamAnswers, CallbackCalled, Relay,
       objectVars, TypeOK
  <2>5. CASE Environment(r)
    BY <2>5 DEF Environment, ResponseWritten, ClientLeaves, objectVars
  <2> QED
    BY <2>1, <2>2, <2>3, <2>4, <2>5 DEF Step
<1>3. upstream'[q] = upstream[q]
  <2>1. upstream' = upstream \/ \E answer \in Responses(r) : upstream' = [upstream EXCEPT ![r] = {answer[1]}]
    BY UpstreamSet
  <2> QED
    BY <2>1 DEF TypeOK
<1> QED
  BY <1>1, <1>2, <1>3

\* So a request that no step was of keeps its part of the invariant.
LEMMA KeptKeepsInv ==
    ASSUME NEW q \in Request, StatusInv(q), BytesInv(q), Same(q),
           sent'[q] = sent[q], upstream'[q] = upstream[q],
           KeptOf(q)
    PROVE  StatusInv(q)' /\ BytesInv(q)'
<1>1. StatusInv(q)'
  BY DEF KeptOf, Same, StatusInv, LineInv, UpstreamInv, Lines, Begun, Origin, Response
<1>2. BytesInv(q)'
  BY DEF KeptOf, Same, BytesInv, Origin
<1> QED
  BY <1>1, <1>2

-----------------------------------------------------------------------------
(* What a step sends.                                                      *)

\* What the functions of libevent that send do to the wire and to what was sent.
LEMMA EmitSends ==
    ASSUME TypeOK, NEW r \in Request, NEW event, NEW c, NEW n, Emit(r, event, c, n)
    PROVE  /\ evreq[r] \in Open => wire'[r] = After(wire[r], event)
           /\ evreq[r] \in Open /\ wire'[r] # "garbled" =>
                 /\ sent'[r].code = IF wire[r] = "none" THEN c ELSE sent[r].code
                 /\ \E bytes \in BodySent(r, sent'[r].code, n) :
                       sent'[r].len = sent[r].len + bytes
           /\ evreq[r] \in Open /\ wire'[r] = "garbled" => sent'[r] = sent[r]
           /\ evreq[r] \notin Open => wire'[r] = wire[r] /\ sent'[r] = sent[r]
           /\ evreq'[r] \in Open <=> evreq[r] \in Open
<1> DEFINE line == IF wire[r] = "none" THEN c ELSE sent[r].code
<1>1. /\ evreq'[r] \in Open <=> evreq[r] \in Open
      /\ evreq[r] \in Open => wire'[r] = After(wire[r], event)
      /\ evreq[r] \notin Open => wire'[r] = wire[r] /\ sent'[r] = sent[r]
      /\ evreq[r] \in Open /\ wire'[r] = "garbled" => sent'[r] = sent[r]
  BY DEF Emit, TypeOK, Open
<1>2. ASSUME evreq[r] \in Open, wire'[r] # "garbled"
      PROVE  /\ sent'[r].code = line
             /\ \E bytes \in BodySent(r, sent'[r].code, n) : sent'[r].len = sent[r].len + bytes
  <2>1. PICK bytes \in BodySent(r, line, n) :
          sent' = [sent EXCEPT ![r] = [code |-> line, len |-> @.len + bytes]]
    BY <1>1, <1>2 DEF Emit, Open
  <2> HIDE DEF line
  <2>2. sent'[r] = [code |-> line, len |-> sent[r].len + bytes]
    BY <2>1 DEF TypeOK
  <2> QED
    BY <2>1, <2>2
<1> QED
  BY <1>1, <1>2

\* A status line only with a status, the rest of a response only behind one.
Sends(r) ==
    \/ UNCHANGED <<wire, sent>> /\ (evreq'[r] \in Open => evreq[r] \in Open)
    \/ \E event, c, n : /\ Emit(r, event, c, n)
                        /\ Begun(r) \/ (c \in Lines(r)' /\ event \in {"reply", "start"})
    \/ Upgrade(r)

\* Who sends so keeps the status line valid, and nothing begun is begun again.
LEMMA SendsKeepsLine ==
    ASSUME TypeOK, NEW r \in Request, LineInv(r), upstream[r] \subseteq upstream'[r], Sends(r)
    PROVE  LineInv(r)' /\ (Begun(r) => Begun(r)')
<1>1. CASE UNCHANGED <<wire, sent>> /\ (evreq'[r] \in Open => evreq[r] \in Open)
  BY <1>1 DEF LineInv, Lines, Begun
<1>2. ASSUME NEW event, NEW c, NEW n, Emit(r, event, c, n),
             Begun(r) \/ (c \in Lines(r)' /\ event \in {"reply", "start"})
      PROVE  LineInv(r)' /\ (Begun(r) => Begun(r)')
  BY <1>2, EmitSends DEF LineInv, Lines, Begun, After
<1>3. CASE Upgrade(r)
  <2>1. /\ wire'[r] = After(wire[r], "reply") /\ wire'[r] # "none"
        /\ sent'[r].code = IF wire[r] = "none" THEN 101 ELSE sent[r].code
    BY <1>3 DEF Upgrade, After, TypeOK
  <2> QED
    BY <2>1 DEF LineInv, Lines, Begun, HttpStatus
<1> QED
  BY <1>1, <1>2, <1>3 DEF Sends

\* Whatever is sent behind a status line may be.
LEMMA SendsBehind ==
    ASSUME NEW r \in Request, NEW event, NEW c, NEW n, Emit(r, event, c, n), Begun(r)
    PROVE  Sends(r)
BY DEF Sends

\* So may a reply or a start that has a status.
LEMMA SendsStatus ==
    ASSUME NEW r \in Request, NEW event \in {"reply", "start"}, NEW c, NEW n,
           c \in HttpStatus \/ c \in upstream'[r], Emit(r, event, c, n)
    PROVE  Sends(r)
BY DEF Sends, Lines

\* The end of request_handler sends with the status it is given, or ends what was
\* begun.
LEMMA ConcludeSends ==
    ASSUME NEW r \in Request, NEW st, NEW c, NEW n, NEW body, Conclude(r, st, c, n, body),
           st = "NONE" => c \in HttpStatus, st = "SENDING" => Begun(r)
    PROVE  Sends(r)
<1>1. CASE UNCHANGED wireVars
  BY <1>1 DEF Sends, wireVars
<1>2. CASE st = "NONE" /\ Emit(r, "reply", c, body)
  BY <1>2, SendsStatus
<1>3. CASE st = "SENDING" /\ Emit(r, "end", c, 0)
  BY <1>3, SendsBehind
<1> QED
  BY <1>1, <1>2, <1>3 DEF Conclude

\* Every step of a request sends in one of these ways.
LEMMA StepSends ==
    ASSUME TypeOK, NEW r \in Request, RequestInv(r), StatusInv(r), Step(r)
    PROVE  Sends(r)
<1> DEFINE o == Origin(r)
<1>1. /\ o \in Object /\ code[o] \in HttpStatus \union {0}
      /\ status[o] = "SENDING" => Begun(r)
  BY ObjectsOf DEF StatusInv
<1>2. ReplyCode(code[o]) \in HttpStatus
  BY <1>1 DEF ReplyCode, HttpStatus
<1>3. CASE Receive(r)
  <2>1. \A c \in RejectCodes : ReceiveRejected(r, c) => Sends(r)
    BY ConcludeSends DEF ReceiveRejected, RejectCodes, HttpStatus
  <2>2. ReceiveRouted(r) \/ ReceiveHandshake(r) => Sends(r)
    BY DEF ReceiveRouted, ReceiveHandshake, Sends, wireVars
  <2> QED
    BY <1>3, <2>1, <2>2 DEF Receive, ReceiveUpgrade, Sends
<1>4. CASE UserCall(r)
  <2>1. Streaming(Current(r)) => Begun(r)
    BY DEF Streaming, Current, StatusInv
  <2>2. \A c \in StatusCodes : SetResponseStatus(r, c) => Sends(r)
    BY DEF SetResponseStatus, Sends, wireVars
  <2>3. \A c \in StatusCodes : SendResponseStart(r, c) => Sends(r)
    BY StatusCodesAssumption, SendsStatus DEF SendResponseStart
  <2>4. SendResponseChunk(r) \/ SendResponseEnd(r) => Sends(r)
    BY <2>1, SendsBehind DEF SendResponseChunk, SendResponseEnd
  <2>5. ASSUME NEW reply \in FileReply(r), SendFile(r, reply[1], reply[2]) PROVE Sends(r)
    <3>1. reply[1] \in HttpStatus
      BY DEF FileReply, HttpStatus
    <3> QED
      BY <2>5, <3>1, SendsStatus DEF SendFile
  <2> QED
    BY <1>4, <2>2, <2>3, <2>4, <2>5 DEF UserCall
<1>5. CASE UserCodeEnds(r)
  <2>1. ASSUME NEW c, NEW outcome \in ForwardOutcome, ForwardRequest(r, c, outcome)
        PROVE  Sends(r)
    <3> DEFINE st == IF outcome # "refused" THEN "FORWARD" ELSE status[o]
               c1 == IF outcome # "refused" THEN c ELSE 500
    <3>1. Conclude(r, st, c1, len[o], 0)
      BY <2>1 DEF ForwardRequest
    <3>2. st = "FORWARD" \/ (st = status[o] /\ c1 = 500)
      OBVIOUS
    <3> HIDE DEF st, c1
    <3> QED
      BY <1>1, <3>1, <3>2, ConcludeSends DEF HttpStatus
  <2>2. \A outcome \in ForwardOutcome : HandlerReturnsForward(r, outcome) => Sends(r)
    BY <2>1 DEF HandlerReturnsForward
  <2>3. \A outcome \in ForwardOutcome : HandlerThrowsForward(r, outcome) => Sends(r)
    BY <2>1 DEF HandlerThrowsForward
  <2>4. HandlerReturnsSent(r) => Sends(r)
    BY <1>1, ConcludeSends DEF HandlerReturnsSent, Sendable
  <2>5. ASSUME NEW value \in {"nothing", "body", "unprintable"}, HandlerReturns(r, value)
        PROVE  Sends(r)
    <3>1. PICK c1, n : /\ Conclude(r, "NONE", c1, n, n)
                       /\ c1 \in {500, ReplyCode(code[o])}
      BY <2>5 DEF HandlerReturns
    <3> QED
      BY <1>2, <3>1, ConcludeSends DEF HttpStatus
  <2>6. ASSUME NEW c \in StatusCodes \union {500}, UserCodeThrows(r, c) PROVE Sends(r)
    <3>1. c \in HttpStatus
      BY StatusCodesAssumption DEF HttpStatus
    <3> QED
      BY <1>1, <2>6, <3>1, ConcludeSends DEF UserCodeThrows
  <2>7. HandshakeReturns(r) => Sends(r)
    BY DEF HandshakeReturns, Sends
  <2>8. HandshakeRefused(r) => Sends(r)
    BY <1>1, ConcludeSends DEF HandshakeRefused, HttpStatus
  <2>9. CallbackReturns(r) => Sends(r)
    BY SendsStatus DEF CallbackReturns, Resume, Relay, StatusInv, Lines
  <2> QED
    BY <1>5, <2>2, <2>3, <2>4, <2>5, <2>6, <2>7, <2>8, <2>9 DEF UserCodeEnds
<1>6. CASE UpstreamEnds(r)
  <2>1. UpstreamFails(r) => Sends(r)
    BY SendsStatus DEF UpstreamFails, HttpStatus
  <2>2. ASSUME NEW c, NEW n, UpstreamAnswers(r, c, n) PROVE Sends(r)
    BY <2>2, SendsStatus DEF UpstreamAnswers, Relay, TypeOK
  <2>3. ASSUME NEW c, NEW n, CallbackCalled(r, c, n) PROVE Sends(r)
    BY <2>3 DEF CallbackCalled, Sends, wireVars
  <2> QED
    BY <1>6, <2>1, <2>2, <2>3 DEF UpstreamEnds
<1>7. CASE Environment(r)
  BY <1>7 DEF Environment, ResponseWritten, ClientLeaves, Sends, Open, TypeOK
<1> QED
  BY <1>3, <1>4, <1>5, <1>6, <1>7 DEF Step

\* Only sendResponseStart makes a response one that is being sent; and only the
\* upstream and the callback set the status the callback's object has.
LEMMA StatusesSet ==
    ASSUME TypeOK, NEW r \in Request, Step(r)
    PROVE  /\ \/ \E c \in StatusCodes : SendResponseStart(r, c)
              \/ \A o \in {Origin(r), Response(r)} :
                    status'[o] = "SENDING" => status[o] = "SENDING"
           /\ phase'[r] = "callback" =>
                 \/ code'[Response(r)] \in Lines(r)'
                 \/ phase[r] = "callback" /\ code'[Response(r)] = code[Response(r)]
<1> DEFINE Kept == \A o \in {Origin(r), Response(r)} :
                      status'[o] = "SENDING" => status[o] = "SENDING"
           Coded == phase'[r] = "callback" =>
                       \/ code'[Response(r)] \in Lines(r)'
                       \/ phase[r] = "callback" /\ code'[Response(r)] = code[Response(r)]
<1> USE ObjectsOf
<1>1. ASSUME NEW st, NEW c, NEW n, NEW body, Conclude(r, st, c, n, body) PROVE Coded
  BY <1>1 DEF Conclude, TypeOK
<1>2. ASSUME Upgrade(r) PROVE Coded /\ Kept
  BY <1>2 DEF Upgrade, TypeOK
<1>3. ASSUME Receive(r) PROVE Coded /\ Kept
  <2>1. \A c \in RejectCodes : ReceiveRejected(r, c) => Coded /\ Kept
    BY <1>1 DEF ReceiveRejected
  <2>2. ReceiveRouted(r) \/ ReceiveHandshake(r) => Coded /\ Kept
    BY DEF ReceiveRouted, ReceiveHandshake, TypeOK
  <2>3. ReceiveUpgrade(r) => Coded /\ Kept
    BY <1>2 DEF ReceiveUpgrade
  <2> HIDE DEF Coded, Kept
  <2> QED
    BY <1>3, <2>1, <2>2, <2>3 DEF Receive
<1>4. ASSUME UserCall(r)
      PROVE  Coded /\ ((\E c \in StatusCodes : SendResponseStart(r, c)) \/ Kept)
  <2>1. phase' = phase /\ (phase[r] = "callback" => Current(r) = Response(r))
    BY <1>4 DEF UserCall, SetResponseStatus, SendResponseStart, SendResponseChunk,
       SendResponseEnd, SendFile, Current
  <2>2. \A c \in StatusCodes : SetResponseStatus(r, c) => Coded /\ Kept
    BY <2>1, StatusCodesAssumption DEF SetResponseStatus, TypeOK, Lines
  <2>3. \A c \in StatusCodes : SendResponseStart(r, c) => Coded
    BY <2>1, StatusCodesAssumption DEF SendResponseStart, TypeOK, Lines
  <2>4. SendResponseChunk(r) \/ SendResponseEnd(r) => Coded /\ Kept
    BY <2>1 DEF SendResponseChunk, SendResponseEnd, TypeOK
  <2>5. ASSUME NEW reply \in FileReply(r), SendFile(r, reply[1], reply[2]) PROVE Coded /\ Kept
    <3>1. reply[1] \in HttpStatus
      BY DEF FileReply, HttpStatus
    <3>2. /\ code' = [code EXCEPT ![Current(r)] = reply[1]]
          /\ status' = [status EXCEPT ![Current(r)] = "SENT"]
      BY <2>5 DEF SendFile
    <3> QED
      BY <2>1, <3>1, <3>2 DEF TypeOK, Lines
  <2> HIDE DEF Coded, Kept
  <2> QED
    BY <1>4, <2>2, <2>3, <2>4, <2>5 DEF UserCall
<1>5. ASSUME UserCodeEnds(r) PROVE Coded /\ Kept
  <2>1. ASSUME NEW c, NEW outcome, ForwardRequest(r, c, outcome) PROVE Coded /\ Kept
    <3>1. Kept
      BY <2>1 DEF ForwardRequest, TypeOK
    <3>2. Coded
      BY <1>1, <2>1 DEF ForwardRequest
    <3> QED
      BY <3>1, <3>2
  <2>2. ASSUME NEW outcome, HandlerReturnsForward(r, outcome) \/ HandlerThrowsForward(r, outcome)
        PROVE  Coded /\ Kept
    <3> HIDE DEF Coded, Kept
    <3> QED
      BY <2>1, <2>2 DEF HandlerReturnsForward, HandlerThrowsForward
  <2>3. ASSUME NEW value, HandlerReturns(r, value) PROVE Coded /\ Kept
    BY <1>1, <2>3 DEF HandlerReturns
  <2>4. HandlerReturnsSent(r) => Coded /\ Kept
    BY <1>1 DEF HandlerReturnsSent, objectVars
  <2>5. ASSUME NEW c, UserCodeThrows(r, c) PROVE Coded /\ Kept
    BY <1>1, <2>5 DEF UserCodeThrows
  <2>6. HandshakeReturns(r) => Coded /\ Kept
    BY <1>2 DEF HandshakeReturns
  <2>7. HandshakeRefused(r) => Coded /\ Kept
    BY <1>1 DEF HandshakeRefused
  <2>8. CallbackReturns(r) => Coded /\ Kept
    BY DEF CallbackReturns, TypeOK
  <2> HIDE DEF Coded, Kept
  <2> QED
    BY <1>5, <2>2, <2>3, <2>4, <2>5, <2>6, <2>7, <2>8 DEF UserCodeEnds
<1>6. ASSUME UpstreamEnds(r) PROVE Coded /\ Kept
  <2>1. UpstreamFails(r) => Coded /\ Kept
    BY DEF UpstreamFails, objectVars
  <2>2. \A c, n : UpstreamAnswers(r, c, n) => Coded /\ Kept
    BY DEF UpstreamAnswers
  <2>3. ASSUME NEW c, NEW n, CallbackCalled(r, c, n) PROVE Coded /\ Kept
    <3>1. code'[Response(r)] = c /\ upstream'[r] = {c}
      BY <2>3 DEF CallbackCalled, TypeOK
    <3>2. Kept
      BY <2>3, ObjectsDiffer DEF CallbackCalled, TypeOK
    <3> QED
      BY <3>1, <3>2 DEF Lines
  <2> HIDE DEF Coded, Kept
  <2> QED
    BY <1>6, <2>1, <2>2, <2>3 DEF UpstreamEnds
<1>7. ASSUME Environment(r) PROVE Coded /\ Kept
  BY <1>7 DEF Environment, ResponseWritten, ClientLeaves, objectVars
<1> HIDE DEF Coded
<1>8. Coded /\ ((\E c \in StatusCodes : SendResponseStart(r, c)) \/ Kept)
  BY <1>3, <1>4, <1>5, <1>6, <1>7 DEF Step
<1> QED
  BY <1>8 DEF Coded

\* The origin's status is user code's or the server's own, never the upstream's.
LEMMA OriginCode ==
    ASSUME TypeOK, NEW r \in Request, code[Origin(r)] \in HttpStatus \union {0}, Step(r)
    PROVE  code'[Origin(r)] \in HttpStatus \union {0}
<1> DEFINE o == Origin(r)
           Own(c) == c \in HttpStatus \union {0}
           Good == Own(code'[o])
<1>1. o \in Object /\ Current(r) \in Object /\ Response(r) \in Object /\ Response(r) # o
  BY ObjectsOf, ObjectsDiffer
<1>2. \A c : code' = [code EXCEPT ![o] = c] /\ Own(c) => Good
  BY <1>1 DEF TypeOK
<1>3. \A c : code' = [code EXCEPT ![Current(r)] = c] /\ Own(c) => Good
  BY <1>1 DEF TypeOK
<1>4. Own(ReplyCode(code[o])) /\ Own(500) /\ Own(101) /\ Own(400)
  BY DEF ReplyCode, HttpStatus
<1>5. code' = code => Good
  OBVIOUS
<1>6. ASSUME Receive(r) PROVE Good
  <2>1. \A c \in RejectCodes : Own(c)
    BY DEF RejectCodes, HttpStatus
  <2>2. \A c \in RejectCodes : ReceiveRejected(r, c) => Good
    BY <1>2, <2>1 DEF ReceiveRejected
  <2>3. ReceiveRouted(r) \/ ReceiveHandshake(r) => Good
    BY <1>5 DEF ReceiveRouted, ReceiveHandshake
  <2>4. ReceiveUpgrade(r) => Good
    BY <1>2, <1>4 DEF ReceiveUpgrade, Upgrade
  <2> HIDE DEF Good
  <2> QED
    BY <1>6, <2>2, <2>3, <2>4 DEF Receive
<1>7. ASSUME UserCall(r) PROVE Good
  <2>1. \A c \in StatusCodes : Own(c)
    BY StatusCodesAssumption
  <2>2. \A reply \in FileReply(r) : Own(reply[1])
    BY DEF FileReply, HttpStatus
  <2>3. \A c \in StatusCodes : SetResponseStatus(r, c) \/ SendResponseStart(r, c) => Good
    BY <1>3, <2>1 DEF SetResponseStatus, SendResponseStart
  <2>4. SendResponseChunk(r) \/ SendResponseEnd(r) => Good
    BY <1>5 DEF SendResponseChunk, SendResponseEnd
  <2>5. \A reply \in FileReply(r) : SendFile(r, reply[1], reply[2]) => Good
    BY <1>3, <2>2 DEF SendFile
  <2> HIDE DEF Good
  <2> QED
    BY <1>7, <2>3, <2>4, <2>5 DEF UserCall
<1>8. ASSUME UserCodeEnds(r) PROVE Good
  <2>1. \A c, outcome : ForwardRequest(r, c, outcome) /\ Own(c) => Good
    BY <1>2, <1>4 DEF ForwardRequest
  <2>2. \A value : HandlerReturns(r, value) => Good
    BY <1>2, <1>4 DEF HandlerReturns
  <2>3. \A outcome : HandlerReturnsForward(r, outcome) => Good
    BY <1>4, <2>1 DEF HandlerReturnsForward
  <2>4. \A outcome : HandlerThrowsForward(r, outcome) => Good
    BY <1>4, <2>1 DEF HandlerThrowsForward
  <2>5. \A c \in StatusCodes \union {500} : UserCodeThrows(r, c) => Good
    BY <1>2, <1>4, StatusCodesAssumption DEF UserCodeThrows
  <2>6. HandlerReturnsSent(r) => Good
    BY DEF HandlerReturnsSent, objectVars
  <2>7. HandshakeReturns(r) \/ HandshakeRefused(r) => Good
    BY <1>2, <1>4 DEF HandshakeReturns, Upgrade, HandshakeRefused
  <2>8. CallbackReturns(r) => Good
    BY DEF CallbackReturns
  <2> HIDE DEF Good
  <2> QED
    BY <1>8, <2>2, <2>3, <2>4, <2>5, <2>6, <2>7, <2>8 DEF UserCodeEnds
<1>9. ASSUME UpstreamEnds(r) PROVE Good
  BY <1>1, <1>9 DEF UpstreamEnds, UpstreamFails, UpstreamAnswers, CallbackCalled, objectVars, TypeOK
<1>10. ASSUME Environment(r) PROVE Good
  BY <1>10 DEF Environment, ResponseWritten, ClientLeaves, objectVars
<1> HIDE DEF Good
<1>11. Good
  BY <1>6, <1>7, <1>8, <1>9, <1>10 DEF Step
<1> QED
  BY <1>11 DEF Good

\* So a request's own step keeps what the invariant says of its status line.
LEMMA StepStatus ==
    ASSUME TypeOK, NEW r \in Request, RequestInv(r), StatusInv(r), Step(r)
    PROVE  StatusInv(r)'
<1>0. upstream[r] \subseteq upstream'[r] /\ UpstreamInv(r)'
  BY UpstreamOnce DEF StatusInv
<1>1. LineInv(r)' /\ (Begun(r) => Begun(r)')
  BY <1>0, StepSends, SendsKeepsLine DEF StatusInv
<1>2. (\E c \in StatusCodes : SendResponseStart(r, c)) => Begun(r)'
  <2>1. ASSUME NEW c, Emit(r, "start", c, 0) PROVE Begun(r)'
    BY <2>1, EmitSends DEF Begun, After
  <2> QED
    BY <2>1 DEF SendResponseStart
<1>3. status'[Origin(r)] = "SENDING" \/ status'[Response(r)] = "SENDING" => Begun(r)'
  BY <1>1, <1>2, StatusesSet DEF StatusInv
<1>4. phase'[r] = "callback" => code'[Response(r)] \in Lines(r)'
  BY <1>0, StatusesSet DEF StatusInv, Lines
<1>5. code'[Origin(r)] \in HttpStatus \union {0}
  BY OriginCode DEF StatusInv
<1> QED
  BY <1>0, <1>1, <1>3, <1>4, <1>5 DEF StatusInv, Origin, Response

-----------------------------------------------------------------------------
(* What the log says of the bytes.                                         *)

\* The first entry of the log has the length it was given.
LEMMA WriteLogLen ==
    ASSUME TypeOK, NEW r \in Request, NEW id, NEW c, NEW n, log[r] = << >>,
           WriteLog(r, id, c, n)
    PROVE  log'[r][1].len = n
BY DEF WriteLog, TypeOK

\* What is sent is counted, if what was sent before is.
LEMMA EmitCounts ==
    ASSUME TypeOK, NEW r \in Request, NEW event, NEW c, NEW n \in Nat, NEW m \in Nat,
           Emit(r, event, c, n), evreq[r] \in Open, After(wire[r], event) # "garbled",
           Counts(r, sent[r], m), wire[r] = "none" => m = 0
    PROVE  Counts(r, sent'[r], m + n)
<1>1. /\ sent'[r].code = IF wire[r] = "none" THEN c ELSE sent[r].code
      /\ \E bytes \in BodySent(r, sent'[r].code, n) : sent'[r].len = sent[r].len + bytes
  BY EmitSends
<1>2. PICK bytes \in BodySent(r, sent'[r].code, n) : sent'[r].len = sent[r].len + bytes
  BY <1>1
<1>3. bytes = n \/ (bytes = 0 /\ Bodyless(r, sent'[r].code))
  BY DEF BodySent
<1>4. sent[r].len \in Nat
  BY DEF TypeOK
<1>5. m + n >= sent'[r].len
  BY <1>2, <1>3, <1>4 DEF Counts
<1>6. m = sent[r].len \/ Bodyless(r, sent'[r].code)
  BY <1>1, <1>4 DEF Counts
<1> QED
  BY <1>2, <1>3, <1>4, <1>5, <1>6 DEF Counts

\* request_handler logs the bytes it sends itself, or those sent before.
LEMMA ConcludeBytes ==
    ASSUME TypeOK, NEW r \in Request, NEW st, NEW c, NEW n \in Nat, NEW body, BytesInv(r),
           evreq[r] = "live", log[r] = << >>,
           r \in misused => r \in misused',
           r \notin misused' =>
              /\ st = "NONE"    => wire[r] = "none" /\ n = body
              /\ st = "SENDING" => wire[r] = "open" /\ Counts(r, sent[r], n)
              /\ st = "SENT"    => wire[r] = "complete" /\ Counts(r, sent[r], n),
           Conclude(r, st, c, n, body)
    PROVE  BytesInv(r)'
<1>1. phase'[r] = "loop"
  BY DEF Conclude, TypeOK
<1> SUFFICES ASSUME r \notin misused'
             PROVE  /\ wire'[r] = "none" => sent'[r].len = 0
                    /\ log'[r] # << >> => Counts(r, sent'[r], log'[r][1].len)
  BY <1>1 DEF BytesInv
<1>2. wire[r] = "none" => sent[r].len = 0
  BY DEF BytesInv
<1>3. sent[r].len \in Nat
  BY DEF TypeOK
<1>4. CASE st = "FORWARD"
  BY <1>1, <1>2, <1>4 DEF Conclude, wireVars, logVars
<1>5. CASE st = "NONE"
  <2>1. WriteLog(r, request_counter', c, n) /\ Emit(r, "reply", c, n) /\ wire[r] = "none"
    BY <1>5 DEF Conclude
  <2>2. Counts(r, sent[r], 0)
    BY <1>2, <2>1 DEF Counts
  <2>3. wire'[r] = "complete" /\ After(wire[r], "reply") # "garbled"
    BY <2>1, EmitSends DEF After, Open
  <2>4. Counts(r, sent'[r], 0 + n)
    BY <2>1, <2>2, <2>3, EmitCounts DEF Open
  <2>5. log'[r][1].len = n
    BY <2>1, WriteLogLen
  <2> QED
    BY <2>3, <2>4, <2>5
<1>6. CASE st = "SENDING"
  <2>1. /\ WriteLog(r, request_counter', c, n) /\ Emit(r, "end", c, 0)
        /\ wire[r] = "open" /\ Counts(r, sent[r], n)
    BY <1>6 DEF Conclude
  <2>2. wire'[r] = "complete" /\ After(wire[r], "end") # "garbled"
    BY <2>1, EmitSends DEF After, Open
  <2>3. Counts(r, sent'[r], n + 0)
    BY <2>1, <2>2, EmitCounts DEF Open
  <2>4. log'[r][1].len = n
    BY <2>1, WriteLogLen
  <2> QED
    BY <2>2, <2>3, <2>4
<1>7. CASE st = "SENT"
  <2>1. WriteLog(r, request_counter', c, n) /\ UNCHANGED <<wire, sent>>
    BY <1>7 DEF Conclude, wireVars
  <2>2. log'[r][1].len = n /\ wire[r] = "complete" /\ Counts(r, sent[r], n)
    BY <1>7, <2>1, WriteLogLen
  <2> QED
    BY <2>1, <2>2
<1> QED
  BY <1>4, <1>5, <1>6, <1>7 DEF Conclude

\* An upgrade sends no body and finds none sent.
LEMMA UpgradeBytes ==
    ASSUME TypeOK, NEW r \in Request, log[r] = << >>,
           r \notin misused' => wire[r] = "none" /\ len[Origin(r)] = 0,
           Upgrade(r)
    PROVE  BytesInv(r)'
<1>1. /\ phase'[r] = "loop" /\ wire'[r] # "none"
      /\ r \notin misused' => sent'[r].len = 0
  BY DEF Upgrade, After, TypeOK
<1>2. log'[r][1].len = len[Origin(r)]
  BY WriteLogLen DEF Upgrade
<1> QED
  BY <1>1, <1>2 DEF BytesInv, Counts

\* A relayed reply is all its client is sent.
LEMMA RelayBytes ==
    ASSUME TypeOK, NEW r \in Request, NEW c, NEW n \in Nat, BytesInv(r), Forwarded(r),
           ctx[r].state # "none", phase'[r] = "loop", misused' = misused, Relay(r, c, n)
    PROVE  BytesInv(r)'
<1> SUFFICES ASSUME r \notin misused
             PROVE  /\ wire'[r] = "none" => sent'[r].len = 0
                    /\ evreq'[r] # "dropped" => Counts(r, sent'[r], log'[r][1].len)
  BY DEF BytesInv
<1>1. /\ wire[r] = "none" /\ sent[r].len = 0 /\ evreq[r] \in {"live", "detached"}
      /\ log[r] = << >>
  BY DEF Forwarded, BytesInv
<1>2. Emit(r, "reply", c, n) /\ log'[r][1].len = n
  BY <1>1, WriteLogLen DEF Relay
<1>3. CASE evreq[r] = "live"
  <2>1. wire'[r] = "complete" /\ After(wire[r], "reply") # "garbled"
    BY <1>1, <1>2, <1>3, EmitSends DEF After, Open
  <2>2. Counts(r, sent[r], 0)
    BY <1>1 DEF Counts
  <2>3. Counts(r, sent'[r], 0 + n)
    BY <1>1, <1>2, <1>3, <2>1, <2>2, EmitCounts DEF Open
  <2> QED
    BY <1>2, <2>1, <2>3
<1>4. CASE evreq[r] = "detached"
  <2>1. evreq'[r] = "dropped" /\ sent'[r] = sent[r]
    BY <1>2, <1>4, EmitOwn, EmitSends DEF Open
  <2> QED
    BY <1>1, <2>1
<1> QED
  BY <1>1, <1>3, <1>4

\* User code counts what it sends.
LEMMA UserCallBytes ==
    ASSUME TypeOK, NEW r \in Request, RequestInv(r), BytesInv(r), UserCall(r)
    PROVE  BytesInv(r)'
<1> SUFFICES ASSUME r \notin misused' PROVE BytesInv(r)'
  BY DEF BytesInv
<1>1. /\ phase[r] \in UserFrame /\ UNCHANGED <<phase, log>>
      /\ r \notin misused
  BY DEF UserCall, SetResponseStatus, SendResponseStart, SendResponseChunk, SendResponseEnd,
         SendFile, Calls, Misuse, logVars
<1>2. /\ wire[r] = "none" => sent[r].len = 0
      /\ phase[r] \in {"handler", "handshake"} =>
            /\ wire[r] = "none" => len[Origin(r)] = 0
            /\ Counts(r, sent[r], len[Origin(r)])
      /\ sent[r].len \in Nat /\ len[Origin(r)] \in Nat
  BY <1>1, ObjectsOf DEF BytesInv, TypeOK
<1>3. log[r] = << >>
  BY <1>1 DEF RequestInv, InHandler, Forwarded, InCallback, UserFrame
<1>4. SUFFICES /\ wire'[r] = "none" => sent'[r].len = 0
               /\ phase[r] \in {"handler", "handshake"} =>
                     /\ wire'[r] = "none" => len'[Origin(r)] = 0
                     /\ Counts(r, sent'[r], len'[Origin(r)])
  BY <1>1, <1>3 DEF BytesInv, UserFrame, Origin
<1>5. CASE \E c \in StatusCodes : SetResponseStatus(r, c)
  BY <1>2, <1>5 DEF SetResponseStatus, wireVars
<1>6. CASE phase[r] = "callback" /\ ~ \E c \in StatusCodes : SetResponseStatus(r, c)
  <2>1. Current(r) = Response(r) /\ status[Response(r)] = "NONE"
    BY <1>1, <1>6 DEF Current, RequestInv, InCallback
  <2>2. r \in misused'
    BY <1>6, <2>1 DEF UserCall, SendResponseStart, SendResponseChunk, SendResponseEnd,
       SendFile, Misuse, Streaming
  <2> QED
    BY <2>2
<1>7. CASE phase[r] # "callback" /\ ~ \E c \in StatusCodes : SetResponseStatus(r, c)
  <2>1. /\ Current(r) = Origin(r) /\ Origin(r) \in Object /\ evreq[r] \in Open
        /\ status[Origin(r)] = "NONE"    => wire[r] = "none"
        /\ status[Origin(r)] = "SENDING" => wire[r] = "open"
        /\ Counts(r, sent[r], len[Origin(r)])
    BY <1>1, <1>2, <1>7, ObjectsOf DEF Current, RequestInv, InHandler, UserFrame, Open
  <2>2. ASSUME NEW c, SendResponseStart(r, c) PROVE Counts(r, sent'[r], len'[Origin(r)])
    <3>1. wire[r] = "none" /\ Emit(r, "start", c, 0) /\ len' = [len EXCEPT ![Origin(r)] = 0]
      BY <2>1, <2>2 DEF SendResponseStart, Sendable
    <3>2. Counts(r, sent[r], 0) /\ After(wire[r], "start") # "garbled"
      BY <1>2, <3>1 DEF Counts, After
    <3>3. Counts(r, sent'[r], 0 + 0)
      BY <2>1, <3>1, <3>2, EmitCounts
    <3> QED
      BY <2>1, <3>1, <3>3 DEF TypeOK
  <2>3. ASSUME SendResponseChunk(r) PROVE Counts(r, sent'[r], len'[Origin(r)])
    <3>1. /\ wire[r] = "open" /\ Emit(r, "chunk", 0, 1)
          /\ len' = [len EXCEPT ![Origin(r)] = len[Origin(r)] + 1]
      BY <2>1, <2>3 DEF SendResponseChunk, Streaming
    <3>2. Counts(r, sent'[r], len[Origin(r)] + 1)
      BY <1>2, <2>1, <3>1, EmitCounts DEF After
    <3> QED
      BY <2>1, <3>1, <3>2 DEF TypeOK
  <2>4. ASSUME SendResponseEnd(r) PROVE Counts(r, sent'[r], len'[Origin(r)])
    <3>1. wire[r] = "open" /\ Emit(r, "end", 0, 0) /\ len' = len
      BY <2>1, <2>4 DEF SendResponseEnd, Streaming
    <3>2. Counts(r, sent'[r], len[Origin(r)] + 0)
      BY <1>2, <2>1, <3>1, EmitCounts DEF After
    <3> QED
      BY <1>2, <2>1, <3>1, <3>2
  <2>5. ASSUME NEW reply \in FileReply(r), SendFile(r, reply[1], reply[2])
        PROVE  Counts(r, sent'[r], len'[Origin(r)])
    <3> DEFINE n == reply[2]
    <3>1. n \in Nat
      BY DEF FileReply
    <3>2. /\ wire[r] = "none" /\ Emit(r, "reply", reply[1], n)
          /\ len' = IF n > 0 THEN [len EXCEPT ![Origin(r)] = n] ELSE len
      BY <2>1, <2>5 DEF SendFile, Misuse
    <3> HIDE DEF n
    <3>3. /\ Counts(r, sent[r], 0) /\ After(wire[r], "reply") # "garbled"
          /\ len[Origin(r)] = 0
      BY <1>2, <1>7, <1>1, <3>2 DEF Counts, After, UserFrame
    <3>4. Counts(r, sent'[r], 0 + n)
      BY <2>1, <3>1, <3>2, <3>3, EmitCounts
    <3>5. len'[Origin(r)] = n
      BY <2>1, <3>1, <3>2, <3>3 DEF TypeOK
    <3> QED
      BY <3>1, <3>4, <3>5
  <2>6. wire'[r] # "none"
    <3>1. ASSUME NEW event, NEW c, NEW n, Emit(r, event, c, n) PROVE wire'[r] # "none"
      BY <2>1, <3>1, EmitSends DEF After
    <3> QED
      BY <1>7, <3>1 DEF UserCall, SendResponseStart, SendResponseChunk, SendResponseEnd, SendFile
  <2> QED
    BY <1>7, <2>2, <2>3, <2>4, <2>5, <2>6 DEF UserCall
<1> QED
  BY <1>5, <1>6, <1>7

\* A request that has just arrived was sent nothing and counted nothing.
LEMMA ReceiveBytes ==
    ASSUME TypeOK, NEW r \in Request, RequestInv(r), BytesInv(r), Receive(r)
    PROVE  BytesInv(r)'
<1>1. /\ phase[r] = "new" /\ wire[r] = "none" /\ evreq[r] = "live" /\ log[r] = << >>
      /\ misused' = misused
      /\ r \notin misused => sent[r].len = 0 /\ len[Origin(r)] = 0
  BY DEF Receive, ReceiveRejected, ReceiveRouted, ReceiveHandshake, ReceiveUpgrade, Arrive,
     RequestInv, Fresh, BytesInv
<1>2. ASSUME NEW c, ReceiveRejected(r, c) PROVE BytesInv(r)'
  <2>1. Conclude(r, "NONE", c, 0, 0)
    BY <1>2 DEF ReceiveRejected
  <2> QED
    BY <1>1, <2>1, ConcludeBytes
<1>3. CASE ReceiveRouted(r) \/ ReceiveHandshake(r)
  BY <1>1, <1>3 DEF ReceiveRouted, ReceiveHandshake, wireVars, logVars, BytesInv, Counts, TypeOK, Origin
<1>4. CASE ReceiveUpgrade(r)
  BY <1>1, <1>4, UpgradeBytes DEF ReceiveUpgrade
<1> QED
  BY <1>2, <1>3, <1>4 DEF Receive

\* Whichever way user code ends, what was counted is what was sent.
LEMMA UserCodeEndsBytes ==
    ASSUME TypeOK, NEW r \in Request, RequestInv(r), BytesInv(r), UserCodeEnds(r)
    PROVE  BytesInv(r)'
<1> DEFINE o == Origin(r)
<1>1. ASSUME phase[r] \in {"handler", "handshake"}
      PROVE  /\ evreq[r] = "live" /\ log[r] = << >> /\ len[o] \in Nat /\ status[o] # "FORWARD"
             /\ r \notin misused =>
                   /\ status[o] = "NONE"    => wire[r] = "none" /\ len[o] = 0
                   /\ status[o] = "SENDING" => wire[r] = "open" /\ Counts(r, sent[r], len[o])
                   /\ status[o] = "SENT"    => wire[r] = "complete" /\ Counts(r, sent[r], len[o])
  BY <1>1, ObjectsOf DEF RequestInv, InHandler, BytesInv, TypeOK
<1>2. ASSUME NEW c, phase[r] \in {"handler", "handshake"}, r \in misused => r \in misused',
             Conclude(r, status[o], c, len[o], 0)
      PROVE  BytesInv(r)'
  <2> DEFINE st == status[o]
             n == len[o]
  <2>1. r \notin misused' =>
              /\ st = "NONE"    => wire[r] = "none" /\ n = 0
              /\ st = "SENDING" => wire[r] = "open" /\ Counts(r, sent[r], n)
              /\ st = "SENT"    => wire[r] = "complete" /\ Counts(r, sent[r], n)
    BY <1>1, <1>2
  <2>2. Conclude(r, st, c, n, 0) /\ evreq[r] = "live" /\ log[r] = << >> /\ n \in Nat
    BY <1>1, <1>2
  <2> HIDE DEF st, n, o
  <2> QED
    BY <1>2, <2>1, <2>2, ConcludeBytes
<1>3. ASSUME NEW c, NEW outcome, phase[r] \in {"handler", "handshake"},
             r \in misused => r \in misused', ForwardRequest(r, c, outcome)
      PROVE  BytesInv(r)'
  <2>1. CASE outcome = "refused"
    BY <1>2, <1>3, <2>1 DEF ForwardRequest
  <2>2. CASE outcome # "refused"
    <3>1. Conclude(r, "FORWARD", c, len[o], 0)
      BY <1>3, <2>2 DEF ForwardRequest
    <3> HIDE DEF o
    <3> QED
      BY <1>1, <1>3, <3>1, ConcludeBytes
  <2> QED
    BY <2>1, <2>2
<1>4. ASSUME HandlerReturnsSent(r) PROVE BytesInv(r)'
  BY <1>2, <1>4 DEF HandlerReturnsSent, Resume
<1>5. ASSUME NEW value, HandlerReturns(r, value) PROVE BytesInv(r)'
  <2> DEFINE c0 == ReplyCode(code[o])
             n == IF Succeeds(c0) /\ value = "body" THEN 1 ELSE len[o]
             c == IF Succeeds(c0) /\ value = "unprintable" THEN 500 ELSE c0
  <2>1. Conclude(r, "NONE", c, n, n) /\ n \in {1, len[o]}
    BY <1>5 DEF HandlerReturns
  <2>2. phase[r] = "handler" /\ status[o] = "NONE" /\ misused' = misused
    BY <1>5 DEF HandlerReturns, Resume, Sendable
  <2>3. n \in Nat /\ (r \notin misused' => wire[r] = "none")
    BY <1>1, <2>1, <2>2
  <2> HIDE DEF n, c, o
  <2> QED
    BY <1>1, <2>1, <2>2, <2>3, ConcludeBytes
<1>6. ASSUME NEW outcome, HandlerReturnsForward(r, outcome) \/ HandlerThrowsForward(r, outcome)
      PROVE  BytesInv(r)'
  BY <1>3, <1>6 DEF HandlerReturnsForward, HandlerThrowsForward, Resume, Misuse
<1>7. ASSUME NEW c, UserCodeThrows(r, c) PROVE BytesInv(r)'
  BY <1>2, <1>7 DEF UserCodeThrows, Resume
<1>8. ASSUME HandshakeRefused(r) PROVE BytesInv(r)'
  BY <1>2, <1>8 DEF HandshakeRefused, Resume
<1>9. ASSUME HandshakeReturns(r) PROVE BytesInv(r)'
  BY <1>1, <1>9, UpgradeBytes DEF HandshakeReturns, Resume, Misuse, Sendable
<1>10. ASSUME CallbackReturns(r) PROVE BytesInv(r)'
  <2>1. /\ phase'[r] = "loop" /\ misused' = misused
        /\ Relay(r, code[Response(r)], ctx[r].body)
        /\ Forwarded(r) /\ ctx[r].state # "none" /\ ctx[r].body \in Nat
    BY <1>10 DEF CallbackReturns, Resume, RequestInv, InCallback, TypeOK, Ctx
  <2> QED
    BY <2>1, RelayBytes
<1> QED
  BY <1>4, <1>5, <1>6, <1>7, <1>8, <1>9, <1>10 DEF UserCodeEnds

\* The end of a forward logs the bytes it relays, or nothing; and libevent sends
\* nothing of its own.
LEMMA UpstreamEndsBytes ==
    ASSUME TypeOK, NEW r \in Request, RequestInv(r), BytesInv(r), UpstreamEnds(r)
    PROVE  BytesInv(r)'
<1>1. /\ phase[r] = "loop" /\ ctx[r].state = "pending" /\ Forwarded(r) /\ misused' = misused
      /\ log[r] = << >>
      /\ r \notin misused => evreq[r] \in {"live", "detached"} /\ wire[r] = "none"
  BY DEF UpstreamEnds, UpstreamFails, UpstreamAnswers, CallbackCalled, ForwardPending,
         InLoop, UserFrame, RequestInv, Forwarded
<1>2. CASE UpstreamFails(r)
  <2>1. Emit(r, "reply", 500, 0) /\ log' = log /\ phase' = phase
    BY <1>2 DEF UpstreamFails
  <2>2. r \notin misused => (wire'[r] = "none" => sent'[r].len = 0)
    BY <1>1, <2>1, EmitSends DEF BytesInv, After
  <2> QED
    BY <1>1, <2>1, <2>2 DEF BytesInv
<1>3. ASSUME NEW c, NEW n \in 0..1, UpstreamAnswers(r, c, n) PROVE BytesInv(r)'
  BY <1>1, <1>3, RelayBytes DEF UpstreamAnswers
<1>4. ASSUME NEW c, NEW n, CallbackCalled(r, c, n) PROVE BytesInv(r)'
  BY <1>1, <1>4 DEF CallbackCalled, wireVars, BytesInv, TypeOK
<1> QED
  BY <1>2, <1>3, <1>4, ResponsesOf DEF UpstreamEnds

\* Every step counts what it sends.
LEMMA StepBytes ==
    ASSUME TypeOK, NEW r \in Request, RequestInv(r), BytesInv(r), Step(r)
    PROVE  BytesInv(r)'
<1>1. Environment(r) => BytesInv(r)'
  BY DEF Environment, ResponseWritten, ClientLeaves, objectVars, logVars, BytesInv, TypeOK, Origin
<1> QED
  BY <1>1, ReceiveBytes, UserCallBytes, UserCodeEndsBytes, UpstreamEndsBytes DEF Step

-----------------------------------------------------------------------------
(* The theorems.                                                           *)

\* Status lines are statuses and counts are what was sent, in every reachable
\* state: with IInv, the invariant is inductive.
THEOREM AnswerInvariant == Spec => []AnswerInv
<1>1. Init => AnswerInv
  BY ObjectsOf DEF Init, AnswerInv, StatusInv, LineInv, UpstreamInv, BytesInv, Counts
<1>2. TypeOK /\ IInv /\ AnswerInv /\ [Next]_vars => AnswerInv'
  <2> SUFFICES ASSUME TypeOK, IInv, AnswerInv, [Next]_vars, NEW q \in Request
               PROVE  StatusInv(q)' /\ BytesInv(q)'
    BY DEF AnswerInv
  <2>1. RequestInv(q) /\ StatusInv(q) /\ BytesInv(q)
    BY DEF IInv, AnswerInv
  <2>2. ASSUME NEW r \in Request, Step(r)
        PROVE  StatusInv(q)' /\ BytesInv(q)'
    <3>1. CASE q # r
      BY <2>1, <2>2, <3>1, OthersSame, OthersKept, KeptKeepsInv
    <3>2. CASE q = r
      BY <2>1, <2>2, <3>2, StepStatus, StepBytes
    <3> QED
      BY <3>1, <3>2
  <2>3. CASE UNCHANGED vars
    BY <2>1, <2>3, KeptKeepsInv DEF vars, Same, KeptOf
  <2> QED
    BY <2>2, <2>3 DEF Next, Quiescent, Step
<1> QED
  BY <1>1, <1>2, TypeCorrect, Invariant, PTL DEF Spec

\* No client is ever sent a status line that is neither an HTTP status nor the one
\* its own request's upstream answered with, whatever path the request takes: the
\* zero response_code starts from shows only when libevent hands it over.
THEOREM StatusLines == Spec => []StatusLineValid
<1>1. AnswerInv => StatusLineValid
  BY DEF AnswerInv, StatusInv, LineInv, Lines, StatusLineValid
<1> QED
  BY <1>1, AnswerInvariant, PTL

\* The access log counts the bytes of body the client was sent, by chunks, files,
\* handlers and forwards alike, unless user code misused the API or the client left;
\* of a reply without a body (HEAD, 204, 304) it may count more.
THEOREM BytesLogged == Spec => []LogCountsBytesSent
<1>1. AnswerInv => LogCountsBytesSent
  BY DEF AnswerInv, BytesInv, Counts, LogCountsBytesSent
<1> QED
  BY <1>1, AnswerInvariant, PTL

-----------------------------------------------------------------------------
(* The server implements ResponseContract, its safety part: a step of a    *)
(* well-behaved application is one of the contract's, or none.             *)

Departed == {"detached", "dropped"}
\* The state of ResponseContract, as RequestLifecycle maps it.
Resp == [r \in Request |->
            CASE phase[r] = "new"      -> "absent"
              [] wire[r] = "open"      -> "begun"
              [] wire[r] = "complete"  -> "complete"
              [] OTHER                 -> "pending"]
Gone == {r \in Request : evreq[r] \in {"detached", "dropped"}}
Recorded == {r \in Request : log[r] # <<>>}

\* What is logged of a well-behaved request is complete, or nobody waits for it.
LEMMA LoggedEnded ==
    ASSUME TypeOK, NEW r \in Request, RequestInv(r), r \notin misused, log[r] # << >>
    PROVE  phase[r] # "new" /\ (wire[r] = "complete" \/ evreq[r] = "dropped")
BY DEF TypeOK, RequestInv, Fresh, InHandler, InCallback, Forwarded, Ended, UserFrame

\* How a step changes what the contract sees of its request: it arrives once, is
\* logged once, and leaves only while it waits, in a step of its own.
StepShape(r) ==
    /\ phase'[r] # "new"
    /\ phase[r] = "new" => wire'[r] # "open"
    /\ log[r] # << >> => log'[r] = log[r]
    /\ \/ evreq'[r] \in Departed <=> evreq[r] \in Departed
       \/ /\ evreq[r] \notin Departed /\ evreq'[r] \in Departed
          /\ wire'[r] = wire[r] /\ log'[r] = log[r]
          /\ phase[r] = "loop" /\ wire[r] \in {"none", "open"}
    /\ wire'[r] # wire[r] => evreq[r] \notin Departed

\* Sending makes no client leave, and changes nothing for one that left.
LEMMA EmitShape ==
    ASSUME TypeOK, NEW r \in Request, NEW event, NEW c, NEW n, Emit(r, event, c, n)
    PROVE  /\ evreq'[r] \in Departed <=> evreq[r] \in Departed
           /\ wire'[r] # wire[r] => evreq[r] \notin Departed
BY DEF Emit, TypeOK, Departed

\* Nor does the end of request_handler, which leaves no response begun that it begins.
LEMMA ConcludeShape ==
    ASSUME TypeOK, NEW r \in Request, NEW st, NEW c, NEW n, NEW body, log[r] = << >>,
           Conclude(r, st, c, n, body)
    PROVE  /\ phase'[r] # "new" /\ (wire[r] = "none" => wire'[r] # "open")
           /\ evreq'[r] \in Departed <=> evreq[r] \in Departed
           /\ wire'[r] # wire[r] => evreq[r] \notin Departed
<1>1. phase'[r] = "loop"
  BY DEF Conclude, TypeOK
<1>2. ASSUME NEW event \in {"reply", "end"}, NEW b, Emit(r, event, c, b)
      PROVE  wire[r] = "none" => wire'[r] # "open"
  BY <1>2, EmitOwn DEF After
<1>3. CASE UNCHANGED wireVars
  BY <1>1, <1>3 DEF wireVars
<1>4. CASE Emit(r, "reply", c, body) \/ Emit(r, "end", c, 0)
  BY <1>1, <1>2, <1>4, EmitShape
<1> QED
  BY <1>3, <1>4 DEF Conclude

\* The upgrade of a WebSocket is such a step.
LEMMA UpgradeShape ==
    ASSUME TypeOK, NEW r \in Request, log[r] = << >>, evreq[r] = "live", Upgrade(r)
    PROVE  StepShape(r)
BY DEF Upgrade, TypeOK, StepShape, Departed, After

\* Every step of a request is.
LEMMA StepIsShaped ==
    ASSUME TypeOK, NEW r \in Request, RequestInv(r), Step(r)
    PROVE  StepShape(r)
<1>1. ASSUME Receive(r) PROVE StepShape(r)
  <2>1. phase[r] = "new" /\ wire[r] = "none" /\ evreq[r] = "live" /\ log[r] = << >>
    BY <1>1 DEF Receive, ReceiveRejected, ReceiveRouted, ReceiveHandshake, ReceiveUpgrade,
       Arrive, RequestInv, Fresh
  <2>2. ASSUME NEW c, ReceiveRejected(r, c) PROVE StepShape(r)
    BY <2>1, <2>2, ConcludeShape DEF ReceiveRejected, StepShape
  <2>3. ReceiveRouted(r) \/ ReceiveHandshake(r) => StepShape(r)
    BY <2>1 DEF ReceiveRouted, ReceiveHandshake, StepShape, wireVars, logVars, TypeOK
  <2>4. ReceiveUpgrade(r) => StepShape(r)
    BY <2>1, UpgradeShape DEF ReceiveUpgrade
  <2> QED
    BY <1>1, <2>2, <2>3, <2>4 DEF Receive
<1>2. ASSUME UserCall(r) PROVE StepShape(r)
  <2>1. phase[r] # "new" /\ phase' = phase /\ log' = log
    BY <1>2 DEF UserCall, SetResponseStatus, SendResponseStart, SendResponseChunk,
       SendResponseEnd, SendFile, Calls, UserFrame, logVars
  <2>2. UNCHANGED wireVars \/ \E event, c, n : Emit(r, event, c, n)
    BY <1>2 DEF UserCall, SetResponseStatus, SendResponseStart, SendResponseChunk,
       SendResponseEnd, SendFile
  <2> QED
    BY <2>1, <2>2, EmitShape DEF StepShape, wireVars
<1>3. ASSUME UserCodeEnds(r) PROVE StepShape(r)
  <2>1. phase[r] # "new" /\ log[r] = << >> /\ (phase[r] # "callback" => evreq[r] = "live")
    BY <1>3 DEF UserCodeEnds, HandlerReturnsSent, HandlerReturns, HandlerReturnsForward,
       HandlerThrowsForward, UserCodeThrows, HandshakeReturns, HandshakeRefused,
       CallbackReturns, Resume, RequestInv, InHandler, InCallback, Forwarded
  <2>2. ASSUME NEW st, NEW c, NEW n, NEW body, Conclude(r, st, c, n, body)
        PROVE  StepShape(r)
    BY <2>1, <2>2, ConcludeShape DEF StepShape
  <2>3. ASSUME NEW c, NEW outcome, ForwardRequest(r, c, outcome) PROVE StepShape(r)
    BY <2>2, <2>3 DEF ForwardRequest
  <2>4. ASSUME NEW outcome, HandlerReturnsForward(r, outcome) \/ HandlerThrowsForward(r, outcome)
        PROVE  StepShape(r)
    BY <2>3, <2>4 DEF HandlerReturnsForward, HandlerThrowsForward
  <2>5. ASSUME NEW value, HandlerReturns(r, value) PROVE StepShape(r)
    BY <2>2, <2>5 DEF HandlerReturns
  <2>6. ASSUME NEW c, UserCodeThrows(r, c) PROVE StepShape(r)
    BY <2>2, <2>6 DEF UserCodeThrows
  <2>7. HandlerReturnsSent(r) \/ HandshakeRefused(r) => StepShape(r)
    BY <2>2 DEF HandlerReturnsSent, HandshakeRefused
  <2>8. HandshakeReturns(r) => StepShape(r)
    BY <2>1, UpgradeShape DEF HandshakeReturns, Resume
  <2>9. CallbackReturns(r) => StepShape(r)
    <3>1. CallbackReturns(r) => phase'[r] = "loop" /\ \E c, n : Emit(r, "reply", c, n)
      BY DEF CallbackReturns, Relay, TypeOK
    <3> QED
      BY <2>1, <3>1, EmitShape DEF StepShape
  <2> QED
    BY <1>3, <2>4, <2>5, <2>6, <2>7, <2>8, <2>9 DEF UserCodeEnds
<1>4. ASSUME UpstreamEnds(r) PROVE StepShape(r)
  <2>1. phase[r] = "loop" /\ log[r] = << >> /\ phase'[r] # "new"
    BY <1>4 DEF UpstreamEnds, UpstreamFails, UpstreamAnswers, CallbackCalled, ForwardPending,
       InLoop, UserFrame, RequestInv, Forwarded, TypeOK
  <2>2. UNCHANGED wireVars \/ \E c, n : Emit(r, "reply", c, n)
    BY <1>4 DEF UpstreamEnds, UpstreamFails, UpstreamAnswers, CallbackCalled, Relay
  <2> QED
    BY <2>1, <2>2, EmitShape DEF StepShape, wireVars
<1>5. ASSUME Environment(r) PROVE StepShape(r)
  BY <1>5 DEF Environment, ResponseWritten, ClientLeaves, RequestInv, Fresh, StepShape,
     Departed, logVars, TypeOK
<1> QED
  BY <1>1, <1>2, <1>3, <1>4, <1>5 DEF Step

\* The contract's state, request by request.
LEMMA RespOf ==
    ASSUME NEW r \in Request, TypeOK
    PROVE  /\ phase[r] = "new" /\ wire[r] = "none"     => Resp[r] = "absent"
           /\ phase[r] # "new" /\ wire[r] = "none"     => Resp[r] = "pending"
           /\ phase[r] # "new" /\ wire[r] = "open"     => Resp[r] = "begun"
           /\ phase[r] # "new" /\ wire[r] = "complete" => Resp[r] = "complete"
           /\ r \in Gone <=> evreq[r] \in Departed
           /\ r \in Recorded <=> log[r] # << >>
<1>1. Resp[r] = CASE phase[r] = "new"      -> "absent"
                  [] wire[r] = "open"      -> "begun"
                  [] wire[r] = "complete"  -> "complete"
                  [] OTHER                 -> "pending"
  BY Zenon DEF Resp
<1> QED
  BY <1>1 DEF Gone, Recorded, Departed

\* What the contract sees in the next state, by the phase and the wire.
LEMMA RespOfNext ==
    ASSUME NEW r \in Request, TypeOK'
    PROVE  /\ phase'[r] = "new" /\ wire'[r] = "none"     => Resp'[r] = "absent"
           /\ phase'[r] # "new" /\ wire'[r] = "none"     => Resp'[r] = "pending"
           /\ phase'[r] # "new" /\ wire'[r] = "open"     => Resp'[r] = "begun"
           /\ phase'[r] # "new" /\ wire'[r] = "complete" => Resp'[r] = "complete"
           /\ r \in Gone' <=> evreq'[r] \in Departed
           /\ r \in Recorded' <=> log'[r] # << >>
<1>1. Resp'[r] = CASE phase'[r] = "new"      -> "absent"
                   [] wire'[r] = "open"      -> "begun"
                   [] wire'[r] = "complete"  -> "complete"
                   [] OTHER                  -> "pending"
  BY Zenon DEF Resp
<1> QED
  BY <1>1 DEF Gone, Recorded, Departed

\* The steps of the contract, on the state it is mapped to.
LEMMA ContractSteps ==
    ASSUME NEW r \in Request,
           \/ /\ Resp[r] = "absent" /\ Resp' = [Resp EXCEPT ![r] = "pending"]
              /\ UNCHANGED <<Gone, Recorded>>
           \/ /\ Resp[r] = "pending" /\ r \notin Gone /\ Resp' = [Resp EXCEPT ![r] = "begun"]
              /\ UNCHANGED <<Gone, Recorded>>
           \/ /\ Resp[r] # "complete" /\ r \notin Gone
              /\ Resp' = [Resp EXCEPT ![r] = "complete"]
              /\ Recorded' \in {Recorded, Recorded \union {r}} /\ UNCHANGED Gone
           \/ /\ Resp[r] \in {"pending", "begun"} /\ Gone' = Gone \union {r}
              /\ UNCHANGED <<Resp, Recorded>>
           \/ /\ Resp[r] = "complete" \/ r \in Gone
              /\ r \notin Recorded /\ Recorded' = Recorded \union {r}
              /\ UNCHANGED <<Resp, Gone>>
    PROVE  Contract!Next
BY Zenon DEF Contract!Next, Contract!Arrive, Contract!Begin, Contract!Complete,
   Contract!Leave, Contract!Record, Resp, Gone, Recorded

\* A step of one request is a step of the contract for it, or changes nothing the
\* contract sees.
LEMMA StepKeepsContract ==
    ASSUME TypeOK, TypeOK', IInv, IInv', misused = {}, misused' = {},
           NEW r \in Request, Step(r)
    PROVE  Contract!Next \/ UNCHANGED <<Resp, Gone, Recorded>>
<1>1. ASSUME NEW q \in Request, q # r
      PROVE  Resp'[q] = Resp[q] /\ (q \in Gone' <=> q \in Gone)
             /\ (q \in Recorded' <=> q \in Recorded)
  <2>1. Same(q)
    BY <1>1, OthersSame
  <2>2. wire[q] # "garbled" /\ (phase[q] = "new" => wire[q] = "none")
        /\ wire[q] \in {"none", "open", "complete", "garbled"}
    BY DEF IInv, RequestInv, Fresh, NotSpoilt, TypeOK
  <2> QED
    BY <2>1, <2>2, RespOf, RespOfNext DEF Same
<1>2. /\ StepShape(r) /\ wire'[r] # "garbled" /\ wire[r] # "garbled"
      /\ phase[r] = "new" => wire[r] = "none" /\ evreq[r] = "live" /\ log[r] = << >>
      /\ log[r] # << >> => wire[r] = "complete" \/ evreq[r] = "dropped"
      /\ log'[r] # << >> => wire'[r] = "complete" \/ evreq'[r] = "dropped"
      /\ wire[r] \in {"none", "open", "complete"} /\ wire'[r] \in {"none", "open", "complete"}
  <2>1. RequestInv(r) /\ RequestInv(r)'
    BY DEF IInv
  <2>2. log'[r] # << >> => wire'[r] = "complete" \/ evreq'[r] = "dropped"
    BY <2>1 DEF TypeOK, RequestInv, Fresh, InHandler, InCallback, Forwarded, Ended, UserFrame
  <2> QED
    BY <2>1, <2>2, LoggedEnded, StepIsShaped DEF RequestInv, Fresh, NotSpoilt, TypeOK
<1>3. /\ Resp = [q \in Request |-> Resp[q]] /\ Resp' = [q \in Request |-> Resp'[q]]
      /\ Gone \subseteq Request /\ Gone' \subseteq Request
      /\ Recorded \subseteq Request /\ Recorded' \subseteq Request
  BY DEF Resp, Gone, Recorded
<1>4. wire'[r] # wire[r] =>
         /\ wire[r] = "none" \/ (wire[r] = "open" /\ wire'[r] = "complete")
         /\ evreq[r] \notin Departed
  <2>1. ASSUME NEW event, NEW c, NEW n, Emit(r, event, c, n), wire'[r] # wire[r]
        PROVE  wire[r] = "none" \/ (wire[r] = "open" /\ wire'[r] = "complete")
    BY <1>2, <2>1, EmitOwn DEF After, TypeOK
  <2>2. Upgrade(r) /\ wire'[r] # wire[r] => wire[r] = "none"
    BY <1>2 DEF Upgrade, After, TypeOK
  <2> QED
    BY <1>2, <2>1, <2>2, WireChanges DEF StepShape
<1>5. /\ Gone' = IF evreq'[r] \in Departed THEN Gone \union {r} ELSE Gone \ {r}
      /\ Recorded' = IF log'[r] # << >> THEN Recorded \union {r} ELSE Recorded \ {r}
  <2>1. /\ r \in Gone' <=> evreq'[r] \in Departed
        /\ r \in Recorded' <=> log'[r] # << >>
    BY RespOfNext
  <2> QED
    BY <1>1, <1>3, <2>1
<1>6. ASSUME NEW v, Resp'[r] = v PROVE Resp' = [Resp EXCEPT ![r] = v]
  BY <1>1, <1>3, <1>6
<1>7. Resp'[r] = Resp[r] => Resp' = Resp
  BY <1>1, <1>3
<1>8. /\ r \in Gone <=> evreq[r] \in Departed
      /\ r \in Recorded <=> log[r] # << >>
  BY RespOf
<1>9. CASE phase[r] = "new" /\ wire'[r] = wire[r]
  <2>1. Resp[r] = "absent" /\ Resp'[r] = "pending"
    BY <1>2, <1>9, RespOf, RespOfNext DEF StepShape
  <2>2. Gone' = Gone /\ Recorded' = Recorded
    BY <1>2, <1>3, <1>5, <1>8, <1>9 DEF StepShape, Departed
  <2> QED
    BY <1>6, <2>1, <2>2, ContractSteps
<1>10. CASE wire'[r] # wire[r] /\ wire'[r] = "open"
  <2>1. Resp[r] = "pending" /\ Resp'[r] = "begun"
    BY <1>2, <1>4, <1>10, RespOf, RespOfNext DEF StepShape
  <2>2. Gone' = Gone /\ Recorded' = Recorded /\ r \notin Gone
    BY <1>2, <1>3, <1>4, <1>5, <1>8, <1>10 DEF StepShape, Departed
  <2> QED
    BY <1>6, <2>1, <2>2, ContractSteps
<1>11. CASE wire'[r] # wire[r] /\ wire'[r] = "complete"
  <2>1. Resp[r] # "complete" /\ Resp'[r] = "complete"
    BY <1>2, <1>4, <1>11, RespOf, RespOfNext DEF StepShape
  <2>2. /\ Gone' = Gone /\ r \notin Gone
        /\ Recorded' \in {Recorded, Recorded \union {r}}
    BY <1>2, <1>3, <1>4, <1>5, <1>8, <1>11 DEF StepShape, Departed
  <2> QED
    BY <1>6, <2>1, <2>2, ContractSteps
<1>12. CASE wire'[r] = wire[r] /\ phase[r] # "new"
  <2>1. Resp'[r] = Resp[r] /\ (wire[r] = "complete" => Resp[r] = "complete")
        /\ (wire[r] # "complete" => Resp[r] \in {"pending", "begun"})
    BY <1>2, <1>12, RespOf, RespOfNext DEF StepShape
  <2>2. CASE evreq'[r] \in Departed <=> evreq[r] \in Departed
    <3>1. Gone' = Gone
      BY <1>3, <1>5, <1>8, <2>2
    <3>2. \/ Recorded' = Recorded
          \/ /\ r \notin Recorded /\ Recorded' = Recorded \union {r}
             /\ Resp[r] = "complete" \/ r \in Gone
      BY <1>2, <1>3, <1>5, <1>8, <1>12, <2>1, <2>2 DEF StepShape, Departed
    <3> QED
      BY <1>7, <2>1, <3>1, <3>2, ContractSteps
  <2>3. CASE ~(evreq'[r] \in Departed <=> evreq[r] \in Departed)
    <3>1. Gone' = Gone \union {r} /\ Recorded' = Recorded /\ wire[r] # "complete"
      BY <1>2, <1>3, <1>5, <1>8, <2>3 DEF StepShape
    <3> QED
      BY <1>7, <2>1, <3>1, ContractSteps
  <2> QED
    BY <2>2, <2>3
<1> QED
  BY <1>2, <1>4, <1>9, <1>10, <1>11, <1>12

\* Whatever requests, handlers, forwards and departures do, well-behaved
\* applications get what ResponseContract allows and nothing else: a response is
\* begun at most once, completed once, recorded once and only when it has ended.
\* (That it is completed at all is liveness, for TLC.)
THEOREM ContractKept == WellBehavedSpec => Contract!Init /\ [][Contract!Next]_(Contract!vars)
<1>1. Init => Contract!Init
  <2> SUFFICES ASSUME Init PROVE Contract!Init
    OBVIOUS
  <2>1. Resp = [r \in Request |-> "absent"]
    BY Zenon DEF Init, Resp
  <2>2. Gone = {} /\ Recorded = {}
    BY DEF Init, Gone, Recorded
  <2> QED
    BY <2>1, <2>2, Zenon DEF Contract!Init, Resp, Gone, Recorded
<1>2. TypeOK /\ TypeOK' /\ IInv /\ IInv' /\ misused = {} /\ [Next /\ misused' = {}]_vars
         => [Contract!Next]_(Contract!vars)
  <2> SUFFICES ASSUME TypeOK, TypeOK', IInv, IInv', misused = {}, [Next /\ misused' = {}]_vars
               PROVE  Contract!Next \/ UNCHANGED <<Resp, Gone, Recorded>>
    BY Zenon DEF Contract!vars, Resp, Gone, Recorded
  <2>1. ASSUME NEW r \in Request, Step(r)
        PROVE  Contract!Next \/ UNCHANGED <<Resp, Gone, Recorded>>
    BY <2>1, StepKeepsContract DEF vars
  <2>2. ASSUME UNCHANGED vars PROVE UNCHANGED <<Resp, Gone, Recorded>>
    <3>1. phase' = phase /\ wire' = wire /\ evreq' = evreq /\ log' = log
      BY <2>2 DEF vars
    <3>2. ASSUME NEW q \in Request PROVE Resp'[q] = Resp[q]
      <4>1. wire[q] \in {"none", "open", "complete"} /\ (phase[q] = "new" => wire[q] = "none")
        BY DEF IInv, RequestInv, Fresh, NotSpoilt, TypeOK
      <4> QED
        BY <3>1, <4>1, RespOf, RespOfNext
    <3>3. Resp = [q \in Request |-> Resp[q]] /\ Resp' = [q \in Request |-> Resp'[q]]
      BY DEF Resp
    <3>4. Resp' = Resp
      BY <3>2, <3>3
    <3> QED
      BY <3>1, <3>4 DEF Gone, Recorded
  <2> QED
    BY <2>1, <2>2 DEF Next, Quiescent, Step
<1>3. Init => misused = {}
  BY DEF Init
<1>4. misused = {} /\ [Next /\ misused' = {}]_vars => (misused = {})'
  BY DEF vars
<1>5. [Next /\ misused' = {}]_vars => [Next]_vars
  OBVIOUS
<1> QED
  BY <1>1, <1>2, <1>3, <1>4, <1>5, TypeCorrect, Invariant, PTL DEF Spec, WellBehavedSpec
=============================================================================
