--------------------------- MODULE Dispatch_proofs ---------------------------
(***************************************************************************)
(* Proofs about Dispatch for every set of fields, every capacity of the    *)
(* capture and any number of requests, library calls and events: the lines *)
(* are well framed, each answer is exact and each event intact.            *)
(***************************************************************************)
EXTENDS Dispatch, SequenceTheorems, TLAPS

(* Every token the device writes is a token, and only the sentinel is one. *)
Plain == {token \in Token : token # Sentinel}

LEMMA PlainTokens ==
    ASSUME NEW n \in Nat
    PROVE  /\ Cmd(n) \in Plain /\ Event(n) \in Plain /\ Field(n) \in Plain
           /\ Log \in Plain /\ Ready \in Plain /\ Ret \in Plain
           /\ Error \in Plain /\ Overflow \in Plain
           /\ Sentinel \in Token
<1>1. Sentinel \in Token
  BY DEF Sentinel, Tok, Token
<1>2. Cmd(n) \in Token /\ Event(n) \in Token /\ Field(n) \in Token
  BY DEF Cmd, Event, Field, Tok, Token
<1>3. Log \in Token /\ Ready \in Token /\ Ret \in Token /\ Error \in Token
      /\ Overflow \in Token
  BY DEF Log, Ready, Ret, Error, Overflow, Tok, Token
<1>4. Cmd(n) # Sentinel /\ Event(n) # Sentinel /\ Field(n) # Sentinel
  BY DEF Cmd, Event, Field, Sentinel, Tok
<1>5. Log # Sentinel /\ Ready # Sentinel /\ Ret # Sentinel /\ Error # Sentinel
      /\ Overflow # Sentinel
  BY DEF Log, Ready, Ret, Error, Overflow, Sentinel, Tok
<1> QED
  BY <1>1, <1>2, <1>3, <1>4, <1>5 DEF Plain

(* A line starts framed: with the sentinel, or with it and the "cmd".      *)
LEMMA FramedStart ==
    ASSUME NEW n \in Nat
    PROVE  /\ <<>> \o <<Sentinel>> \in Seq(Token) /\ Framed(<<>> \o <<Sentinel>>)
           /\ <<>> \o <<Sentinel, Cmd(n)>> \in Seq(Token)
           /\ Framed(<<>> \o <<Sentinel, Cmd(n)>>)
<1> DEFINE one == <<Sentinel>>
           two == <<Sentinel, Cmd(n)>>
<1>1. Sentinel \in Token /\ Cmd(n) \in Token /\ Cmd(n) # Sentinel
  BY PlainTokens DEF Plain
<1>2. one \in Seq(Token) /\ two \in Seq(Token)
  BY <1>1
<1>3. <<>> \o one = one /\ <<>> \o two = two
  BY <1>2, ConcatEmptySeq
<1>4. Framed(one)
  BY DEF Framed
<1>5. Framed(two)
  BY <1>1 DEF Framed
<1> QED
  BY <1>2, <1>3, <1>4, <1>5

(* Plain tokens more do not change that.                                   *)
LEMMA FramedConcat ==
    ASSUME NEW line \in Seq(Token), Framed(line), NEW rest \in Seq(Plain)
    PROVE  line \o rest \in Seq(Token) /\ Framed(line \o rest)
<1> DEFINE longer == line \o rest
<1>1. rest \in Seq(Token)
  BY SeqMonotonic DEF Plain
<1>2. /\ longer \in Seq(Token)
      /\ Len(longer) = Len(line) + Len(rest)
      /\ \A i \in 1 .. Len(longer) :
             longer[i] = IF i <= Len(line) THEN line[i] ELSE rest[i - Len(line)]
  BY <1>1, ConcatProperties
<1>3. Len(line) \in Nat \ {0} /\ DOMAIN line = 1 .. Len(line) /\ Len(rest) \in Nat
  BY LenProperties, EmptySeq DEF Framed
<1>4. DOMAIN longer = 1 .. Len(line) + Len(rest)
  BY <1>2, LenProperties
<1>5. \A i \in 1 .. Len(rest) : rest[i] # Sentinel
  BY ElementOfSeq DEF Plain
<1>6. ASSUME NEW j \in DOMAIN longer PROVE longer[j] = Sentinel <=> j = 1
  <2>1. CASE j <= Len(line)
    BY <2>1, <1>2, <1>3, <1>4 DEF Framed
  <2>2. CASE j > Len(line)
    <3>1. longer[j] = rest[j - Len(line)] /\ j - Len(line) \in 1 .. Len(rest) /\ j # 1
      BY <2>2, <1>2, <1>3, <1>4
    <3> QED
      BY <3>1, <1>5
  <2> QED
    BY <2>1, <2>2, <1>3, <1>4
<1>7. longer # <<>>
  BY <1>2, <1>3
<1> QED
  BY <1>2, <1>6, <1>7 DEF Framed

LEMMA FramedAppend ==
    ASSUME NEW line \in Seq(Token), Framed(line), NEW token \in Plain
    PROVE  Append(line, token) \in Seq(Token) /\ Framed(Append(line, token))
<1>1. token \in Token /\ <<token>> \in Seq(Plain)
  BY DEF Plain
<1>2. Append(line, token) = line \o <<token>>
  BY <1>1, AppendIsConcat
<1> QED
  BY <1>1, <1>2, FramedConcat

(* What rig_io_resp_begin() replays is plain.                              *)
LEMMA ReplayPlain ==
    ASSUME NEW c \in Capture
    PROVE  Replay(c) \in Seq(Plain)
<1>1. c.fields \in Seq(Fields) /\ Fields \subseteq Nat
  BY FieldsAssumption DEF Capture
<1>2. FieldTokens(c.fields) \in Seq(Plain)
  <2>1. /\ Len(c.fields) \in Nat
        /\ DOMAIN c.fields = 1 .. Len(c.fields)
        /\ \A k \in 1 .. Len(c.fields) : c.fields[k] \in Nat
    BY <1>1, LenProperties, ElementOfSeq
  <2>2. \A k \in 1 .. Len(c.fields) : Field(c.fields[k]) \in Plain
    BY <2>1, PlainTokens
  <2>3. FieldTokens(c.fields) = [k \in 1 .. Len(c.fields) |-> Field(c.fields[k])]
    BY <2>1 DEF FieldTokens
  <2> QED
    BY <2>1, <2>2, <2>3, IsASeq
<1>3. <<Overflow>> \in Seq(Plain) /\ <<>> \in Seq(Plain)
  BY 0 \in Nat, PlainTokens, EmptySeq
<1> QED
  BY <1>2, <1>3 DEF Replay

-----------------------------------------------------------------------------
(* Every call leaves the capture within its array and its arena.           *)
CaptureOK(c) == /\ c \in Capture
                /\ Len(c.fields) <= FieldsMax
                /\ c.bytes <= ArenaCap

LEMMA CaptureReset ==
    /\ CaptureOK(NoCapture)
    /\ \A c : CaptureOK(ExtraReset(c)) /\ CaptureOK(ExtraBegin(c))
<1>1. <<>> \in Seq(Fields) /\ Len(<<>>) = 0
  BY EmptySeq
<1>2. 0 \in Nat /\ 0 <= FieldsMax /\ 0 <= ArenaCap
  BY BoundsAssumption
<1>3. CaptureOK(NoCapture)
  BY <1>1, <1>2 DEF CaptureOK, Capture, NoCapture
<1>4. ASSUME NEW c PROVE CaptureOK(ExtraReset(c))
  BY <1>3 DEF ExtraReset
<1>5. ASSUME NEW c PROVE CaptureOK(ExtraBegin(c))
  <2>1. NoCapture \in Capture /\ Len(NoCapture.fields) <= FieldsMax /\ NoCapture.bytes <= ArenaCap
    BY <1>3 DEF CaptureOK
  <2> QED
    BY <2>1 DEF CaptureOK, Capture, ExtraBegin
<1> QED
  BY <1>3, <1>4, <1>5

LEMMA CaptureKept ==
    ASSUME NEW c, CaptureOK(c)
    PROVE  /\ CaptureOK(ExtraEnd(c)) /\ CaptureOK(Suspended(c))
           /\ CaptureOK(Rearmed(c)) /\ CaptureOK(Replayed(c))
<1>1. c \in Capture /\ Len(c.fields) <= FieldsMax /\ c.bytes <= ArenaCap
  BY DEF CaptureOK
<1>2. CaptureOK(ExtraEnd(c)) /\ CaptureOK(Suspended(c))
  BY <1>1 DEF CaptureOK, Capture, ExtraEnd, Suspended
<1>3. CaptureOK(Rearmed(c))
  BY <1>1 DEF CaptureOK, Capture, Rearmed
<1>4. CASE c.used
  <2>1. <<>> \in Seq(Fields) /\ Len(<<>>) = 0 /\ 0 <= FieldsMax
    BY EmptySeq, BoundsAssumption
  <2>2. Replayed(c) = [c EXCEPT !.fields = <<>>, !.used = FALSE]
    BY <1>4 DEF Replayed
  <2>3. Replayed(c) \in Capture /\ Replayed(c).fields = <<>> /\ Replayed(c).bytes = c.bytes
    BY <1>1, <2>1, <2>2 DEF Capture
  <2>4. CaptureOK(Replayed(c))
    BY <1>1, <2>1, <2>3 DEF CaptureOK
  <2> QED
    BY <1>2, <1>3, <2>4
<1>5. CASE ~c.used
  BY <1>1, <1>2, <1>3, <1>5 DEF Replayed, CaptureOK
<1> QED
  BY <1>4, <1>5

LEMMA CaptureStored ==
    ASSUME NEW c, CaptureOK(c), NEW f \in Fields
    PROVE  /\ CaptureOK(Stored(c, f))
           /\ Stored(c, f).active = c.active
           /\ Stored(c, f).inBody = c.inBody
<1> DEFINE nameEnd  == c.bytes + NameBytes[f]
           valueEnd == nameEnd + ValueBytes[f]
           full     == Len(c.fields) >= FieldsMax \/ nameEnd > ArenaCap
<1>1. c.bytes \in Nat /\ NameBytes[f] \in Nat /\ ValueBytes[f] \in Nat
  BY FieldsAssumption DEF CaptureOK, Capture
<1>2. c.fields \in Seq(Fields) /\ Len(c.fields) \in Nat
  BY LenProperties DEF CaptureOK, Capture
<1>3. CASE c.truncated
  <2>1. Stored(c, f) = c
    BY <1>3 DEF Stored
  <2> QED
    BY <2>1
<1>4. CASE ~c.truncated /\ full
  <2>1. Stored(c, f) = [c EXCEPT !.truncated = TRUE]
    BY <1>4 DEF Stored
  <2> QED
    BY <2>1 DEF CaptureOK, Capture
<1>5. CASE ~c.truncated /\ ~full /\ valueEnd > ArenaCap
  <2>1. Stored(c, f) = [c EXCEPT !.truncated = TRUE, !.bytes = nameEnd]
    BY <1>5 DEF Stored
  <2>2. nameEnd \in Nat /\ nameEnd <= ArenaCap
    BY <1>1, <1>5, BoundsAssumption
  <2> QED
    BY <2>1, <2>2 DEF CaptureOK, Capture
<1>6. CASE ~c.truncated /\ ~full /\ ~(valueEnd > ArenaCap)
  <2>1. Stored(c, f) = [c EXCEPT !.fields = Append(@, f), !.bytes = valueEnd]
    BY <1>6 DEF Stored
  <2>2. valueEnd \in Nat /\ valueEnd <= ArenaCap
    BY <1>1, <1>6, BoundsAssumption
  <2>3. /\ Append(c.fields, f) \in Seq(Fields)
        /\ Len(Append(c.fields, f)) = Len(c.fields) + 1
    BY <1>2, AppendProperties
  <2>4. Len(c.fields) + 1 <= FieldsMax
    BY <1>2, <1>6, BoundsAssumption
  <2> QED
    BY <2>1, <2>2, <2>3, <2>4 DEF CaptureOK, Capture
<1> QED
  BY <1>3, <1>4, <1>5, <1>6

-----------------------------------------------------------------------------
(* Type correctness, in three parts: what is written, what is remembered,  *)
(* and where the program is.                                               *)
OutputOK == CaptureOK(cap) /\ cur \in Seq(Token) /\ lines \in Seq(Seq(Token))

RequestsOK == reqs \in Seq(Request) /\ Len(reqs) <= MaxReqs

Events == [req : 0 .. MaxReqs, pairs : Seq(Fields)]

EventsOK == evs \in Seq(Events) /\ ev \in 0 .. Len(evs)

ControlOK == /\ cmdActive \in 0 .. MaxReqs
             /\ calls \in 0 .. MaxCalls
             /\ pc \in {"boot", "readyLine", "run", "flushLine", "body", "eventLine",
                        "logLine", "lastLine", "reset"}

LEMMA TypeParts ==
    /\ TypeOK <=> OutputOK /\ RequestsOK /\ EventsOK /\ ControlOK
    /\ TypeOK' <=> OutputOK' /\ RequestsOK' /\ EventsOK' /\ ControlOK'
BY DEF TypeOK, OutputOK, CaptureOK, RequestsOK, EventsOK, Events, ControlOK

LEMMA OpenLineType ==
    ASSUME OutputOK, NEW c, CaptureOK(c), NEW first \in Seq(Plain), OpenLine(c, first)
    PROVE  OutputOK'
<1>1. first \in Seq(Token) /\ <<Sentinel>> \in Seq(Token)
  BY 0 \in Nat, PlainTokens, SeqMonotonic DEF Plain
<1>2. cur \o <<Sentinel>> \in Seq(Token)
  BY <1>1, ConcatProperties DEF OutputOK
<1>3. (cur \o <<Sentinel>>) \o first \in Seq(Token)
  BY <1>1, <1>2, ConcatProperties
<1>4. CaptureOK(cap')
  BY CaptureKept DEF OpenLine
<1> QED
  BY <1>3, <1>4 DEF OutputOK, OpenLine, CaptureOK

LEMMA OpenResponseType ==
    ASSUME OutputOK, NEW c, CaptureOK(c), NEW n \in Nat, OpenResponse(c, n)
    PROVE  OutputOK'
<1>1. Replay(c) \in Seq(Plain) /\ <<Ret>> \in Seq(Plain)
  BY PlainTokens, ReplayPlain DEF CaptureOK
<1>2. /\ Replay(c) \in Seq(Token) /\ <<Ret>> \in Seq(Token)
      /\ <<Sentinel, Cmd(n)>> \in Seq(Token)
  <2>1. Plain \subseteq Token
    BY DEF Plain
  <2>2. Replay(c) \in Seq(Token) /\ <<Ret>> \in Seq(Token)
    BY <1>1, <2>1, SeqMonotonic
  <2>3. <<Sentinel, Cmd(n)>> \in Seq(Token)
    BY PlainTokens, <2>1
  <2> QED
    BY <2>2, <2>3
<1>3. cur \o <<Sentinel, Cmd(n)>> \in Seq(Token)
  BY <1>2, ConcatProperties DEF OutputOK
<1>4. (cur \o <<Sentinel, Cmd(n)>>) \o Replay(c) \in Seq(Token)
  BY <1>2, <1>3, ConcatProperties
<1>5. ((cur \o <<Sentinel, Cmd(n)>>) \o Replay(c)) \o <<Ret>> \in Seq(Token)
  BY <1>2, <1>4, ConcatProperties
<1>6. CaptureOK(Suspended(c))
  BY CaptureKept
<1>7. CaptureOK(cap')
  BY <1>6, CaptureKept DEF OpenResponse
<1> QED
  BY <1>5, <1>7 DEF OutputOK, OpenResponse, CaptureOK

LEMMA EndLineType ==
    ASSUME OutputOK, EndLine
    PROVE  OutputOK'
<1>1. CaptureOK(cap')
  BY CaptureKept DEF EndLine, OutputOK
<1>2. Append(lines, cur) \in Seq(Seq(Token)) /\ <<>> \in Seq(Token)
  BY AppendProperties, EmptySeq DEF OutputOK
<1> QED
  BY <1>1, <1>2 DEF OutputOK, EndLine, CaptureOK

LEMMA EmitType ==
    ASSUME OutputOK, NEW f \in Fields, Emit(f)
    PROVE  OutputOK' /\ cap'.inBody = cap.inBody /\ cap'.active = cap.active
<1>1. CASE cap.active
  <2>1. cap' = Stored(cap, f) /\ cur' = cur /\ lines' = lines
    BY <1>1 DEF Emit
  <2>2. CaptureOK(cap') /\ cap'.inBody = cap.inBody /\ cap'.active = cap.active
    BY <2>1, CaptureStored DEF OutputOK
  <2> QED
    BY <2>1, <2>2 DEF OutputOK, CaptureOK
<1>2. CASE ~cap.active
  <2>1. cap' = cap /\ cur' = Append(cur, Field(f)) /\ lines' = lines
    BY <1>2 DEF Emit
  <2>2. Field(f) \in Token
    BY FieldsAssumption, PlainTokens DEF Plain
  <2>3. cur' \in Seq(Token)
    BY <2>1, <2>2, AppendProperties DEF OutputOK
  <2> QED
    BY <2>1, <2>3 DEF OutputOK, CaptureOK
<1> QED
  BY <1>1, <1>2

LEMMA TakeType ==
    ASSUME RequestsOK, NEW kind \in Kinds, Take(kind)
    PROVE  RequestsOK' /\ This + 1 \in 0 .. MaxReqs /\ This + 1 \in Nat
<1> DEFINE r == [kind |-> kind, asked |-> <<>>, need |-> 0, failed |-> FALSE]
<1>1. r \in Request
  BY EmptySeq DEF Request
<1>2. reqs' = Append(reqs, r) /\ Len(reqs) < MaxReqs
  BY DEF Take, This
<1>3. reqs' \in Seq(Request) /\ Len(reqs') = Len(reqs) + 1 /\ Len(reqs) \in Nat
  BY <1>1, <1>2, AppendProperties, LenProperties DEF RequestsOK
<1> QED
  BY <1>2, <1>3, BoundsAssumption DEF RequestsOK, This

LEMMA NewEventType ==
    ASSUME EventsOK, NEW req \in 0 .. MaxReqs, NewEvent(req)
    PROVE  evs' \in Seq(Events) /\ Len(evs') \in Nat
<1> DEFINE e == [req |-> req, pairs |-> <<>>]
<1>1. e \in Events
  BY EmptySeq DEF Events
<1> QED
  BY <1>1, AppendProperties, LenProperties DEF NewEvent, EventsOK

LEMMA AddPairType ==
    ASSUME EventsOK, NEW f \in Fields, AddPair(ev, f), UNCHANGED ev
    PROVE  EventsOK'
<1>1. /\ Len(evs) \in Nat
      /\ DOMAIN evs = 1 .. Len(evs)
      /\ \A k \in 1 .. Len(evs) : evs[k] \in Events
  BY LenProperties, ElementOfSeq DEF EventsOK
<1> DEFINE G(k) == IF k = ev THEN [evs[k] EXCEPT !.pairs = Append(@, f)] ELSE evs[k]
<1>2. evs' = [k \in 1 .. Len(evs) |-> G(k)]
  BY <1>1 DEF AddPair
<1>3. ASSUME NEW k \in 1 .. Len(evs) PROVE G(k) \in Events
  <2>1. evs[k] \in Events /\ Append(evs[k].pairs, f) \in Seq(Fields)
    BY <1>1, AppendProperties DEF Events
  <2> QED
    BY <2>1 DEF Events
<1> HIDE DEF G
<1>4. evs' \in Seq(Events)
  BY <1>1, <1>2, <1>3, IsASeq
<1>5. Len(evs') = Len(evs)
  BY <1>1, <1>2, <1>4, LenProperties
<1> QED
  BY <1>4, <1>5 DEF EventsOK

(* The first member of a line, or its error, is plain.                     *)
LEMMA Firsts ==
    ASSUME NEW n \in Nat
    PROVE  /\ <<Ready>> \in Seq(Plain) /\ <<Log>> \in Seq(Plain)
           /\ <<Event(n)>> \in Seq(Plain) /\ <<Cmd(n), Error>> \in Seq(Plain)
BY PlainTokens

LEMMA TypeInitial == Init => TypeOK
<1> SUFFICES ASSUME Init PROVE TypeOK
  OBVIOUS
<1>1. OutputOK
  BY CaptureReset, EmptySeq DEF Init, OutputOK
<1>2. RequestsOK /\ EventsOK
  BY BoundsAssumption, EmptySeq DEF Init, RequestsOK, EventsOK
<1>3. ControlOK
  BY BoundsAssumption DEF Init, ControlOK
<1> QED
  BY <1>1, <1>2, <1>3, TypeParts

(* A pair of an event, flushed or of a body.                               *)
LEMMA TypePair ==
    ASSUME TypeOK, NEW f \in Fields, Pair(f)
    PROVE  TypeOK'
<1> USE TypeParts
<1>1. OutputOK'
  BY EmitType DEF Pair
<1>2. EventsOK'
  BY AddPairType DEF Pair
<1>3. calls' \in 0 .. MaxCalls
  BY BoundsAssumption DEF Pair, Call, ControlOK
<1> QED
  BY <1>1, <1>2, <1>3 DEF Pair, RequestsOK, ControlOK

LEMMA FlushedPair ==
    ASSUME FlushDropped \/ \E f \in Fields : FlushPair(f)
    PROVE  pc = "flushLine" /\ \E f \in Fields : Pair(f)
BY FieldsAssumption DEF FlushDropped, FlushPair

(* Where a line is opened on behalf of the pump or of a body.              *)
LEMMA TypePump == TypeOK /\ (Announce \/ Flush \/ SkipBlank) => TypeOK'
<1> SUFFICES ASSUME TypeOK, Announce \/ Flush \/ SkipBlank PROVE TypeOK'
  OBVIOUS
<1> USE TypeParts
<1>1. CASE Announce
  <2>1. OutputOK'
    BY <1>1, 0 \in Nat, Firsts, OpenLineType DEF Announce, OutputOK
  <2> QED
    BY <1>1, <2>1 DEF Announce, RequestsOK, EventsOK, ControlOK
<1>2. CASE FlushEvent
  <2>1. evs' \in Seq(Events) /\ Len(evs') \in Nat /\ ev' = Len(evs')
    BY <1>2, NewEventType, BoundsAssumption DEF FlushEvent
  <2>2. OutputOK'
    BY <1>2, <2>1, Firsts, OpenLineType DEF FlushEvent, OutputOK
  <2> QED
    BY <1>2, <2>1, <2>2, BoundsAssumption DEF FlushEvent, RequestsOK, EventsOK, ControlOK
<1>3. CASE SkipBlank
  <2>1. RequestsOK'
    BY <1>3, TakeType DEF SkipBlank, Kinds
  <2> QED
    BY <1>3, <2>1 DEF SkipBlank, OutputOK, CaptureOK, EventsOK, ControlOK
<1>4. CASE FlushDropped \/ \E f \in Fields : FlushPair(f)
  BY <1>4, FlushedPair, TypePair
<1> QED
  BY <1>1, <1>2, <1>3, <1>4 DEF Flush

LEMMA TypeRequest ==
    TypeOK /\ (RefuseLine \/ RefuseCommand \/ RunBuiltin \/ StartBody) => TypeOK'
<1> SUFFICES ASSUME TypeOK, RefuseLine \/ RefuseCommand \/ RunBuiltin \/ StartBody
             PROVE  TypeOK'
  OBVIOUS
<1> USE TypeParts
<1>1. /\ RequestsOK' /\ This + 1 \in 0 .. MaxReqs /\ This + 1 \in Nat
  <2>1. PICK kind \in Kinds : Take(kind)
    BY DEF RefuseLine, RefuseCommand, RunBuiltin, StartBody, Kinds
  <2> QED
    BY <2>1, TakeType
<1>2. CASE RefuseLine
  <2>1. OutputOK'
    BY <1>1, <1>2, Firsts, OpenLineType DEF RefuseLine, OutputOK
  <2> QED
    BY <1>1, <1>2, <2>1 DEF RefuseLine, EventsOK, ControlOK
<1>3. CASE RefuseCommand
  <2>1. OutputOK'
    BY <1>1, <1>3, Firsts, OpenLineType, CaptureReset DEF RefuseCommand
  <2> QED
    BY <1>1, <1>3, <2>1 DEF RefuseCommand, EventsOK, ControlOK
<1>4. CASE RunBuiltin
  <2>1. OutputOK'
    BY <1>1, <1>4, OpenResponseType, CaptureReset DEF RunBuiltin
  <2> QED
    BY <1>1, <1>4, <2>1 DEF RunBuiltin, EventsOK, ControlOK
<1>5. CASE StartBody
  <2>1. CaptureOK(cap')
    BY <1>5, CaptureReset DEF StartBody
  <2>2. OutputOK'
    BY <1>5, <2>1 DEF StartBody, OutputOK, CaptureOK
  <2>3. ControlOK'
    BY <1>1, <1>5, BoundsAssumption DEF StartBody, ControlOK
  <2> QED
    BY <1>1, <1>5, <2>2, <2>3 DEF StartBody, EventsOK
<1> QED
  BY <1>2, <1>3, <1>4, <1>5

LEMMA TypeBody == TypeOK /\ Body => TypeOK'
<1> SUFFICES ASSUME TypeOK, Body PROVE TypeOK'
  OBVIOUS
<1> USE TypeParts
<1>1. /\ This \in 0 .. MaxReqs /\ This \in Nat
      /\ DOMAIN reqs = 1 .. Len(reqs)
      /\ \A k \in 1 .. Len(reqs) : reqs[k] \in Request
  BY LenProperties, ElementOfSeq, BoundsAssumption DEF RequestsOK, This
<1>2. Call => calls' \in 0 .. MaxCalls
  BY BoundsAssumption DEF Call, ControlOK
<1>3. ASSUME NEW f \in Fields, BodyEmit(f) PROVE TypeOK'
  <2>1. OutputOK'
    BY <1>3, EmitType DEF BodyEmit
  <2> DEFINE G(k) == IF k = This
                     THEN [reqs[k] EXCEPT !.asked = Append(@, f),
                                          !.need = @ + NameBytes[f] + ValueBytes[f]]
                     ELSE reqs[k]
  <2>2. reqs' = [k \in 1 .. Len(reqs) |-> G(k)]
    BY <1>1, <1>3 DEF BodyEmit
  <2>3. ASSUME NEW k \in 1 .. Len(reqs) PROVE G(k) \in Request
    <3>1. reqs[k] \in Request
      BY <1>1
    <3>2. /\ Append(reqs[k].asked, f) \in Seq(Fields)
          /\ reqs[k].need + NameBytes[f] + ValueBytes[f] \in Nat
      BY <3>1, FieldsAssumption, AppendProperties DEF Request
    <3> QED
      BY <3>1, <3>2 DEF Request
  <2> HIDE DEF G
  <2>4. Len(reqs) \in Nat
    BY LenProperties DEF RequestsOK
  <2>5. reqs' \in Seq(Request)
    BY <2>2, <2>3, <2>4, IsASeq
  <2>6. Len(reqs') = Len(reqs)
    BY <2>2, <2>4, <2>5, LenProperties
  <2>7. RequestsOK'
    BY <2>5, <2>6 DEF RequestsOK
  <2> QED
    BY <1>2, <1>3, <2>1, <2>7 DEF BodyEmit, EventsOK, ControlOK
<1>4. ASSUME NEW f \in Fields, EventPair(f) PROVE TypeOK'
  BY <1>4, TypePair DEF EventPair
<1>5. CASE BodyEvent
  <2>1. evs' \in Seq(Events) /\ Len(evs') \in Nat /\ ev' = Len(evs')
    BY <1>1, <1>5, NewEventType DEF BodyEvent
  <2>2. OutputOK'
    BY <1>5, <2>1, Firsts, OpenLineType DEF BodyEvent, OutputOK
  <2> QED
    BY <1>2, <1>5, <2>1, <2>2 DEF BodyEvent, RequestsOK, EventsOK, ControlOK
<1>6. CASE BodyLog
  <2>1. OutputOK'
    BY <1>6, 0 \in Nat, Firsts, OpenLineType DEF BodyLog, OutputOK
  <2> QED
    BY <1>2, <1>6, <2>1 DEF BodyLog, RequestsOK, EventsOK, ControlOK
<1>7. CASE BodyAssert
  <2>1. cmdActive \in Nat
    BY BoundsAssumption DEF ControlOK
  <2>2. OutputOK'
    BY <1>7, <2>1, Firsts, OpenLineType DEF BodyAssert, OutputOK
  <2> DEFINE G(k) == IF k = This THEN [reqs[k] EXCEPT !.failed = TRUE] ELSE reqs[k]
  <2>3. reqs' = [k \in 1 .. Len(reqs) |-> G(k)]
    BY <1>1, <1>7 DEF BodyAssert
  <2>4. ASSUME NEW k \in 1 .. Len(reqs) PROVE G(k) \in Request
    BY <1>1 DEF Request
  <2> HIDE DEF G
  <2>5. Len(reqs) \in Nat
    BY LenProperties DEF RequestsOK
  <2>6. reqs' \in Seq(Request)
    BY <2>3, <2>4, <2>5, IsASeq
  <2>7. Len(reqs') = Len(reqs)
    BY <2>3, <2>5, <2>6, LenProperties
  <2>8. RequestsOK'
    BY <2>6, <2>7 DEF RequestsOK
  <2> QED
    BY <1>7, <2>2, <2>8 DEF BodyAssert, EventsOK, ControlOK
<1>8. CASE BodyReturn
  <2>1. CaptureOK(ExtraEnd(cap))
    BY CaptureKept DEF OutputOK
  <2>2. OutputOK'
    BY <1>1, <1>8, <2>1, OpenResponseType DEF BodyReturn
  <2> QED
    BY <1>8, <2>2 DEF BodyReturn, RequestsOK, EventsOK, ControlOK
<1> QED
  BY <1>3, <1>4, <1>5, <1>6, <1>7, <1>8 DEF Body

LEMMA TypeEnd == TypeOK /\ (CloseLine \/ ResetReboots \/ ResetReturns) => TypeOK'
<1> SUFFICES ASSUME TypeOK, CloseLine \/ ResetReboots \/ ResetReturns PROVE TypeOK'
  OBVIOUS
<1> USE TypeParts
<1>1. CASE CloseLine
  <2>1. OutputOK'
    BY <1>1, EndLineType DEF CloseLine
  <2> QED
    BY <1>1, <2>1 DEF CloseLine, RequestsOK, EventsOK, ControlOK
<1>2. CASE ResetReboots
  <2>1. OutputOK'
    BY <1>2, CaptureReset DEF ResetReboots, OutputOK, CaptureOK
  <2> QED
    BY <1>2, <2>1, BoundsAssumption DEF ResetReboots, RequestsOK, EventsOK, ControlOK
<1>3. CASE ResetReturns
  BY <1>3 DEF ResetReturns, OutputOK, CaptureOK, RequestsOK, EventsOK, ControlOK
<1> QED
  BY <1>1, <1>2, <1>3

LEMMA TypeInductive == TypeOK /\ [Next]_vars => TypeOK'
<1> SUFFICES ASSUME TypeOK, [Next]_vars PROVE TypeOK'
  OBVIOUS
<1>1. CASE UNCHANGED vars
  BY <1>1 DEF vars, TypeOK
<1> QED
  BY <1>1, TypePump, TypeRequest, TypeBody, TypeEnd DEF Next

(***************************************************************************)
(* The state is of its type, for every choice of the constants: the        *)
(* capture never leaves its array of RIG_EXTRA_FIELDS_MAX fields nor its   *)
(* arena of RIG_EXTRA_FIELDS_CAP bytes, whatever the bodies emit.          *)
(***************************************************************************)
THEOREM TypeCorrect == Spec => []TypeOK
<1>1. Init => TypeOK
  BY TypeInitial
<1>2. TypeOK /\ [Next]_vars => TypeOK'
  BY TypeInductive
<1> QED
  BY <1>1, <1>2, PTL DEF Spec

-----------------------------------------------------------------------------
(* Framing: what opens a line starts it, what ends one leaves none open.   *)
LEMMA OpenLineFramed ==
    ASSUME cur = <<>>, NEW c \in Capture, NEW first \in Seq(Plain), OpenLine(c, first)
    PROVE  Framed(cur') /\ lines' = lines /\ cap'.inBody = c.inBody
<1>1. <<>> \o <<Sentinel>> \in Seq(Token) /\ Framed(<<>> \o <<Sentinel>>)
  BY 0 \in Nat, FramedStart
<1>2. Framed((<<>> \o <<Sentinel>>) \o first)
  BY <1>1, FramedConcat
<1>3. cap'.inBody = c.inBody
  BY DEF OpenLine, Suspended, Capture
<1> QED
  BY <1>2, <1>3 DEF OpenLine

LEMMA OpenResponseFramed ==
    ASSUME cur = <<>>, NEW c \in Capture, NEW n \in Nat, OpenResponse(c, n)
    PROVE  Framed(cur') /\ lines' = lines
<1> DEFINE start == <<>> \o <<Sentinel, Cmd(n)>>
<1>1. start \in Seq(Token) /\ Framed(start)
  BY FramedStart
<1>2. start \o Replay(c) \in Seq(Token) /\ Framed(start \o Replay(c))
  BY <1>1, ReplayPlain, FramedConcat
<1>3. <<Ret>> \in Seq(Plain)
  BY PlainTokens
<1>4. Framed((start \o Replay(c)) \o <<Ret>>)
  BY <1>2, <1>3, FramedConcat
<1> QED
  BY <1>4 DEF OpenResponse

LEMMA EndLineFramed ==
    ASSUME OutputOK, WellFramed, Framed(cur), EndLine
    PROVE  /\ WellFramed' /\ cur' = <<>>
           /\ cap'.active = cap.inBody /\ cap'.inBody = cap.inBody
<1>1. /\ Len(lines) \in Nat /\ DOMAIN lines = 1 .. Len(lines)
      /\ lines' \in Seq(Seq(Token)) /\ Len(lines') = Len(lines) + 1
      /\ \A k \in 1 .. Len(lines) : lines'[k] = lines[k]
      /\ lines'[Len(lines) + 1] = cur
  BY AppendProperties, LenProperties DEF OutputOK, EndLine
<1>2. DOMAIN lines' = 1 .. Len(lines) + 1
  BY <1>1, LenProperties
<1>3. ASSUME NEW k \in DOMAIN lines' PROVE Framed(lines'[k])
  <2>1. CASE k \in 1 .. Len(lines)
    BY <2>1, <1>1 DEF WellFramed
  <2>2. CASE k = Len(lines) + 1
    BY <2>2, <1>1
  <2> QED
    BY <2>1, <2>2, <1>1, <1>2
<1>4. WellFramed'
  BY <1>3 DEF WellFramed
<1>5. cap'.active = cap.inBody /\ cap'.inBody = cap.inBody
  BY DEF EndLine, Rearmed, OutputOK, CaptureOK, Capture
<1> QED
  BY <1>4, <1>5 DEF EndLine

LEMMA FramingInitial == Init => Framing
BY DEF Init, Framing, WellFramed, NoLineOpen

LEMMA FramingPair ==
    ASSUME TypeOK, Framing, pc \in {"flushLine", "eventLine"}, NEW f \in Fields, Pair(f)
    PROVE  Framing'
<1>1. OutputOK /\ cap \in Capture /\ WellFramed
  BY TypeParts DEF OutputOK, CaptureOK, Framing
<1>2. /\ pc' = pc /\ Framed(cur) /\ lines' = lines
      /\ pc = "eventLine" => cap.inBody
  BY DEF Pair, Emit, Framing, NoLineOpen
<1>3. Framed(cur')
  <2>1. Field(f) \in Plain
    BY FieldsAssumption, PlainTokens
  <2>2. cur' = cur \/ cur' = Append(cur, Field(f))
    BY DEF Pair, Emit
  <2> QED
    BY <1>1, <1>2, <2>1, <2>2, FramedAppend DEF OutputOK
<1>4. cap'.inBody = cap.inBody
  BY <1>1, EmitType DEF Pair
<1> QED
  BY <1>1, <1>2, <1>3, <1>4 DEF Framing, NoLineOpen, WellFramed

LEMMA FramingPump ==
    ASSUME TypeOK, Framing, Announce \/ Flush \/ SkipBlank
    PROVE  Framing'
<1>1. OutputOK /\ cap \in Capture /\ WellFramed
  BY TypeParts DEF OutputOK, CaptureOK, Framing
<1>2. CASE Announce
  <2>1. Framed(cur') /\ lines' = lines
    BY <1>1, <1>2, 0 \in Nat, Firsts, OpenLineFramed DEF Announce, Framing, NoLineOpen
  <2> QED
    BY <1>1, <1>2, <2>1 DEF Announce, Framing, NoLineOpen, WellFramed
<1>3. CASE FlushEvent
  <2>1. ev' \in Nat
    BY <1>3, TypeParts, NewEventType, BoundsAssumption DEF FlushEvent
  <2>2. Framed(cur') /\ lines' = lines
    BY <1>1, <1>3, <2>1, Firsts, OpenLineFramed DEF FlushEvent, Framing, NoLineOpen
  <2> QED
    BY <1>1, <1>3, <2>2 DEF FlushEvent, Framing, NoLineOpen, WellFramed
<1>4. CASE SkipBlank
  BY <1>4 DEF SkipBlank, Framing, NoLineOpen, WellFramed
<1>5. CASE FlushDropped \/ \E f \in Fields : FlushPair(f)
  BY <1>5, FlushedPair, FramingPair
<1> QED
  BY <1>2, <1>3, <1>4, <1>5 DEF Flush

LEMMA FramingRequest ==
    ASSUME TypeOK, Framing, RefuseLine \/ RefuseCommand \/ RunBuiltin \/ StartBody
    PROVE  Framing'
<1>1. OutputOK /\ cap \in Capture /\ WellFramed
  BY TypeParts DEF OutputOK, CaptureOK, Framing
<1>2. pc = "run" /\ cur = <<>> /\ This + 1 \in Nat
  <2>1. PICK kind \in Kinds : Take(kind)
    BY DEF RefuseLine, RefuseCommand, RunBuiltin, StartBody, Kinds
  <2> QED
    BY <2>1, TypeParts, TakeType DEF Take, Framing, NoLineOpen
<1>3. ExtraReset(cap) \in Capture
  BY CaptureReset DEF CaptureOK
<1>4. CASE RefuseLine \/ RefuseCommand
  <2>1. Framed(cur') /\ lines' = lines /\ pc' = "lastLine"
    BY <1>1, <1>2, <1>3, <1>4, Firsts, OpenLineFramed DEF RefuseLine, RefuseCommand
  <2> QED
    BY <1>1, <2>1 DEF Framing, NoLineOpen, WellFramed
<1>5. CASE RunBuiltin
  <2>1. Framed(cur') /\ lines' = lines /\ pc' = "lastLine"
    BY <1>2, <1>3, <1>5, OpenResponseFramed DEF RunBuiltin
  <2> QED
    BY <1>1, <2>1 DEF Framing, NoLineOpen, WellFramed
<1>6. CASE StartBody
  <2>1. NoCapture \in Capture
    BY CaptureReset DEF CaptureOK
  <2>2. cap'.active /\ cap'.inBody
    BY <1>6, <2>1 DEF StartBody, ExtraBegin, Capture
  <2> QED
    BY <1>1, <1>2, <1>6, <2>2 DEF StartBody, Framing, NoLineOpen, WellFramed
<1> QED
  BY <1>4, <1>5, <1>6

LEMMA FramingBody ==
    ASSUME TypeOK, Framing, Body
    PROVE  Framing'
<1>1. OutputOK /\ cap \in Capture /\ WellFramed
  BY TypeParts DEF OutputOK, CaptureOK, Framing
<1>2. This \in 0 .. MaxReqs /\ This \in Nat
  BY TypeParts, LenProperties, BoundsAssumption DEF RequestsOK, This
<1>3. ASSUME NEW f \in Fields, BodyEmit(f) PROVE Framing'
  <2>1. cap.active /\ cap.inBody /\ pc' = "body" /\ cur = <<>>
    BY <1>3 DEF BodyEmit, Framing, NoLineOpen
  <2>2. cur' = cur /\ lines' = lines
    BY <1>3, <2>1 DEF BodyEmit, Emit
  <2>3. cap'.active = cap.active /\ cap'.inBody = cap.inBody
    BY <1>1, <1>3, EmitType DEF BodyEmit
  <2> QED
    BY <1>1, <2>1, <2>2, <2>3 DEF Framing, NoLineOpen, WellFramed
<1>4. ASSUME NEW f \in Fields, EventPair(f) PROVE Framing'
  BY <1>4, FramingPair DEF EventPair
<1>5. CASE BodyEvent
  <2>1. ev' \in Nat
    BY <1>2, <1>5, TypeParts, NewEventType DEF BodyEvent
  <2>2. Framed(cur') /\ lines' = lines /\ cap'.inBody = cap.inBody
    BY <1>1, <1>5, <2>1, Firsts, OpenLineFramed DEF BodyEvent, Framing, NoLineOpen
  <2> QED
    BY <1>1, <1>5, <2>2 DEF BodyEvent, Framing, NoLineOpen, WellFramed
<1>6. CASE BodyLog
  <2>1. Framed(cur') /\ lines' = lines /\ cap'.inBody = cap.inBody
    BY <1>1, <1>6, 0 \in Nat, Firsts, OpenLineFramed DEF BodyLog, Framing, NoLineOpen
  <2> QED
    BY <1>1, <1>6, <2>1 DEF BodyLog, Framing, NoLineOpen, WellFramed
<1>7. CASE BodyAssert
  <2>1. cmdActive \in Nat
    BY TypeParts, BoundsAssumption DEF ControlOK
  <2>2. Framed(cur') /\ lines' = lines
    BY <1>1, <1>7, <2>1, Firsts, OpenLineFramed DEF BodyAssert, Framing, NoLineOpen
  <2> QED
    BY <1>1, <1>7, <2>2 DEF BodyAssert, Framing, NoLineOpen, WellFramed
<1>8. CASE BodyReturn
  <2>1. ExtraEnd(cap) \in Capture
    BY <1>1, CaptureKept DEF OutputOK, CaptureOK
  <2>2. Framed(cur') /\ lines' = lines
    BY <1>2, <1>8, <2>1, OpenResponseFramed DEF BodyReturn, Framing, NoLineOpen
  <2> QED
    BY <1>1, <1>8, <2>2 DEF BodyReturn, Framing, NoLineOpen, WellFramed
<1> QED
  BY <1>3, <1>4, <1>5, <1>6, <1>7, <1>8 DEF Body

LEMMA FramingEnd ==
    ASSUME TypeOK, Framing, CloseLine \/ ResetReboots \/ ResetReturns
    PROVE  Framing'
<1>1. CASE CloseLine
  <2>1. OutputOK /\ WellFramed /\ Framed(cur) /\ EndLine
    BY <1>1, TypeParts DEF CloseLine, Framing, NoLineOpen
  <2>2. /\ WellFramed' /\ cur' = <<>>
        /\ cap'.active = cap.inBody /\ cap'.inBody = cap.inBody
    BY <2>1, EndLineFramed
  <2>3. pc' \in {"run", "reset"} \/ (pc' = "body" /\ cap.inBody)
    BY <1>1 DEF CloseLine, Framing
  <2> QED
    BY <2>2, <2>3 DEF Framing, NoLineOpen
<1>2. CASE ResetReboots \/ ResetReturns
  BY <1>2 DEF ResetReboots, ResetReturns, Framing, NoLineOpen, WellFramed
<1> QED
  BY <1>1, <1>2

LEMMA FramingInductive == TypeOK /\ Framing /\ [Next]_vars => Framing'
<1> SUFFICES ASSUME TypeOK, Framing, [Next]_vars PROVE Framing'
  OBVIOUS
<1>1. CASE UNCHANGED vars
  BY <1>1 DEF vars, Framing, NoLineOpen, WellFramed
<1> QED
  BY <1>1, FramingPump, FramingRequest, FramingBody, FramingEnd DEF Next

(***************************************************************************)
(* Every completed line starts with the sentinel and holds no other,       *)
(* whatever the requests are and whatever the bodies emit, raise, log or   *)
(* assert: as long as one thread makes the calls and no value given to     *)
(* RIG_EMIT_EVENT writes a line of its own.                                *)
(***************************************************************************)
THEOREM LinesWellFramed == Spec => []WellFramed
<1>1. Init => TypeOK /\ Framing
  BY TypeInitial, FramingInitial
<1>2. TypeOK /\ Framing /\ [Next]_vars => TypeOK' /\ Framing'
  BY TypeInductive, FramingInductive
<1>3. Framing => WellFramed
  BY DEF Framing
<1> QED
  BY <1>1, <1>2, <1>3, PTL DEF Spec
-----------------------------------------------------------------------------
(***************************************************************************)
(* What a line is about.  After the sentinel comes one token that names    *)
(* its subject, and no other token of the line is of that sort; so a       *)
(* subject is mentioned just by the lines that are about it.               *)
(***************************************************************************)
Subjects == {token \in Token : token.t \in {"cmd", "event", "log", "ready"}}

Rest == {token \in Token : token.t \in {"field", "ret", "error", "_emit_overflow"}}

About(line, subject) ==
    /\ line \in Seq(Token)
    /\ Len(line) >= 2 /\ line[2] = subject
    /\ \A j \in 1 .. Len(line) : j # 2 => line[j] \notin Subjects

LEMMA TokenSorts ==
    ASSUME NEW n \in Nat
    PROVE  /\ Cmd(n) \in Subjects /\ Event(n) \in Subjects
           /\ Log \in Subjects /\ Ready \in Subjects
           /\ Field(n) \in Rest /\ Ret \in Rest /\ Error \in Rest /\ Overflow \in Rest
           /\ Sentinel \in Token /\ Sentinel \notin Subjects
           /\ Rest \intersect Subjects = {}
           /\ Rest \subseteq Token /\ Subjects \subseteq Token
<1>1. Cmd(n) \in Subjects /\ Event(n) \in Subjects /\ Log \in Subjects
      /\ Ready \in Subjects
  BY DEF Cmd, Event, Log, Ready, Tok, Token, Subjects
<1>2. Field(n) \in Rest /\ Ret \in Rest /\ Error \in Rest /\ Overflow \in Rest
  BY DEF Field, Ret, Error, Overflow, Tok, Token, Rest
<1>3. Sentinel \in Token /\ Sentinel \notin Subjects
  BY DEF Sentinel, Tok, Token, Subjects
<1> QED
  BY <1>1, <1>2, <1>3 DEF Rest, Subjects

\* Different commands and events are different subjects.
LEMMA SubjectsDiffer ==
    ASSUME NEW m \in Nat, NEW n \in Nat
    PROVE  /\ Cmd(m) = Cmd(n) <=> m = n
           /\ Event(m) = Event(n) <=> m = n
           /\ Cmd(m) # Event(n)
           /\ Cmd(m) # Log /\ Cmd(m) # Ready
           /\ Event(m) # Log /\ Event(m) # Ready
BY DEF Cmd, Event, Log, Ready, Tok

LEMMA AboutMentions ==
    ASSUME NEW line, NEW subject \in Subjects, About(line, subject),
           NEW token \in Subjects
    PROVE  Mentions(line, token) <=> token = subject
<1>1. DOMAIN line = 1 .. Len(line) /\ Len(line) \in Nat
  BY LenProperties DEF About
<1>2. 2 \in 1 .. Len(line)
  BY <1>1 DEF About
<1> QED
  BY <1>1, <1>2 DEF About, Mentions

\* The shape of every line: the sentinel, the subject, the rest.
LEMMA LineAbout ==
    ASSUME NEW subject \in Subjects, NEW rest \in Seq(Rest)
    PROVE  About(<<Sentinel, subject>> \o rest, subject)
<1> DEFINE start == <<Sentinel, subject>>
           line  == start \o rest
<1>1. rest \in Seq(Token) /\ start \in Seq(Token) /\ Len(start) = 2
      /\ start[1] = Sentinel /\ start[2] = subject
  <2>1. Rest \subseteq Token /\ Sentinel \in Token /\ subject \in Token
    BY 0 \in Nat, TokenSorts
  <2>2. rest \in Seq(Token)
    BY <2>1, SeqMonotonic
  <2> QED
    BY <2>1, <2>2
<1>2. Len(rest) \in Nat /\ \A k \in 1 .. Len(rest) : rest[k] \notin Subjects
  <2>1. \A k \in 1 .. Len(rest) : rest[k] \in Rest
    BY ElementOfSeq
  <2> QED
    BY <2>1, 0 \in Nat, TokenSorts, LenProperties
<1> HIDE DEF start
<1>3. /\ line \in Seq(Token) /\ Len(line) = 2 + Len(rest)
      /\ \A k \in 1 .. 2 + Len(rest) :
             line[k] = IF k <= 2 THEN start[k] ELSE rest[k - 2]
  <2>1. /\ start \o rest \in Seq(Token)
        /\ Len(start \o rest) = Len(start) + Len(rest)
        /\ \A k \in 1 .. Len(start) + Len(rest) :
               (start \o rest)[k] = IF k <= Len(start) THEN start[k]
                                                       ELSE rest[k - Len(start)]
    BY <1>1, ConcatProperties
  <2> QED
    BY <1>1, <2>1
<1>4. line[2] = subject /\ line[1] = Sentinel
  BY <1>1, <1>2, <1>3
<1>5. ASSUME NEW k \in 1 .. Len(line), k # 2 PROVE line[k] \notin Subjects
  <2>1. CASE k = 1
    BY <2>1, <1>4, 0 \in Nat, TokenSorts
  <2>2. CASE k > 2
    <3>1. line[k] = rest[k - 2] /\ k - 2 \in 1 .. Len(rest)
      BY <2>2, <1>2, <1>3
    <3> QED
      BY <3>1, <1>2
  <2> QED
    BY <2>1, <2>2, <1>5, <1>2, <1>3
<1> QED
  BY <1>2, <1>3, <1>4, <1>5 DEF About, start

\* What the library calls write, in that shape.
LEMMA Shapes ==
    ASSUME NEW subject \in Token, NEW replay \in Seq(Token)
    PROVE  /\ (<<>> \o <<Sentinel>>) \o <<subject>> = <<Sentinel, subject>> \o <<>>
           /\ (<<>> \o <<Sentinel>>) \o <<subject, Error>>
                 = <<Sentinel, subject>> \o <<Error>>
           /\ ((<<>> \o <<Sentinel, subject>>) \o replay) \o <<Ret>>
                 = <<Sentinel, subject>> \o (replay \o <<Ret>>)
<1>1. Sentinel \in Token /\ Error \in Token /\ Ret \in Token
  BY 0 \in Nat, TokenSorts DEF Rest
<1>2. /\ <<Sentinel>> \in Seq(Token) /\ <<subject>> \in Seq(Token)
      /\ <<Sentinel, subject>> \in Seq(Token) /\ <<Error>> \in Seq(Token)
      /\ <<subject, Error>> \in Seq(Token) /\ <<Ret>> \in Seq(Token)
  BY <1>1
<1>3. /\ <<>> \o <<Sentinel>> = <<Sentinel>>
      /\ <<>> \o <<Sentinel, subject>> = <<Sentinel, subject>>
      /\ <<Sentinel, subject>> \o <<>> = <<Sentinel, subject>>
  BY <1>2, ConcatEmptySeq
<1>4. <<Sentinel>> \o <<subject>> = <<Sentinel, subject>>
  <2> DEFINE one  == <<Sentinel>>
             long == one \o <<subject>>
             pair == <<Sentinel, subject>>
  <2>1. Len(one) = 1 /\ one[1] = Sentinel /\ Len(<<subject>>) = 1 /\ <<subject>>[1] = subject
    OBVIOUS
  <2>2. Len(pair) = 2 /\ pair[1] = Sentinel /\ pair[2] = subject
    OBVIOUS
  <2>3. one \in Seq(Token) /\ <<subject>> \in Seq(Token) /\ pair \in Seq(Token)
    BY <1>2
  <2> HIDE DEF one, pair
  <2>4. long \in Seq(Token) /\ Len(long) = 2 /\ long[1] = Sentinel /\ long[2] = subject
    BY <2>1, <2>3, ConcatProperties
  <2>5. long = pair
    <3> HIDE DEF long
    <3>1. \A k \in 1 .. Len(long) : long[k] = pair[k]
      BY <2>2, <2>4
    <3> QED
      BY <2>2, <2>3, <2>4, <3>1, SeqEqual
  <2> QED
    BY <2>5, Zenon DEF one, pair
<1>5. <<Sentinel>> \o <<subject, Error>> = <<Sentinel, subject>> \o <<Error>>
  OBVIOUS
<1>6. (<<Sentinel, subject>> \o replay) \o <<Ret>>
          = <<Sentinel, subject>> \o (replay \o <<Ret>>)
  BY <1>2, ConcatAssociative
<1> QED
  BY <1>3, <1>4, <1>5, <1>6

\* The members of captured fields and of an event's pairs.
LEMMA FieldTokensOf ==
    ASSUME NEW q \in Seq(Fields)
    PROVE  /\ FieldTokens(q) \in Seq(Rest) /\ Len(FieldTokens(q)) = Len(q)
           /\ \A k \in 1 .. Len(q) : FieldTokens(q)[k] = Field(q[k])
<1>1. /\ Len(q) \in Nat /\ DOMAIN q = 1 .. Len(q)
      /\ \A k \in 1 .. Len(q) : q[k] \in Nat
  BY FieldsAssumption, LenProperties, ElementOfSeq
<1>2. FieldTokens(q) = [k \in 1 .. Len(q) |-> Field(q[k])]
  BY <1>1 DEF FieldTokens
<1>3. \A k \in 1 .. Len(q) : Field(q[k]) \in Rest
  BY <1>1, TokenSorts
<1>4. FieldTokens(q) \in Seq(Rest)
  BY <1>1, <1>2, <1>3, IsASeq
<1>5. Len(FieldTokens(q)) = Len(q)
  BY <1>1, <1>2, <1>4, LenProperties
<1> QED
  BY <1>2, <1>4, <1>5

LEMMA FieldTokensEmpty == FieldTokens(<<>>) = <<>>
<1>1. <<>> \in Seq(Fields) /\ Len(<<>>) = 0
  BY EmptySeq
<1>2. FieldTokens(<<>>) \in Seq(Rest) /\ Len(FieldTokens(<<>>)) = 0
  BY <1>1, FieldTokensOf
<1> QED
  BY <1>2, EmptySeq

LEMMA FieldTokensAppend ==
    ASSUME NEW q \in Seq(Fields), NEW f \in Fields
    PROVE  FieldTokens(Append(q, f)) = Append(FieldTokens(q), Field(f))
<1> DEFINE longer == Append(q, f)
           tokens == FieldTokens(q)
<1>1. /\ Len(q) \in Nat /\ longer \in Seq(Fields) /\ Len(longer) = Len(q) + 1
      /\ \A k \in 1 .. Len(q) : longer[k] = q[k]
      /\ longer[Len(q) + 1] = f
  BY AppendProperties, LenProperties
<1>2. /\ tokens \in Seq(Rest) /\ Len(tokens) = Len(q)
      /\ \A k \in 1 .. Len(q) : tokens[k] = Field(q[k])
  BY FieldTokensOf
<1>3. /\ FieldTokens(longer) \in Seq(Rest) /\ Len(FieldTokens(longer)) = Len(q) + 1
      /\ \A k \in 1 .. Len(q) + 1 : FieldTokens(longer)[k] = Field(longer[k])
  <2> HIDE DEF longer
  <2> QED
    BY <1>1, FieldTokensOf
<1>4. Field(f) \in Rest
  BY FieldsAssumption, TokenSorts
<1>5. /\ Append(tokens, Field(f)) \in Seq(Rest)
      /\ Len(Append(tokens, Field(f))) = Len(q) + 1
      /\ \A k \in 1 .. Len(q) : Append(tokens, Field(f))[k] = tokens[k]
      /\ Append(tokens, Field(f))[Len(q) + 1] = Field(f)
  <2> HIDE DEF tokens
  <2> QED
    BY <1>2, <1>4, AppendProperties
<1>6. \A k \in 1 .. Len(q) + 1 : FieldTokens(longer)[k] = Append(tokens, Field(f))[k]
  <2> HIDE DEF longer, tokens
  <2> QED
    BY <1>1, <1>2, <1>3, <1>5
<1> QED
  <2> HIDE DEF longer, tokens
  <2>1. FieldTokens(longer) = Append(tokens, Field(f))
    BY <1>3, <1>5, <1>6, SeqEqual
  <2> QED
    BY <2>1 DEF longer, tokens
-----------------------------------------------------------------------------
(***************************************************************************)
(* Why each request gets its own answer.  While a command runs the capture *)
(* holds what its body asked to emit, or is truncated and this did not     *)
(* fit; a line that is open is about the event or the request it belongs   *)
(* to, and is already all of it; and among the completed lines one is      *)
(* about each request that is done and about each event that is told.      *)
(***************************************************************************)
InCommand == pc \in {"body", "eventLine", "logLine"}

Holds(c, r) == IF c.truncated THEN ~Fits(r)
               ELSE c.fields = r.asked /\ c.bytes = r.need

Collected ==
    InCommand =>
        /\ This > 0 /\ reqs[This].kind = "fn" /\ ~reqs[This].failed
        /\ cmdActive = This
        /\ cap.used /\ Holds(cap, reqs[This])
        /\ pc # "body" => ~cap.active

EventLine(e) == <<Sentinel, Event(e)>> \o FieldTokens(evs[e].pairs)

OpenEvent(req) == /\ ev > 0 /\ evs[ev].req = req
                  /\ About(cur, Event(ev)) /\ cur = EventLine(ev)

OpenAbout ==
    /\ pc = "readyLine" => About(cur, Ready)
    /\ pc = "flushLine" => OpenEvent(0) /\ ~cap.active
    /\ pc = "eventLine" => OpenEvent(This)
    /\ pc = "logLine"   => About(cur, Log)
    /\ pc = "lastLine"  => /\ This > 0 /\ reqs[This].kind # "blank"
                           /\ About(cur, Cmd(This)) /\ cur = AnswerTo(This, reqs[This])

Done(i) == i \in 1 .. This /\ Finished(i) /\ reqs[i].kind # "blank"

Telling(e) == ~NoLineOpen /\ About(cur, Event(e))

Told(e) == e \in 1 .. Len(evs) /\ ~Telling(e)

InOrder(e, k) == \A i \in 1 .. This : \A a \in LinesWith(Cmd(i)) :
                     evs[e].req # 0 => (a < k <=> i < evs[e].req)

AnswerWritten(i) == \E k \in DOMAIN lines : /\ LinesWith(Cmd(i)) = {k}
                                            /\ lines[k] = AnswerTo(i, reqs[i])

EventWritten(e) == \E k \in DOMAIN lines : /\ LinesWith(Event(e)) = {k}
                                           /\ lines[k] = EventLine(e)
                                           /\ InOrder(e, k)

LinesAbout == \A k \in DOMAIN lines : \E subject \in Subjects : About(lines[k], subject)

Answers == \A i \in Nat : IF Done(i) THEN AnswerWritten(i) ELSE LinesWith(Cmd(i)) = {}

Tellings == \A e \in Nat : IF Told(e) THEN EventWritten(e) ELSE LinesWith(Event(e)) = {}

Dated == \A e \in 1 .. Len(evs) : evs[e].req <= This

Ledger == /\ Collected /\ OpenAbout /\ LinesAbout
          /\ Answers /\ Tellings /\ Dated

\* The histories, as every proof below needs them.
LEMMA Histories ==
    ASSUME TypeOK
    PROVE  /\ This \in Nat /\ DOMAIN reqs = 1 .. This
           /\ \A i \in 1 .. This : reqs[i] \in Request
           /\ Len(evs) \in Nat /\ DOMAIN evs = 1 .. Len(evs)
           /\ \A e \in 1 .. Len(evs) : /\ evs[e].req \in Nat
                                       /\ evs[e].pairs \in Seq(Fields)
           /\ ev \in Nat /\ ev <= Len(evs)
           /\ Len(lines) \in Nat /\ DOMAIN lines = 1 .. Len(lines)
<1>1. reqs \in Seq(Request) /\ evs \in Seq(Events) /\ lines \in Seq(Seq(Token))
      /\ ev \in 0 .. Len(evs)
  BY DEF TypeOK, Events
<1>2. /\ This \in Nat /\ DOMAIN reqs = 1 .. This
      /\ \A i \in 1 .. This : reqs[i] \in Request
  BY <1>1, LenProperties, ElementOfSeq DEF This
<1>3. /\ Len(evs) \in Nat /\ DOMAIN evs = 1 .. Len(evs)
      /\ \A e \in 1 .. Len(evs) : evs[e] \in Events
  BY <1>1, LenProperties, ElementOfSeq
<1>4. \A e \in 1 .. Len(evs) : evs[e].req \in Nat /\ evs[e].pairs \in Seq(Fields)
  BY <1>3, BoundsAssumption DEF Events
<1>5. Len(lines) \in Nat /\ DOMAIN lines = 1 .. Len(lines)
  BY <1>1, LenProperties
<1> QED
  BY <1>1, <1>2, <1>3, <1>4, <1>5

LEMMA LedgerAnswersExact == TypeOK /\ Ledger => AnswersExact
<1> SUFFICES ASSUME TypeOK, Ledger PROVE AnswersExact
  OBVIOUS
<1>1. ASSUME NEW i \in 1 .. This
      PROVE  IF Finished(i) /\ reqs[i].kind # "blank"
             THEN \E k \in DOMAIN lines : /\ LinesWith(Cmd(i)) = {k}
                                          /\ lines[k] = AnswerTo(i, reqs[i])
             ELSE LinesWith(Cmd(i)) = {}
  <2>1. i \in Nat
    BY Histories
  <2> QED
    BY <2>1 DEF Ledger, Answers, Done, AnswerWritten
<1> QED
  BY <1>1 DEF AnswersExact

LEMMA LedgerEventsIntact == TypeOK /\ Ledger => EventsIntact
<1> SUFFICES ASSUME TypeOK, Ledger PROVE EventsIntact
  OBVIOUS
<1>1. ASSUME NEW e \in 1 .. Len(evs), Closed(e)
      PROVE  \E k \in DOMAIN lines :
                 /\ LinesWith(Event(e)) = {k}
                 /\ lines[k] = <<Sentinel, Event(e)>> \o FieldTokens(evs[e].pairs)
                 /\ \A i \in 1 .. This : \A a \in LinesWith(Cmd(i)) :
                        evs[e].req # 0 => (a < k <=> i < evs[e].req)
  <2>1. e \in Nat /\ ev \in Nat /\ This \in Nat
    BY Histories
  <2>2. ASSUME Telling(e) PROVE FALSE
    <3>1. pc \in {"readyLine", "flushLine", "eventLine", "logLine", "lastLine"}
          /\ cur[2] = Event(e)
      BY <2>2 DEF Telling, NoLineOpen, About, TypeOK
    <3>2. cur[2] \in {Ready, Event(ev), Log, Cmd(This)}
          /\ (cur[2] = Event(ev) => pc \in {"flushLine", "eventLine"})
      BY <3>1, <2>1, SubjectsDiffer DEF Ledger, OpenAbout, OpenEvent, About
    <3>3. e = ev /\ pc \in {"flushLine", "eventLine"}
      BY <3>1, <3>2, <2>1, SubjectsDiffer
    <3> QED
      BY <3>3, <1>1 DEF Closed
  <2> QED
    BY <2>1, <2>2 DEF Ledger, Tellings, Told, EventWritten, EventLine, InOrder
<1> QED
  BY <1>1 DEF EventsIntact

LEMMA LedgerInitial == Init => Ledger
<1> SUFFICES ASSUME Init PROVE Ledger
  OBVIOUS
<1>1. Len(<<>>) = 0 /\ DOMAIN <<>> = {}
  BY EmptySeq, LenProperties
<1>2. Len(reqs) = 0 /\ Len(evs) = 0 /\ DOMAIN lines = {} /\ pc = "boot"
  BY <1>1 DEF Init
<1>3. \A token : LinesWith(token) = {}
  BY <1>2 DEF LinesWith
<1> QED
  BY <1>2, <1>3 DEF Ledger, Collected, InCommand, OpenAbout, LinesAbout, Answers,
                    Tellings, Dated, Done, Told, This

-----------------------------------------------------------------------------
(* The completed lines: a step that ends none leaves them to the same      *)
(* requests and events, and one that ends a line adds it to its subject.   *)
LEMMA AnswersStill ==
    ASSUME Answers, UNCHANGED lines,
           \A i \in Nat : /\ Done(i)' <=> Done(i)
                          /\ Done(i) => reqs'[i] = reqs[i]
    PROVE  Answers'
<1>1. ASSUME NEW i \in Nat
      PROVE  (IF Done(i) THEN AnswerWritten(i) ELSE LinesWith(Cmd(i)) = {})'
  <2>1. LinesWith(Cmd(i))' = LinesWith(Cmd(i))
    BY DEF LinesWith
  <2>2. CASE Done(i)
    BY <2>1, <2>2 DEF Answers, AnswerWritten
  <2>3. CASE ~Done(i)
    BY <2>1, <2>3 DEF Answers
  <2> QED
    BY <2>2, <2>3
<1> QED
  BY <1>1 DEF Answers

LEMMA TellingsStill ==
    ASSUME Answers, Tellings, UNCHANGED lines, This \in Nat, This' \in {This, This + 1},
           \A e \in Nat : /\ Told(e)' <=> Told(e)
                          /\ Told(e) => evs'[e] = evs[e]
    PROVE  Tellings'
<1>1. ASSUME NEW e \in Nat
      PROVE  (IF Told(e) THEN EventWritten(e) ELSE LinesWith(Event(e)) = {})'
  <2>1. LinesWith(Event(e))' = LinesWith(Event(e))
    BY DEF LinesWith
  <2>2. CASE Told(e)
    <3>1. EventLine(e)' = EventLine(e)
      BY <2>2 DEF EventLine
    <3>2. PICK k \in DOMAIN lines : /\ LinesWith(Event(e)) = {k}
                                    /\ lines[k] = EventLine(e)
                                    /\ InOrder(e, k)
      BY <2>2 DEF Tellings, EventWritten
    <3>3. InOrder(e, k)'
      <4>1. ASSUME NEW i \in 1 .. This', NEW a \in LinesWith(Cmd(i))', evs'[e].req # 0
            PROVE  a < k <=> i < evs'[e].req
        <5>1. i \in Nat /\ a \in LinesWith(Cmd(i)) /\ evs'[e] = evs[e]
          BY <4>1, <2>2 DEF LinesWith
        <5>2. i \in 1 .. This
          BY <5>1 DEF Answers, Done
        <5> QED
          BY <4>1, <5>1, <5>2, <3>2 DEF InOrder
      <4> QED
        BY <4>1 DEF InOrder
    <3>4. LinesWith(Event(e))' = {k} /\ lines'[k] = EventLine(e)' /\ k \in DOMAIN lines'
      BY <2>1, <3>1, <3>2
    <3> QED
      BY <2>2, <3>3, <3>4 DEF EventWritten
  <2>3. CASE ~Told(e)
    BY <2>1, <2>3 DEF Tellings
  <2> QED
    BY <2>2, <2>3
<1> QED
  BY <1>1 DEF Tellings

LEMMA LineEnded ==
    ASSUME TypeOK, LinesAbout, NEW subject \in Subjects, About(cur, subject), EndLine
    PROVE  /\ LinesAbout'
           /\ DOMAIN lines = 1 .. Len(lines) /\ Len(lines) \in Nat
           /\ DOMAIN lines' = 1 .. Len(lines) + 1
           /\ \A k \in 1 .. Len(lines) : lines'[k] = lines[k]
           /\ lines'[Len(lines) + 1] = cur
           /\ \A token \in Subjects :
                  LinesWith(token)' = IF token = subject
                                      THEN LinesWith(token) \union {Len(lines) + 1}
                                      ELSE LinesWith(token)
<1>1. /\ Len(lines) \in Nat /\ DOMAIN lines = 1 .. Len(lines)
      /\ lines' \in Seq(Seq(Token)) /\ Len(lines') = Len(lines) + 1
      /\ \A k \in 1 .. Len(lines) : lines'[k] = lines[k]
      /\ lines'[Len(lines) + 1] = cur
  BY AppendProperties, LenProperties DEF TypeOK, EndLine
<1>2. DOMAIN lines' = 1 .. Len(lines) + 1
  BY <1>1, LenProperties
<1>3. ASSUME NEW k \in DOMAIN lines' PROVE \E s \in Subjects : About(lines'[k], s)
  <2>1. CASE k = Len(lines) + 1
    BY <1>1, <2>1
  <2>2. CASE k # Len(lines) + 1
    BY <1>1, <1>2, <2>2, SMTT(30) DEF LinesAbout
  <2> QED
    BY <2>1, <2>2
<1>4. ASSUME NEW token \in Subjects
      PROVE  LinesWith(token)' = IF token = subject
                                 THEN LinesWith(token) \union {Len(lines) + 1}
                                 ELSE LinesWith(token)
  <2>1. Mentions(cur, token) <=> token = subject
    BY AboutMentions
  <2>2. LinesWith(token)' = {k \in 1 .. Len(lines) + 1 : Mentions(lines'[k], token)}
    BY <1>2 DEF LinesWith
  <2>3. LinesWith(token) = {k \in 1 .. Len(lines) : Mentions(lines[k], token)}
    BY <1>1 DEF LinesWith
  <2> QED
    BY <1>1, <2>1, <2>2, <2>3
<1> QED
  BY <1>1, <1>2, <1>3, <1>4 DEF LinesAbout
-----------------------------------------------------------------------------
(* What opens a line decides what it is about, and what it says.           *)
LEMMA ReplayRest ==
    ASSUME NEW c \in Capture
    PROVE  Replay(c) \in Seq(Rest)
<1>1. FieldTokens(c.fields) \in Seq(Rest)
  BY FieldTokensOf DEF Capture
<1>2. <<Overflow>> \in Seq(Rest) /\ <<>> \in Seq(Rest)
  BY 0 \in Nat, TokenSorts, EmptySeq
<1> QED
  BY <1>1, <1>2 DEF Replay

LEMMA OpenedAbout ==
    ASSUME cur = <<>>, NEW c, NEW subject \in Subjects
    PROVE  /\ OpenLine(c, <<subject>>) =>
                  About(cur', subject) /\ cur' = <<Sentinel, subject>> \o <<>>
           /\ OpenLine(c, <<subject, Error>>) =>
                  About(cur', subject) /\ cur' = <<Sentinel, subject>> \o <<Error>>
<1>1. subject \in Token
  BY DEF Subjects
<1>2. <<>> \in Seq(Rest) /\ <<Error>> \in Seq(Rest) /\ <<>> \in Seq(Token)
  BY 0 \in Nat, TokenSorts, EmptySeq
<1>3. /\ About(<<Sentinel, subject>> \o <<>>, subject)
      /\ About(<<Sentinel, subject>> \o <<Error>>, subject)
  BY <1>2, LineAbout
<1>4. /\ (<<>> \o <<Sentinel>>) \o <<subject>> = <<Sentinel, subject>> \o <<>>
      /\ (<<>> \o <<Sentinel>>) \o <<subject, Error>>
            = <<Sentinel, subject>> \o <<Error>>
  BY <1>1, <1>2, Shapes
<1>5. /\ OpenLine(c, <<subject>>) => cur' = (<<>> \o <<Sentinel>>) \o <<subject>>
      /\ OpenLine(c, <<subject, Error>>) =>
             cur' = (<<>> \o <<Sentinel>>) \o <<subject, Error>>
  BY DEF OpenLine
<1> QED
  BY <1>3, <1>4, <1>5, Zenon

LEMMA RespondedAbout ==
    ASSUME cur = <<>>, NEW c \in Capture, NEW n \in Nat, OpenResponse(c, n)
    PROVE  /\ About(cur', Cmd(n))
           /\ cur' = <<Sentinel, Cmd(n)>> \o (Replay(c) \o <<Ret>>)
<1>1. Cmd(n) \in Subjects /\ Cmd(n) \in Token /\ <<Ret>> \in Seq(Rest)
      /\ Rest \subseteq Token
  BY TokenSorts DEF Subjects
<1>2. Replay(c) \in Seq(Rest) /\ Replay(c) \in Seq(Token)
  BY <1>1, ReplayRest, SeqMonotonic
<1>3. Replay(c) \o <<Ret>> \in Seq(Rest)
  BY <1>1, <1>2, ConcatProperties
<1>4. About(<<Sentinel, Cmd(n)>> \o (Replay(c) \o <<Ret>>), Cmd(n))
  BY <1>1, <1>3, LineAbout
<1>5. cur' = ((<<>> \o <<Sentinel, Cmd(n)>>) \o Replay(c)) \o <<Ret>>
  BY DEF OpenResponse
<1>6. cur' = <<Sentinel, Cmd(n)>> \o (Replay(c) \o <<Ret>>)
  BY <1>1, <1>2, <1>5, Shapes
<1> QED
  BY <1>4, <1>6

\* A pair more on the line of an event.
LEMMA EventLineAppend ==
    ASSUME NEW e \in Nat, NEW q \in Seq(Fields), NEW f \in Fields
    PROVE  /\ Append(<<Sentinel, Event(e)>> \o FieldTokens(q), Field(f))
                 = <<Sentinel, Event(e)>> \o FieldTokens(Append(q, f))
           /\ About(<<Sentinel, Event(e)>> \o FieldTokens(Append(q, f)), Event(e))
<1> DEFINE start == <<Sentinel, Event(e)>>
           line  == start \o FieldTokens(q)
<1>1. /\ Event(e) \in Subjects /\ Event(e) \in Token /\ Sentinel \in Token
      /\ Rest \subseteq Token
  BY TokenSorts DEF Subjects
<1>2. start \in Seq(Token)
  BY <1>1
<1>3. FieldTokens(q) \in Seq(Rest) /\ FieldTokens(q) \in Seq(Token)
  BY <1>1, FieldTokensOf, SeqMonotonic
<1>4. Field(f) \in Token /\ <<Field(f)>> \in Seq(Token)
  BY <1>1, FieldsAssumption, TokenSorts
<1>5. FieldTokens(Append(q, f)) = Append(FieldTokens(q), Field(f))
  BY FieldTokensAppend
<1>6. Append(FieldTokens(q), Field(f)) = FieldTokens(q) \o <<Field(f)>>
  BY <1>3, <1>4, AppendIsConcat
<1>7. Append(q, f) \in Seq(Fields)
  BY AppendProperties
<1>8. FieldTokens(Append(q, f)) \in Seq(Rest)
  BY <1>7, FieldTokensOf
<1>9. About(start \o FieldTokens(Append(q, f)), Event(e))
  BY <1>1, <1>8, LineAbout
<1>10. Append(line, Field(f)) = start \o FieldTokens(Append(q, f))
  <2> HIDE DEF start
  <2>1. line \in Seq(Token)
    BY <1>2, <1>3, ConcatProperties
  <2>2. Append(line, Field(f)) = line \o <<Field(f)>>
    <3> HIDE DEF line
    <3> QED
      BY <2>1, <1>4, AppendIsConcat
  <2>3. line \o <<Field(f)>> = start \o (FieldTokens(q) \o <<Field(f)>>)
    BY <1>2, <1>3, <1>4, ConcatAssociative, SMTT(30)
  <2> QED
    BY <2>2, <2>3, <1>5, <1>6
<1> QED
  BY <1>9, <1>10

-----------------------------------------------------------------------------
(* rig__extra_new() and rig__extra_dup(): the capture holds all that was   *)
(* asked for, or is truncated because that did not fit.                    *)
LEMMA StoredHolds ==
    ASSUME NEW c, CaptureOK(c), NEW r \in Request, Holds(c, r), NEW f \in Fields,
           NEW q, q.asked = Append(r.asked, f),
           q.need = r.need + NameBytes[f] + ValueBytes[f]
    PROVE  Holds(Stored(c, f), q) /\ Stored(c, f).used = c.used
<1> DEFINE nameEnd  == c.bytes + NameBytes[f]
           valueEnd == nameEnd + ValueBytes[f]
           full     == Len(c.fields) >= FieldsMax \/ nameEnd > ArenaCap
<1>1. /\ c \in Capture /\ c.bytes \in Nat /\ NameBytes[f] \in Nat
      /\ ValueBytes[f] \in Nat /\ FieldsMax \in Nat /\ ArenaCap \in Nat
      /\ r.need \in Nat /\ r.asked \in Seq(Fields) /\ Len(r.asked) \in Nat
  BY FieldsAssumption, BoundsAssumption, LenProperties DEF CaptureOK, Capture, Request
<1>2. Len(q.asked) = Len(r.asked) + 1
  BY <1>1, AppendProperties
<1>3. ~Fits(r) => ~Fits(q)
  BY <1>1, <1>2 DEF Fits
<1>4. CASE c.truncated
  <2>1. Stored(c, f) = c
    BY <1>4 DEF Stored
  <2> QED
    BY <1>3, <1>4, <2>1 DEF Holds
<1>5. CASE ~c.truncated /\ full
  <2>1. Stored(c, f) = [c EXCEPT !.truncated = TRUE]
    BY <1>5 DEF Stored
  <2>2. Stored(c, f).truncated /\ Stored(c, f).used = c.used
    BY <1>1, <2>1 DEF Capture
  <2>3. ~Fits(q)
    BY <1>1, <1>2, <1>5 DEF Fits, Holds
  <2> QED
    BY <2>2, <2>3 DEF Holds
<1>6. CASE ~c.truncated /\ ~full /\ valueEnd > ArenaCap
  <2>1. Stored(c, f) = [c EXCEPT !.truncated = TRUE, !.bytes = nameEnd]
    BY <1>6 DEF Stored
  <2>2. Stored(c, f).truncated /\ Stored(c, f).used = c.used
    BY <1>1, <2>1 DEF Capture
  <2>3. ~Fits(q)
    BY <1>1, <1>2, <1>6 DEF Fits, Holds
  <2> QED
    BY <2>2, <2>3 DEF Holds
<1>7. CASE ~c.truncated /\ ~full /\ ~(valueEnd > ArenaCap)
  <2>1. Stored(c, f) = [c EXCEPT !.fields = Append(@, f), !.bytes = valueEnd]
    BY <1>7 DEF Stored
  <2>2. /\ ~Stored(c, f).truncated /\ Stored(c, f).used = c.used
        /\ Stored(c, f).fields = Append(c.fields, f) /\ Stored(c, f).bytes = valueEnd
    BY <1>1, <1>7, <2>1 DEF Capture
  <2> QED
    BY <2>2, <1>1, <1>7 DEF Holds
<1> QED
  BY <1>4, <1>5, <1>6, <1>7

\* rig_io_resp_begin() after the body: what it replays is what was asked for.
LEMMA ReplayedIsAsked ==
    ASSUME NEW c, CaptureOK(c), NEW r \in Request, Holds(c, r), c.used
    PROVE  /\ ExtraEnd(c) \in Capture
           /\ Replay(ExtraEnd(c)) = IF Fits(r) THEN FieldTokens(r.asked) ELSE <<Overflow>>
<1>1. /\ c \in Capture /\ ExtraEnd(c) \in Capture
      /\ ExtraEnd(c).used /\ ExtraEnd(c).truncated = c.truncated
      /\ ExtraEnd(c).fields = c.fields
  BY DEF CaptureOK, Capture, ExtraEnd
<1>2. ~c.truncated => Fits(r) /\ c.fields = r.asked
  BY DEF Holds, Fits, CaptureOK
<1>3. c.truncated => ~Fits(r)
  BY DEF Holds
<1> HIDE DEF Fits
<1> QED
  BY <1>1, <1>2, <1>3 DEF Replay
-----------------------------------------------------------------------------
(* The ledger, action by action.                                           *)

\* The parts that a step leaves alone when it ends no line, tells no event
\* and finishes no request.
LEMMA LedgerStill ==
    ASSUME TypeOK, Ledger, UNCHANGED lines, This' \in {This, This + 1},
           \A i \in Nat : /\ Done(i)' <=> Done(i)
                          /\ Done(i) => reqs'[i] = reqs[i],
           \A e \in Nat : /\ Told(e)' <=> Told(e)
                          /\ Told(e) => evs'[e] = evs[e]
    PROVE  LinesAbout' /\ Answers' /\ Tellings'
<1>1. LinesAbout'
  BY DEF Ledger, LinesAbout
<1>2. Answers'
  BY AnswersStill DEF Ledger
<1>3. Tellings'
  BY Histories, TellingsStill DEF Ledger
<1> QED
  BY <1>1, <1>2, <1>3

\* Which event a line tells, by what it is about.
LEMMA TellingBySubject ==
    ASSUME TypeOK, NEW subject \in Subjects, About(cur, subject), NEW e \in Nat
    PROVE  Telling(e) <=> ~NoLineOpen /\ subject = Event(e)
BY TokenSorts DEF Telling, About

\* A request more: all before it are done.
LEMMA Taken ==
    ASSUME TypeOK, NEW kind \in Kinds, Take(kind)
    PROVE  /\ pc = "run" /\ This \in Nat /\ This' = This + 1
           /\ \A i \in 1 .. This : reqs'[i] = reqs[i]
           /\ reqs'[This + 1].kind = kind /\ reqs'[This + 1].asked = <<>>
           /\ reqs'[This + 1].need = 0 /\ ~reqs'[This + 1].failed
           /\ reqs'[This + 1] \in Request
<1> DEFINE new == [kind |-> kind, asked |-> <<>>, need |-> 0, failed |-> FALSE]
<1>1. /\ new \in Request
      /\ new.kind = kind /\ new.asked = <<>> /\ new.need = 0 /\ ~new.failed
  <2>1. <<>> \in Seq(Fields)
    BY EmptySeq
  <2> QED
    BY <2>1 DEF Request
<1> HIDE DEF new
<1>2. reqs' = Append(reqs, new) /\ reqs \in Seq(Request) /\ pc = "run"
  BY DEF Take, TypeOK, new
<1>3. /\ Len(reqs) \in Nat /\ Len(reqs') = Len(reqs) + 1
      /\ \A i \in 1 .. Len(reqs) : reqs'[i] = reqs[i]
      /\ reqs'[Len(reqs) + 1] = new
  BY <1>1, <1>2, AppendProperties, LenProperties
<1> QED
  BY <1>1, <1>2, <1>3 DEF This

LEMMA LedgerTaken ==
    ASSUME TypeOK, Ledger, NEW kind \in Kinds, Take(kind),
           UNCHANGED <<lines, evs, ev>>,
           pc' \in {"run", "body", "lastLine"}, kind = "blank" <=> pc' = "run",
           pc' = "lastLine" => About(cur', Cmd(This + 1))
    PROVE  LinesAbout' /\ Answers' /\ Tellings' /\ Dated'
<1>1. /\ pc = "run" /\ This \in Nat /\ This' = This + 1
      /\ \A i \in 1 .. This : reqs'[i] = reqs[i]
      /\ reqs'[This + 1].kind = kind
  BY Taken
<1>2. ASSUME NEW i \in Nat PROVE Done(i)' <=> Done(i)
  <2>1. Done(i) <=> i \in 1 .. This /\ reqs[i].kind # "blank"
    BY <1>1 DEF Done, Finished
  <2>2. Done(i)' <=> /\ i \in 1 .. This + 1 /\ (i < This + 1 \/ pc' = "run")
                     /\ reqs'[i].kind # "blank"
    BY <1>1 DEF Done, Finished
  <2> QED
    BY <1>1, <2>1, <2>2
<1>3. \A i \in Nat : Done(i) => reqs'[i] = reqs[i]
  BY <1>1 DEF Done
<1>4. ASSUME NEW e \in Nat PROVE Told(e)' <=> Told(e)
  <2>1. ~Telling(e)
    BY <1>1 DEF Telling, NoLineOpen
  <2>2. ~Telling(e)'
    <3>1. CASE pc' = "lastLine"
      <4>1. cur'[2] = Cmd(This + 1) /\ This + 1 \in Nat
        BY <1>1, <3>1 DEF About
      <4>2. cur'[2] # Event(e)
        BY <4>1, SubjectsDiffer
      <4> QED
        BY <4>2 DEF Telling, About
    <3>2. CASE pc' # "lastLine"
      BY <3>2 DEF Telling, NoLineOpen
    <3> QED
      BY <3>1, <3>2
  <2> QED
    BY <2>1, <2>2 DEF Told
<1>5. Dated'
  BY <1>1, Histories DEF Ledger, Dated
<1> QED
  BY <1>1, <1>2, <1>3, <1>4, <1>5, LedgerStill

LEMMA LedgerRequest ==
    ASSUME TypeOK, Framing, Ledger,
           SkipBlank \/ RefuseLine \/ RefuseCommand \/ RunBuiltin \/ StartBody
    PROVE  Ledger'
<1>1. pc = "run" /\ cur = <<>> /\ cap \in Capture /\ This + 1 \in Nat
  BY Histories, SMTT(30) DEF SkipBlank, RefuseLine, RefuseCommand, RunBuiltin, StartBody, Take,
                   Framing, NoLineOpen, TypeOK
<1>2. CASE SkipBlank
  <2>1. /\ Take("blank") /\ "blank" \in Kinds /\ pc' = "run"
        /\ UNCHANGED <<lines, evs, ev>>
    BY <1>1, <1>2 DEF SkipBlank, Kinds
  <2>2. LinesAbout' /\ Answers' /\ Tellings' /\ Dated'
    BY <2>1, LedgerTaken
  <2> QED
    BY <2>1, <2>2 DEF Ledger, Collected, InCommand, OpenAbout
<1>3. CASE RefuseLine \/ RefuseCommand
  <2>1. PICK kind \in {"overflow", "syntax", "unknown", "badargs"} : Take(kind)
    BY <1>3 DEF RefuseLine, RefuseCommand
  <2>2. /\ pc' = "lastLine" /\ UNCHANGED <<lines, evs, ev>>
        /\ \E c : OpenLine(c, <<Cmd(This + 1), Error>>)
    BY <1>3 DEF RefuseLine, RefuseCommand, OpenLine
  <2>3. /\ About(cur', Cmd(This + 1))
        /\ cur' = <<Sentinel, Cmd(This + 1)>> \o <<Error>>
    BY <1>1, <2>2, OpenedAbout, TokenSorts
  <2>4. kind \in Kinds
    BY DEF Kinds
  <2>5. This' = This + 1 /\ reqs'[This + 1].kind = kind
    BY <2>1, <2>4, Taken
  <2>6. LinesAbout' /\ Answers' /\ Tellings' /\ Dated'
    BY <2>1, <2>2, <2>3, <2>4, LedgerTaken
  <2>7. cur' = AnswerTo(This', reqs'[This'])
    BY <2>3, <2>5 DEF AnswerTo
  <2>8. OpenAbout'
    <3>1. This' > 0 /\ reqs'[This'].kind # "blank" /\ About(cur', Cmd(This'))
      BY <2>3, <2>5, Histories
    <3> QED
      BY <2>2, <2>7, <3>1 DEF OpenAbout
  <2> QED
    BY <2>2, <2>6, <2>8 DEF Ledger, Collected, InCommand
<1>4. CASE RunBuiltin
  <2>1. PICK kind \in {"builtin", "reset"} : Take(kind)
    BY <1>4 DEF RunBuiltin
  <2>2. /\ pc' = "lastLine" /\ UNCHANGED <<lines, evs, ev>>
        /\ OpenResponse(NoCapture, This + 1) /\ NoCapture \in Capture
    BY <1>4, CaptureReset DEF RunBuiltin, OpenResponse, ExtraReset, CaptureOK
  <2>3. kind \in Kinds
    BY DEF Kinds
  <2>4. /\ This' = This + 1 /\ This' > 0
        /\ reqs'[This'].kind = kind /\ reqs'[This'].asked = <<>>
        /\ reqs'[This'].need = 0 /\ ~reqs'[This'].failed
    BY <2>1, <2>3, Taken
  <2>5. /\ About(cur', Cmd(This + 1))
        /\ cur' = <<Sentinel, Cmd(This + 1)>> \o (Replay(NoCapture) \o <<Ret>>)
    BY <1>1, <2>2, RespondedAbout
  <2>6. LinesAbout' /\ Answers' /\ Tellings' /\ Dated'
    BY <2>1, <2>2, <2>3, <2>5, LedgerTaken
  <2>7. Replay(NoCapture) = <<>> /\ Fits(reqs'[This'])
    <3>1. Replay(NoCapture) = <<>>
      BY DEF Replay, NoCapture
    <3>2. Len(<<>>) = 0
      BY EmptySeq
    <3> QED
      BY <2>4, <3>1, <3>2, BoundsAssumption DEF Fits
  <2>8. cur' = AnswerTo(This', reqs'[This'])
    BY <2>4, <2>5, <2>7, FieldTokensEmpty DEF AnswerTo
  <2>9. OpenAbout'
    BY <2>2, <2>4, <2>5, <2>8 DEF OpenAbout
  <2> QED
    BY <2>2, <2>6, <2>9 DEF Ledger, Collected, InCommand
<1>5. CASE StartBody
  <2>1. /\ Take("fn") /\ "fn" \in Kinds /\ pc' = "body"
        /\ UNCHANGED <<lines, evs, ev>> /\ cmdActive' = This + 1
        /\ cap' = ExtraBegin(NoCapture)
    BY <1>5 DEF StartBody, Kinds, ExtraReset
  <2>2. /\ This' = This + 1 /\ This' > 0
        /\ reqs'[This'].kind = "fn" /\ reqs'[This'].asked = <<>>
        /\ reqs'[This'].need = 0 /\ ~reqs'[This'].failed
    BY <2>1, Taken
  <2>3. LinesAbout' /\ Answers' /\ Tellings' /\ Dated'
    BY <2>1, LedgerTaken
  <2>4. cap'.used /\ ~cap'.truncated /\ cap'.fields = <<>> /\ cap'.bytes = 0
    BY <2>1 DEF ExtraBegin, NoCapture
  <2>5. Collected'
    BY <2>1, <2>2, <2>4 DEF Collected, Holds
  <2> QED
    BY <2>1, <2>3, <2>5 DEF Ledger, OpenAbout
<1> QED
  BY <1>2, <1>3, <1>4, <1>5
\* A new event: it is being told, and belongs to a request already taken.
LEMMA LedgerNewEvent ==
    ASSUME TypeOK, Ledger, NEW req \in 0 .. This, NewEvent(req), ev' = Len(evs'),
           cur = <<>>, NEW c, OpenLine(c, <<Event(ev')>>), UNCHANGED reqs,
           \/ pc = "run" /\ pc' = "flushLine"
           \/ pc = "body" /\ pc' = "eventLine"
    PROVE  LinesAbout' /\ Answers' /\ Tellings' /\ Dated' /\ OpenEvent(req)'
<1> DEFINE new == [req |-> req, pairs |-> <<>>]
<1>1. /\ This \in Nat /\ This' = This /\ Len(evs) \in Nat /\ ev \in Nat
      /\ lines' = lines
  BY Histories DEF This, OpenLine
<1>2. new \in Events /\ new.req = req /\ new.pairs = <<>>
  <2>1. <<>> \in Seq(Fields) /\ req \in 0 .. MaxReqs
    BY <1>1, EmptySeq, BoundsAssumption DEF TypeOK, This
  <2> QED
    BY <2>1 DEF Events
<1>3. evs' = Append(evs, new) /\ evs \in Seq(Events)
  BY DEF NewEvent, TypeOK, Events
<1> HIDE DEF new
<1>4. /\ ev' = Len(evs) + 1 /\ Len(evs') = Len(evs) + 1
      /\ \A e \in 1 .. Len(evs) : evs'[e] = evs[e]
      /\ evs'[ev'].req = req /\ evs'[ev'].pairs = <<>>
  BY <1>1, <1>2, <1>3, AppendProperties
<1>5. /\ ev' \in Nat /\ Event(ev') \in Subjects /\ About(cur', Event(ev'))
      /\ cur' = <<Sentinel, Event(ev')>> \o <<>>
  <2>1. ev' \in Nat
    BY <1>1, <1>4
  <2>2. Event(ev') \in Subjects
    BY <2>1, TokenSorts
  <2> QED
    BY <2>1, <2>2, OpenedAbout
<1>6. OpenEvent(req)'
  BY <1>1, <1>4, <1>5, FieldTokensEmpty DEF OpenEvent, EventLine
<1>7. ASSUME NEW i \in Nat PROVE Done(i)' <=> Done(i)
  BY <1>1 DEF Done, Finished
<1>8. ASSUME NEW e \in Nat PROVE /\ Told(e)' <=> Told(e)
                                 /\ Told(e) => evs'[e] = evs[e]
  <2>1. ~Telling(e)
    BY DEF Telling, NoLineOpen
  <2>2. Telling(e)' <=> e = ev'
    <3>1. Telling(e)' <=> About(cur', Event(e))
      BY DEF Telling, NoLineOpen
    <3>2. About(cur', Event(e)) <=> Event(e) = Event(ev')
      BY <1>5 DEF About
    <3> QED
      BY <3>1, <3>2, <1>5, SubjectsDiffer
  <2> QED
    BY <1>1, <1>4, <2>1, <2>2 DEF Told
<1>9. Dated'
  BY <1>1, <1>4 DEF Ledger, Dated
<1> QED
  BY <1>1, <1>6, <1>7, <1>8, <1>9, LedgerStill

LEMMA LedgerPump ==
    ASSUME TypeOK, Framing, Ledger,
           Announce \/ FlushEvent \/ ResetReboots \/ ResetReturns
    PROVE  Ledger'
<1>1. CASE FlushEvent
  <2>1. /\ pc = "run" /\ pc' = "flushLine" /\ NewEvent(0) /\ ev' = Len(evs')
        /\ OpenLine(cap, <<Event(ev')>>) /\ UNCHANGED reqs
        /\ cur = <<>> /\ 0 \in 0 .. This
    BY <1>1, Histories DEF FlushEvent, Framing, NoLineOpen
  <2>2. LinesAbout' /\ Answers' /\ Tellings' /\ Dated' /\ OpenEvent(0)'
    BY <2>1, LedgerNewEvent
  <2>3. ~cap'.active
    BY <2>1 DEF OpenLine, Suspended, TypeOK, Capture
  <2> QED
    BY <2>1, <2>2, <2>3 DEF Ledger, Collected, InCommand, OpenAbout
<1>2. CASE Announce \/ ResetReboots \/ ResetReturns
  <2>1. /\ pc \in {"boot", "reset"} /\ pc' \in {"readyLine", "boot", "run"}
        /\ pc' = "readyLine" => About(cur', Ready)
        /\ UNCHANGED <<lines, reqs, evs, ev>>
    <3>1. CASE Announce
      <4>1. cur = <<>> /\ OpenLine(cap, <<Ready>>) /\ Ready \in Subjects
        BY <3>1, 0 \in Nat, TokenSorts DEF Announce, Framing, NoLineOpen
      <4>2. About(cur', Ready)
        BY <4>1, OpenedAbout
      <4> QED
        BY <3>1, <4>2 DEF Announce, OpenLine
    <3> QED
      BY <1>2, <3>1 DEF ResetReboots, ResetReturns
  <2>2. \A i \in Nat : Done(i)' <=> Done(i)
    BY <2>1 DEF Done, Finished, This
  <2>3. ASSUME NEW e \in Nat PROVE Told(e)' <=> Told(e)
    <3>1. ~Telling(e)
      BY <2>1 DEF Telling, NoLineOpen
    <3>2. ~Telling(e)'
      BY <2>1, SubjectsDiffer DEF Telling, NoLineOpen, About
    <3> QED
      BY <2>1, <3>1, <3>2 DEF Told
  <2>4. LinesAbout' /\ Answers' /\ Tellings'
    <3>1. This' = This
      BY <2>1 DEF This
    <3> QED
      BY <2>1, <2>2, <2>3, <3>1, LedgerStill
  <2>5. Dated'
    BY <2>1 DEF Ledger, Dated, This
  <2> QED
    BY <2>1, <2>4, <2>5 DEF Ledger, Collected, InCommand, OpenAbout
<1> QED
  BY <1>1, <1>2

\* What a library call does to the capture, outside Emit.
LEMMA CaptureTouched ==
    ASSUME NEW c \in Capture, NEW r
    PROVE  /\ Suspended(c).used = c.used /\ ~Suspended(c).active
           /\ Holds(Suspended(c), r) <=> Holds(c, r)
           /\ Rearmed(c).used = c.used
           /\ Holds(Rearmed(c), r) <=> Holds(c, r)
BY DEF Suspended, Rearmed, Capture, Holds

\* The request a body belongs to changes; nothing was said about it yet.
LEMMA LedgerUnfinished ==
    ASSUME TypeOK, Ledger, UNCHANGED <<lines, evs>>, pc = "body", This' = This,
           \A i \in 1 .. This : i # This => reqs'[i] = reqs[i],
           pc' \in {"body", "logLine", "lastLine"},
           pc' = "logLine" => About(cur', Log),
           pc' = "lastLine" => About(cur', Cmd(This))
    PROVE  LinesAbout' /\ Answers' /\ Tellings' /\ Dated'
<1>1. This \in Nat
  BY Histories
<1>2. ASSUME NEW i \in Nat PROVE /\ Done(i)' <=> Done(i)
                                 /\ Done(i) => reqs'[i] = reqs[i]
  BY <1>1 DEF Done, Finished
<1>3. ASSUME NEW e \in Nat PROVE Told(e)' <=> Told(e)
  <2>1. ~Telling(e)
    BY DEF Telling, NoLineOpen
  <2>2. ~Telling(e)'
    BY <1>1, SubjectsDiffer DEF Telling, NoLineOpen, About
  <2> QED
    BY <2>1, <2>2 DEF Told
<1>4. Dated'
  BY DEF Ledger, Dated
<1> QED
  BY <1>2, <1>3, <1>4, LedgerStill

LEMMA LedgerEmit ==
    ASSUME TypeOK, Framing, Ledger, NEW f \in Fields, BodyEmit(f)
    PROVE  Ledger'
<1>1. /\ pc = "body" /\ pc' = "body" /\ cap.active
      /\ UNCHANGED <<evs, ev, cmdActive>>
      /\ This \in Nat /\ DOMAIN reqs = 1 .. This /\ This > 0
      /\ reqs[This] \in Request /\ CaptureOK(cap)
  BY Histories, TypeParts
     DEF BodyEmit, Framing, Ledger, Collected, InCommand, OutputOK
<1>2. cap' = Stored(cap, f) /\ UNCHANGED <<cur, lines>>
  BY <1>1 DEF BodyEmit, Emit
<1>3. /\ This' = This
      /\ \A i \in 1 .. This : i # This => reqs'[i] = reqs[i]
      /\ reqs'[This].asked = Append(reqs[This].asked, f)
      /\ reqs'[This].need = reqs[This].need + NameBytes[f] + ValueBytes[f]
      /\ reqs'[This].kind = reqs[This].kind /\ reqs'[This].failed = reqs[This].failed
  <2>1. TypeOK'
    BY TypeBody DEF Body
  <2>2. DOMAIN reqs' = DOMAIN reqs
    BY DEF BodyEmit
  <2>3. This' \in Nat /\ DOMAIN reqs' = 1 .. This'
    BY <2>1, LenProperties DEF TypeOK, This
  <2>4. This' = This
    BY <1>1, <2>2, <2>3
  <2>5. reqs' = [reqs EXCEPT ![This] = [reqs[This] EXCEPT
                     !.asked = Append(@, f),
                     !.need = @ + NameBytes[f] + ValueBytes[f]]]
    BY <1>1 DEF BodyEmit
  <2> QED
    BY <1>1, <2>4, <2>5 DEF Request
<1>4. LinesAbout' /\ Answers' /\ Tellings' /\ Dated'
  BY <1>1, <1>2, <1>3, LedgerUnfinished
<1>5. Holds(cap', reqs'[This]) /\ cap'.used
  <2>1. Holds(cap, reqs[This]) /\ cap.used
    BY <1>1 DEF Ledger, Collected, InCommand
  <2> QED
    BY <1>1, <1>2, <1>3, <2>1, StoredHolds
<1>6. Collected'
  BY <1>1, <1>3, <1>5 DEF Ledger, Collected, InCommand
<1> QED
  BY <1>1, <1>4, <1>6 DEF Ledger, OpenAbout
LEMMA LedgerBodyLines ==
    ASSUME TypeOK, Framing, Ledger, BodyEvent \/ BodyLog \/ BodyAssert \/ BodyReturn
    PROVE  Ledger'
<1>1. /\ pc = "body" /\ cur = <<>> /\ cap \in Capture /\ CaptureOK(cap)
      /\ This \in Nat /\ DOMAIN reqs = 1 .. This /\ This > 0
      /\ reqs[This] \in Request
      /\ reqs[This].kind = "fn" /\ ~reqs[This].failed /\ cmdActive = This
      /\ cap.used /\ Holds(cap, reqs[This])
  BY Histories, TypeParts
     DEF BodyEvent, BodyLog, BodyAssert, BodyReturn, Framing, NoLineOpen, Ledger,
         Collected, InCommand, OutputOK, CaptureOK
<1>2. CASE BodyEvent
  <2>1. /\ pc' = "eventLine" /\ NewEvent(This) /\ ev' = Len(evs')
        /\ OpenLine(cap, <<Event(ev')>>) /\ UNCHANGED <<reqs, cmdActive>>
        /\ This \in 0 .. This /\ cap' = Suspended(cap)
    BY <1>1, <1>2 DEF BodyEvent, OpenLine
  <2>2. /\ LinesAbout' /\ Answers' /\ Tellings' /\ Dated'
        /\ \A n : n = This => OpenEvent(n)'
    BY <1>1, <2>1, LedgerNewEvent
  <2>3. This' = This
    BY <2>1 DEF This
  <2>4. OpenEvent(This)'
    BY <2>2, <2>3 DEF OpenEvent
  <2>5. Collected'
    BY <1>1, <2>1, <2>3, CaptureTouched DEF Collected, InCommand
  <2> QED
    BY <2>1, <2>2, <2>4, <2>5 DEF Ledger, OpenAbout
<1>3. CASE BodyLog
  <2>1. /\ pc' = "logLine" /\ OpenLine(cap, <<Log>>) /\ cap' = Suspended(cap)
        /\ UNCHANGED <<lines, reqs, evs, cmdActive>> /\ This' = This
    BY <1>3 DEF BodyLog, OpenLine, This
  <2>2. About(cur', Log)
    BY <1>1, <2>1, 0 \in Nat, TokenSorts, OpenedAbout
  <2>3. LinesAbout' /\ Answers' /\ Tellings' /\ Dated'
    BY <1>1, <2>1, <2>2, LedgerUnfinished
  <2>4. Collected'
    BY <1>1, <2>1, CaptureTouched DEF Collected, InCommand
  <2> QED
    BY <2>1, <2>2, <2>3, <2>4 DEF Ledger, OpenAbout
<1>4. CASE BodyAssert
  <2>1. /\ pc' = "lastLine" /\ OpenLine(cap, <<Cmd(This), Error>>)
        /\ UNCHANGED <<lines, evs>>
        /\ reqs' = [reqs EXCEPT ![This].failed = TRUE]
    BY <1>1, <1>4 DEF BodyAssert, OpenLine
  <2>2. About(cur', Cmd(This)) /\ cur' = <<Sentinel, Cmd(This)>> \o <<Error>>
    BY <1>1, <2>1, TokenSorts, OpenedAbout
  <2>3. /\ \A i \in 1 .. This : i # This => reqs'[i] = reqs[i]
        /\ reqs'[This].failed /\ reqs'[This].kind = "fn"
    BY <1>1, <2>1 DEF Request
  <2>4. This' = This
    <3>1. TypeOK'
      BY <1>4, TypeBody DEF Body
    <3>2. This' \in Nat /\ DOMAIN reqs' = 1 .. This' /\ DOMAIN reqs' = DOMAIN reqs
      BY <2>1, <3>1, LenProperties DEF TypeOK, This
    <3> QED
      BY <1>1, <3>2
  <2>5. LinesAbout' /\ Answers' /\ Tellings' /\ Dated'
    BY <1>1, <2>1, <2>2, <2>3, <2>4, LedgerUnfinished
  <2>6. cur' = AnswerTo(This', reqs'[This'])
    BY <2>2, <2>3, <2>4 DEF AnswerTo
  <2>7. OpenAbout'
    BY <1>1, <2>1, <2>2, <2>3, <2>4, <2>6 DEF OpenAbout
  <2> QED
    BY <2>1, <2>5, <2>7 DEF Ledger, Collected, InCommand
<1>5. CASE BodyReturn
  <2>1. /\ pc' = "lastLine" /\ OpenResponse(ExtraEnd(cap), This)
        /\ UNCHANGED <<lines, evs, reqs>> /\ This' = This
    BY <1>5 DEF BodyReturn, OpenResponse, This
  <2>2. /\ ExtraEnd(cap) \in Capture
        /\ Replay(ExtraEnd(cap)) = IF Fits(reqs[This]) THEN FieldTokens(reqs[This].asked)
                                                       ELSE <<Overflow>>
    BY <1>1, ReplayedIsAsked
  <2>3. /\ About(cur', Cmd(This))
        /\ cur' = <<Sentinel, Cmd(This)>> \o (Replay(ExtraEnd(cap)) \o <<Ret>>)
    BY <1>1, <2>1, <2>2, RespondedAbout
  <2>4. LinesAbout' /\ Answers' /\ Tellings' /\ Dated'
    BY <1>1, <2>1, <2>3, LedgerUnfinished
  <2>5. cur' = AnswerTo(This, reqs[This])
    BY <1>1, <2>2, <2>3 DEF AnswerTo
  <2>6. OpenAbout'
    BY <1>1, <2>1, <2>3, <2>5 DEF OpenAbout
  <2> QED
    BY <2>1, <2>4, <2>6 DEF Ledger, Collected, InCommand
<1> QED
  BY <1>2, <1>3, <1>4, <1>5

\* A pair on the line of an event, which the capture does not get.
LEMMA LedgerPair ==
    ASSUME TypeOK, Framing, Ledger, pc \in {"flushLine", "eventLine"},
           NEW f \in Fields, Pair(f)
    PROVE  Ledger'
<1>0. PICK req : req = IF pc = "flushLine" THEN 0 ELSE This
  OBVIOUS
<1>1. /\ pc' = pc /\ UNCHANGED <<ev, reqs, cmdActive>>
      /\ This' = This /\ This \in Nat
      /\ ev > 0 /\ ev \in 1 .. Len(evs) /\ Len(evs) \in Nat /\ DOMAIN evs = 1 .. Len(evs)
      /\ evs[ev].req = req /\ evs[ev].pairs \in Seq(Fields)
      /\ About(cur, Event(ev)) /\ cur = EventLine(ev) /\ ~cap.active
  <2>1. OpenEvent(req) /\ ~cap.active
    BY <1>0 DEF Ledger, OpenAbout, Collected, InCommand
  <2>2. pc' = pc /\ UNCHANGED <<ev, reqs, cmdActive>>
    BY DEF Pair
  <2>3. This' = This
    BY <2>2 DEF This
  <2> QED
    BY <2>1, <2>2, <2>3, Histories DEF OpenEvent
<1>2. UNCHANGED <<cap, lines>> /\ cur' = Append(cur, Field(f))
  BY <1>1 DEF Pair, Emit
<1>3. /\ Len(evs') = Len(evs)
      /\ \A e \in 1 .. Len(evs) : e # ev => evs'[e] = evs[e]
      /\ evs'[ev].req = evs[ev].req
      /\ evs'[ev].pairs = Append(evs[ev].pairs, f)
  <2>1. TypeOK'
    BY TypePair
  <2>2. evs' = [evs EXCEPT ![ev].pairs = Append(@, f)]
    BY DEF Pair, AddPair
  <2>3. evs[ev] \in Events
    BY <1>1, ElementOfSeq DEF TypeOK, Events
  <2>4. Len(evs') \in Nat /\ DOMAIN evs' = 1 .. Len(evs') /\ DOMAIN evs' = DOMAIN evs
    BY <2>1, <2>2, LenProperties DEF TypeOK
  <2> QED
    BY <1>1, <2>2, <2>3, <2>4 DEF Events
<1>4. About(cur', Event(ev)) /\ cur' = <<Sentinel, Event(ev)>> \o FieldTokens(evs'[ev].pairs)
  <2>1. ev \in Nat
    BY <1>1
  <2> DEFINE q == evs[ev].pairs
  <2>2. cur = <<Sentinel, Event(ev)>> \o FieldTokens(q)
    BY <1>1 DEF EventLine
  <2>3. q \in Seq(Fields) /\ evs'[ev].pairs = Append(q, f)
    BY <1>1, <1>3
  <2>4. /\ Append(cur, Field(f)) = <<Sentinel, Event(ev)>> \o FieldTokens(Append(q, f))
        /\ About(<<Sentinel, Event(ev)>> \o FieldTokens(Append(q, f)), Event(ev))
    <3> HIDE DEF q
    <3> QED
      BY <2>1, <2>2, <2>3, EventLineAppend
  <2> QED
    BY <1>2, <2>3, <2>4
<1>5. OpenEvent(req)'
  BY <1>1, <1>3, <1>4 DEF OpenEvent, EventLine
<1>6. ASSUME NEW i \in Nat PROVE Done(i)' <=> Done(i)
  BY <1>1 DEF Done, Finished
<1>7. ASSUME NEW e \in Nat PROVE /\ Told(e)' <=> Told(e)
                                 /\ Told(e) => evs'[e] = evs[e]
  <2>1. Telling(e) <=> e = ev
    BY <1>1, SubjectsDiffer DEF Telling, NoLineOpen, About
  <2>2. Telling(e)' <=> e = ev
    BY <1>1, <1>4, SubjectsDiffer DEF Telling, NoLineOpen, About
  <2> QED
    BY <1>3, <2>1, <2>2 DEF Told
<1>8. LinesAbout' /\ Answers' /\ Tellings'
  BY <1>1, <1>2, <1>6, <1>7, LedgerStill
<1>9. Dated'
  BY <1>1, <1>3 DEF Ledger, Dated
<1>10. Collected'
  BY <1>1, <1>2 DEF Ledger, Collected, InCommand
<1>11. OpenAbout'
  BY <1>0, <1>1, <1>2, <1>5 DEF OpenAbout, OpenEvent
<1> QED
  BY <1>8, <1>9, <1>10, <1>11 DEF Ledger

\* The end of a line: of the one about a request, an event, or neither.
LEMMA LedgerClose ==
    ASSUME TypeOK, Framing, Ledger, CloseLine
    PROVE  Ledger'
<1>0. PICK last : last = Len(lines) + 1
  OBVIOUS
<1>1. /\ EndLine /\ UNCHANGED <<cmdActive, ev, reqs, evs>> /\ This' = This
      /\ pc \in {"readyLine", "flushLine", "eventLine", "logLine", "lastLine"}
      /\ pc \in {"readyLine", "flushLine"} => pc' = "run"
      /\ pc \in {"eventLine", "logLine"} => pc' = "body"
      /\ pc = "lastLine" => pc' \in {"run", "reset"}
      /\ cap \in Capture /\ cap' = Rearmed(cap)
  BY DEF CloseLine, EndLine, This, TypeOK
<1>2. /\ This \in Nat /\ ev \in Nat /\ Len(evs) \in Nat
      /\ Len(lines) \in Nat /\ DOMAIN lines = 1 .. Len(lines)
      /\ \A e \in 1 .. Len(evs) : evs[e].req \in Nat
  BY Histories
<1>3. PICK subject \in Subjects : About(cur, subject)
  BY <1>1, <1>2, TokenSorts DEF Ledger, OpenAbout, OpenEvent
<1>4. /\ LinesAbout'
      /\ DOMAIN lines' = 1 .. last
      /\ \A k \in 1 .. Len(lines) : lines'[k] = lines[k]
      /\ lines'[last] = cur
      /\ \A token \in Subjects :
             LinesWith(token)' = IF token = subject
                                 THEN LinesWith(token) \union {last}
                                 ELSE LinesWith(token)
  BY <1>0, <1>1, <1>3, LineEnded DEF Ledger
<1>5. \A token : \A k \in LinesWith(token) : k \in 1 .. Len(lines)
  BY <1>2 DEF LinesWith
<1>6. \A i \in Nat : Cmd(i) \in Subjects /\ Event(i) \in Subjects
  BY TokenSorts
<1>7. /\ pc = "readyLine" => subject = Ready
      /\ pc = "flushLine" => subject = Event(ev) /\ OpenEvent(0)
      /\ pc = "eventLine" => subject = Event(ev) /\ OpenEvent(This)
      /\ pc = "logLine"   => subject = Log
      /\ pc = "lastLine"  => subject = Cmd(This)
  BY <1>3 DEF Ledger, OpenAbout, OpenEvent, About
<1>8. Collected'
  <2>1. CASE pc \in {"eventLine", "logLine"}
    BY <1>1, <2>1, CaptureTouched DEF Ledger, Collected, InCommand
  <2>2. CASE pc \in {"readyLine", "flushLine", "lastLine"}
    BY <1>1, <2>2 DEF Collected, InCommand
  <2> QED
    BY <1>1, <2>1, <2>2
<1>9. OpenAbout'
  BY <1>1 DEF OpenAbout
<1>10. Dated'
  BY <1>1 DEF Ledger, Dated
\* The one request that this line may answer, and the others.
<1>11. ASSUME NEW i \in Nat
       PROVE  (IF Done(i) THEN AnswerWritten(i) ELSE LinesWith(Cmd(i)) = {})'
  <2>1. Cmd(i) = subject <=> pc = "lastLine" /\ i = This
    BY <1>1, <1>2, <1>7, SubjectsDiffer
  <2>2. CASE pc = "lastLine" /\ i = This
    <3>1. LinesWith(Cmd(i)) = {}
      BY <2>2 DEF Ledger, Answers, Done, Finished
    <3>2. LinesWith(Cmd(i))' = {last}
      BY <1>4, <1>6, <2>1, <2>2, <3>1
    <3>3. lines'[last] = AnswerTo(i, reqs'[i]) /\ Done(i)'
      BY <1>1, <1>2, <1>4, <2>2 DEF Ledger, OpenAbout, Done, Finished
    <3> QED
      BY <1>0, <1>2, <1>4, <3>2, <3>3 DEF AnswerWritten
  <2>3. CASE ~(pc = "lastLine" /\ i = This)
    <3>1. Done(i)' <=> Done(i)
      BY <1>1, <1>2, <2>3 DEF Done, Finished
    <3>2. LinesWith(Cmd(i))' = LinesWith(Cmd(i))
      BY <1>4, <1>6, <2>1, <2>3
    <3>3. CASE Done(i)
      <4>1. PICK k \in DOMAIN lines : /\ LinesWith(Cmd(i)) = {k}
                                      /\ lines[k] = AnswerTo(i, reqs[i])
        BY <3>3 DEF Ledger, Answers, AnswerWritten
      <4>2. k \in DOMAIN lines' /\ lines'[k] = AnswerTo(i, reqs'[i])
        BY <1>0, <1>1, <1>2, <1>4, <4>1
      <4> QED
        BY <3>1, <3>2, <3>3, <4>1, <4>2 DEF AnswerWritten
    <3>4. CASE ~Done(i)
      BY <3>1, <3>2, <3>4 DEF Ledger, Answers
    <3> QED
      BY <3>3, <3>4
  <2> QED
    BY <2>2, <2>3
\* Where answers and events stand to each other.
<1>12. ASSUME NEW e \in 1 .. Len(evs), NEW k \in 1 .. Len(lines), InOrder(e, k)
       PROVE  InOrder(e, k)'
  <2>1. ASSUME NEW i \in 1 .. This', NEW a \in LinesWith(Cmd(i))', evs'[e].req # 0
        PROVE  a < k <=> i < evs'[e].req
    <3>1. i \in 1 .. This /\ i \in Nat /\ evs'[e].req = evs[e].req
      BY <1>1, <1>2
    <3>2. CASE a \in LinesWith(Cmd(i))
      BY <3>1, <3>2, <1>12, <2>1 DEF InOrder
    <3>3. CASE a \notin LinesWith(Cmd(i))
      <4>1. a = last /\ Cmd(i) = subject
        BY <1>4, <1>6, <2>1, <3>1, <3>3
      <4>2. i = This
        BY <1>1, <1>2, <1>7, <3>1, <4>1, SubjectsDiffer
      <4>3. evs[e].req <= This /\ evs[e].req \in Nat
        BY <1>2 DEF Ledger, Dated
      <4> QED
        BY <1>0, <1>2, <3>1, <4>1, <4>2, <4>3
    <3> QED
      BY <3>2, <3>3
  <2> QED
    BY <2>1 DEF InOrder
\* The one event that this line may tell, and the others.
<1>13. ASSUME NEW e \in Nat
       PROVE  (IF Told(e) THEN EventWritten(e) ELSE LinesWith(Event(e)) = {})'
  <2>1. /\ Event(e) = subject <=> Telling(e)
        /\ ~Telling(e)'
    <3>1. Event(e) = subject <=> Telling(e)
      BY <1>1, <1>3 DEF Telling, NoLineOpen, About
    <3>2. pc' \in {"run", "body", "reset"}
      BY <1>1
    <3> QED
      BY <3>1, <3>2 DEF Telling, NoLineOpen
  <2>2. CASE Telling(e)
    <3>1. /\ LinesWith(Event(e)) = {}
          /\ LinesWith(Event(e))' = {last}
      BY <1>4, <1>6, <2>1, <2>2 DEF Ledger, Tellings, Told
    <3>2. /\ e = ev
          /\ \/ pc = "flushLine" /\ OpenEvent(0)
             \/ pc = "eventLine" /\ OpenEvent(This)
      BY <1>1, <1>2, <1>7, <2>1, <2>2, SubjectsDiffer
    <3>3. e \in 1 .. Len(evs) /\ Told(e)'
      BY <1>1, <1>2, <2>1, <3>2, Histories DEF OpenEvent, Told
    <3>4. lines'[last] = EventLine(e)'
      BY <1>1, <1>4, <3>2 DEF OpenEvent, EventLine
    <3>5. InOrder(e, last)'
      <4>1. ASSUME NEW i \in 1 .. This', NEW a \in LinesWith(Cmd(i))', evs'[e].req # 0
            PROVE  a < last <=> i < evs'[e].req
        <5>1. i \in 1 .. This /\ i \in Nat /\ evs'[e].req = This
              /\ pc = "eventLine"
          BY <1>1, <1>2, <3>2, <4>1 DEF OpenEvent
        <5>2. a \in LinesWith(Cmd(i))
          BY <1>4, <1>6, <1>7, <2>1, <2>2, <4>1, <5>1, SubjectsDiffer
        <5>3. a < last
          BY <1>0, <1>2, <1>5, <5>2
        <5>4. i < This
          BY <1>2, <5>1, <5>2 DEF Ledger, Answers, Done, Finished
        <5> QED
          BY <5>1, <5>3, <5>4
      <4> QED
        BY <4>1 DEF InOrder
    <3> QED
      BY <1>0, <1>2, <1>4, <3>1, <3>3, <3>4, <3>5 DEF EventWritten
  <2>3. CASE ~Telling(e)
    <3>1. LinesWith(Event(e))' = LinesWith(Event(e)) /\ (Told(e)' <=> Told(e))
      BY <1>1, <1>4, <1>6, <2>1, <2>3 DEF Told
    <3>2. CASE Told(e)
      <4>1. PICK k \in DOMAIN lines : /\ LinesWith(Event(e)) = {k}
                                      /\ lines[k] = EventLine(e)
                                      /\ InOrder(e, k)
        BY <3>2 DEF Ledger, Tellings, EventWritten
      <4>2. InOrder(e, k)'
        BY <1>2, <1>12, <3>2, <4>1 DEF Told
      <4>3. k \in DOMAIN lines' /\ lines'[k] = EventLine(e)'
        BY <1>0, <1>1, <1>2, <1>4, <4>1, SMTT(30) DEF EventLine
      <4> QED
        BY <3>1, <3>2, <4>1, <4>2, <4>3 DEF EventWritten
    <3>3. CASE ~Told(e)
      BY <3>1, <3>3 DEF Ledger, Tellings
    <3> QED
      BY <3>2, <3>3
  <2> QED
    BY <2>2, <2>3
<1> QED
  BY <1>4, <1>8, <1>9, <1>10, <1>11, <1>13 DEF Ledger, Answers, Tellings

LEMMA LedgerInductive == TypeOK /\ Framing /\ Ledger /\ [Next]_vars => Ledger'
<1> SUFFICES ASSUME TypeOK, Framing, Ledger, [Next]_vars PROVE Ledger'
  OBVIOUS
<1>1. CASE UNCHANGED vars
  <2>1. UNCHANGED <<lines, reqs, evs, ev, pc, cur, cap, cmdActive>>
    BY <1>1 DEF vars
  <2>2. This' = This
    BY <2>1 DEF This
  <2>3. LinesAbout' /\ Answers' /\ Tellings'
    BY <2>1, <2>2, LedgerStill DEF Done, Finished, Told, Telling, NoLineOpen
  <2> QED
    BY <2>1, <2>2, <2>3 DEF Ledger, Collected, InCommand, OpenAbout, OpenEvent,
                            EventLine, Dated
<1>2. CASE Body
  BY <1>2, LedgerEmit, LedgerPair, LedgerBodyLines DEF Body, EventPair
<1>3. CASE Flush
  BY <1>3, FlushedPair, LedgerPair, LedgerPump DEF Flush
<1> QED
  BY <1>1, <1>2, <1>3, LedgerRequest, LedgerPump, LedgerClose DEF Next

LEMMA LedgerAlways == Spec => [](TypeOK /\ Ledger)
<1>1. Init => TypeOK /\ Framing /\ Ledger
  BY TypeInitial, FramingInitial, LedgerInitial
<1>2. TypeOK /\ Framing /\ Ledger /\ [Next]_vars => TypeOK' /\ Framing' /\ Ledger'
  BY TypeInductive, FramingInductive, LedgerInductive
<1> QED
  BY <1>1, <1>2, PTL DEF Spec

(***************************************************************************)
(* Each request is answered by one line, with all the fields its own body  *)
(* emitted or the overflow mark just where they do not fit, or with an     *)
(* error: whatever earlier bodies left in the capture, whatever events and *)
(* logs a body interleaves with its fields, wherever an assertion ends it, *)
(* and for every capacity of the field array and of the arena.             *)
(***************************************************************************)
THEOREM EveryAnswerExact == Spec => []AnswersExact
BY LedgerAlways, LedgerAnswersExact, PTL

(***************************************************************************)
(* Each event line holds the pairs of its event and nothing of what the    *)
(* body was collecting, and stands between the answers that it should.     *)
(***************************************************************************)
THEOREM EveryEventIntact == Spec => []EventsIntact
BY LedgerAlways, LedgerEventsIntact, PTL
=============================================================================
