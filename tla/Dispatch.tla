------------------------------ MODULE Dispatch ------------------------------
(***************************************************************************)
(* The device side of riglink from a complete request line to the bytes of *)
(* its answer: rig_run()'s treatment of a line, rig_dispatch(), the        *)
(* trampolines, the capture of the fields a body emits before its response *)
(* line is open, and the framing of every output line.                     *)
(*                                                                         *)
(* A step is one library call.  One thread makes them all here: the pump,  *)
(* or the holder of rig_io_lock under the shell backend.  DispatchShared   *)
(* adds the calls that break this.                                         *)
(*                                                                         *)
(* The transport is a sequence of tokens cut into lines at each newline: a *)
(* token is a sentinel or a JSON member.  jcon, which produces the JSON,   *)
(* keeps one global session; its text is abstracted to the members.        *)
(*                                                                         *)
(* A request is known by its number: it stands for the command name that   *)
(* an answer repeats in "cmd" ("?" for a line whose name did not parse).   *)
(***************************************************************************)
EXTENDS Integers, Sequences

CONSTANTS
    Fields,      \* fields a body or an event may emit, a set of numbers
    Dropped,     \* the field of them that is named "_dropped"
    NameBytes,   \* arena bytes of a field's name, with its NUL
    ValueBytes,  \* arena bytes of its value: 0 unless it is a string
    FieldsMax,   \* RIG_EXTRA_FIELDS_MAX
    ArenaCap,    \* RIG_EXTRA_FIELDS_CAP
    MaxReqs,     \* bound: request lines received
    MaxCalls,    \* bound: library calls of one command body, pairs of one
                 \* flushed record (RIG_EVT_MAX_PAIRS and _dropped)
    MaxEvents    \* bound: event lines opened

ASSUME FieldsAssumption == /\ Fields \subseteq Nat
                           /\ Dropped \in Fields
                           /\ NameBytes \in [Fields -> Nat \ {0}]
                           /\ ValueBytes \in [Fields -> Nat]
ASSUME BoundsAssumption == /\ FieldsMax \in Nat
                           /\ ArenaCap \in Nat
                           /\ MaxReqs \in Nat
                           /\ MaxCalls \in Nat
                           /\ MaxEvents \in Nat

VARIABLES
    cap,         \* the statics of the capture, see Capture below
    cmdActive,   \* rig__cmd_active: the command RIG_ASSERT blames, 0 for NULL
    cur,         \* tokens written since the last newline
    lines,       \* lines completed so far
    pc,          \* where the pump is
    calls,       \* library calls made by the current body
    ev,          \* the event whose line the pump has open
    reqs,        \* history: per request, what it was and what it asked for
    evs          \* history: per event, the request it came from and its pairs

vars == <<cap, cmdActive, cur, lines, pc, calls, ev, reqs, evs>>

-----------------------------------------------------------------------------
(* Tokens.                                                                 *)

Token == [t : {"sentinel", "cmd", "event", "field", "log", "ready", "ret", "error",
               "_emit_overflow"},
          n : Nat]

Tok(t, n) == [t |-> t, n |-> n]

Sentinel == Tok("sentinel", 0)
Cmd(i)   == Tok("cmd", i)
Event(e) == Tok("event", e)
Field(f) == Tok("field", f)
Log      == Tok("log", 0)
Ready    == Tok("ready", 0)
Ret      == Tok("ret", 0)
Error    == Tok("error", 0)
Overflow == Tok("_emit_overflow", 0)

Kinds == {"blank", "overflow", "syntax", "unknown", "badargs",
          "builtin", "reset", "fn"}

FieldTokens(s) == [k \in DOMAIN s |-> Field(s[k])]

-----------------------------------------------------------------------------
(***************************************************************************)
(* The capture of src/riglink_io.c: each operator is the effect of one     *)
(* library call on its six statics.                                        *)
(***************************************************************************)
Capture == [fields : Seq(Fields), bytes : Nat, active : BOOLEAN,
            inBody : BOOLEAN, used : BOOLEAN, truncated : BOOLEAN]

NoCapture == [fields |-> <<>>, bytes |-> 0, active |-> FALSE,
              inBody |-> FALSE, used |-> FALSE, truncated |-> FALSE]

\* Fault: what an assertion left behind is not cleared.
ExtraResetKeeps(c) == c

ExtraReset(c) == NoCapture

ExtraBegin(c) == [NoCapture EXCEPT !.active = TRUE, !.inBody = TRUE, !.used = TRUE]

ExtraEnd(c) == [c EXCEPT !.active = FALSE, !.inBody = FALSE]

\* Fault: the field array is not guarded.
StoredUnguarded(c, f) ==
    LET nameEnd  == c.bytes + NameBytes[f]
        valueEnd == nameEnd + ValueBytes[f]
    IN  CASE c.truncated         -> c
          [] nameEnd > ArenaCap  -> [c EXCEPT !.truncated = TRUE]
          [] valueEnd > ArenaCap -> [c EXCEPT !.truncated = TRUE, !.bytes = nameEnd]
          [] OTHER -> [c EXCEPT !.fields = Append(@, f), !.bytes = valueEnd]

\* rig__extra_new(), then rig__extra_dup() of the value.  A value that does
\* not fit gives its slot back and keeps the bytes of its name.
Stored(c, f) ==
    LET nameEnd  == c.bytes + NameBytes[f]
        valueEnd == nameEnd + ValueBytes[f]
        full     == Len(c.fields) >= FieldsMax \/ nameEnd > ArenaCap
    IN  CASE c.truncated         -> c
          [] ~c.truncated /\ full -> [c EXCEPT !.truncated = TRUE]
          [] ~c.truncated /\ ~full /\ valueEnd > ArenaCap ->
                 [c EXCEPT !.truncated = TRUE, !.bytes = nameEnd]
          [] OTHER -> [c EXCEPT !.fields = Append(@, f), !.bytes = valueEnd]

\* What rig_io_resp_begin() replays, and what it leaves.
Replay(c) == IF ~c.used THEN <<>>
             ELSE IF c.truncated THEN <<Overflow>>
             ELSE FieldTokens(c.fields)

Replayed(c) == IF c.used THEN [c EXCEPT !.fields = <<>>, !.used = FALSE] ELSE c

Suspended(c) == [c EXCEPT !.active = FALSE]

Rearmed(c) == [c EXCEPT !.active = c.inBody]

-----------------------------------------------------------------------------
(* Output lines.                                                           *)

OpenLine(c, first) == /\ cap' = Suspended(c)
                      /\ cur' = cur \o <<Sentinel>> \o first
                      /\ UNCHANGED lines

\* rig_io_resp_begin() and the "ret" that follows it.
OpenResponse(c, i) == /\ cap' = Replayed(Suspended(c))
                      /\ cur' = cur \o <<Sentinel, Cmd(i)>> \o Replay(c) \o <<Ret>>
                      /\ UNCHANGED lines

\* Fault: a line that a body emits is left without its newline.
EndLineUnended == /\ cap' = Rearmed(cap)
                  /\ lines' = IF cap.inBody THEN lines ELSE Append(lines, cur)
                  /\ cur' = IF cap.inBody THEN cur ELSE <<>>

EndLine == /\ cap' = Rearmed(cap)
           /\ lines' = Append(lines, cur)
           /\ cur' = <<>>

\* A rig_emit_*() call: into the capture if it is armed, else to jcon.
Emit(f) == /\ IF cap.active
              THEN cap' = Stored(cap, f) /\ UNCHANGED cur
              ELSE cur' = Append(cur, Field(f)) /\ UNCHANGED cap
           /\ UNCHANGED lines

-----------------------------------------------------------------------------
(* History.                                                                *)

This == Len(reqs)

\* A request line is complete: its kind is what the tokenizer, the registry
\* and the trampoline's checks of arity and arguments make of it.
Take(kind) == /\ pc = "run"
              /\ This < MaxReqs
              /\ reqs' = Append(reqs, [kind |-> kind, asked |-> <<>>,
                                       need |-> 0, failed |-> FALSE])

NewEvent(req) == /\ Len(evs) < MaxEvents
                 /\ evs' = Append(evs, [req |-> req, pairs |-> <<>>])

AddPair(e, f) == evs' = [evs EXCEPT ![e].pairs = Append(@, f)]

Call == /\ calls < MaxCalls
        /\ calls' = calls + 1

-----------------------------------------------------------------------------
(* Boot: rig_init() announces the device.                                  *)

Init == /\ cap = NoCapture
        /\ cmdActive = 0
        /\ cur = <<>>
        /\ lines = <<>>
        /\ pc = "boot"
        /\ calls = 0
        /\ ev = 0
        /\ reqs = <<>>
        /\ evs = <<>>

Announce == /\ pc = "boot"
            /\ OpenLine(cap, <<Ready>>)
            /\ pc' = "readyLine"
            /\ UNCHANGED <<cmdActive, calls, ev, reqs, evs>>

\* Fault: the flush writes its line without rig_io_line_begin(): a capture that an
\* assertion has left armed takes the pairs.
FlushEventArmed == /\ pc = "run"
                   /\ NewEvent(0)
                   /\ ev' = Len(evs')
                   /\ cur' = cur \o <<Sentinel, Event(ev')>>
                   /\ calls' = 0
                   /\ pc' = "flushLine"
                   /\ UNCHANGED <<cap, lines, cmdActive, reqs>>

\* rig_io_event_flush() at the top of rig_run() finds a record.
FlushEvent == /\ pc = "run"
              /\ NewEvent(0)
              /\ ev' = Len(evs')
              /\ OpenLine(cap, <<Event(ev')>>)
              /\ calls' = 0
              /\ pc' = "flushLine"
              /\ UNCHANGED <<cmdActive, reqs>>

\* A pair of an event: a rig_emit_*() call while its line is open.
Pair(f) == /\ Call
           /\ AddPair(ev, f)
           /\ Emit(f)
           /\ UNCHANGED <<cmdActive, pc, ev, reqs>>

\* The count of the events lost before the record comes first, if any was.
FlushDropped == /\ pc = "flushLine"
                /\ evs[ev].pairs = <<>>
                /\ Pair(Dropped)

\* rig__emit_evt_pair(): what an interrupt may record is integers and truths.
FlushPair(f) == /\ pc = "flushLine"
                /\ ValueBytes[f] = 0
                /\ Pair(f)

Flush == FlushEvent \/ FlushDropped \/ \E f \in Fields : FlushPair(f)

-----------------------------------------------------------------------------
(* From a request line to its first byte of answer.                        *)

SkipBlank == /\ Take("blank")
             /\ UNCHANGED <<cap, cmdActive, cur, lines, pc, calls, ev, evs>>

\* rig_run() answers a line that overflowed or did not tokenize by itself,
\* without rig_dispatch() and its rig_io_extra_reset().
RefuseLine == /\ \E kind \in {"overflow", "syntax"} : Take(kind)
              /\ OpenLine(cap, <<Cmd(This + 1), Error>>)
              /\ pc' = "lastLine"
              /\ UNCHANGED <<cmdActive, calls, ev, evs>>

\* No such command, wrong number of arguments, or one that does not parse.
RefuseCommand == /\ \E kind \in {"unknown", "badargs"} : Take(kind)
                 /\ OpenLine(ExtraReset(cap), <<Cmd(This + 1), Error>>)
                 /\ pc' = "lastLine"
                 /\ UNCHANGED <<cmdActive, calls, ev, evs>>

\* rig.echo, rig.list, rig.reset and the accessors of RIG_EXPOSE_VAR open
\* their response themselves, with no capture.
RunBuiltin == /\ \E kind \in {"builtin", "reset"} : Take(kind)
              /\ OpenResponse(ExtraReset(cap), This + 1)
              /\ pc' = "lastLine"
              /\ UNCHANGED <<cmdActive, calls, ev, evs>>

StartBody == /\ Take("fn")
             /\ cap' = ExtraBegin(ExtraReset(cap))
             /\ cmdActive' = This + 1
             /\ calls' = 0
             /\ pc' = "body"
             /\ UNCHANGED <<cur, lines, ev, evs>>

-----------------------------------------------------------------------------
(* The body of a RIG_FN or RIG_EXPOSE command.                             *)

BodyEmit(f) == /\ pc = "body"
               /\ Call
               /\ Emit(f)
               /\ reqs' = [reqs EXCEPT ![This].asked = Append(@, f),
                                       ![This].need = @ + NameBytes[f] + ValueBytes[f]]
               /\ UNCHANGED <<cmdActive, pc, ev, evs>>

BodyEvent == /\ pc = "body"
             /\ Call
             /\ NewEvent(This)
             /\ ev' = Len(evs')
             /\ OpenLine(cap, <<Event(ev')>>)
             /\ pc' = "eventLine"
             /\ UNCHANGED <<cmdActive, reqs>>

EventPair(f) == pc = "eventLine" /\ Pair(f)

BodyLog == /\ pc = "body"
           /\ Call
           /\ OpenLine(cap, <<Log>>)
           /\ pc' = "logLine"
           /\ UNCHANGED <<cmdActive, ev, reqs, evs>>

\* RIG_ASSERT fails: an error line, and a longjmp past rig__io_extra_end().
BodyAssert == /\ pc = "body"
              /\ OpenLine(cap, <<Cmd(cmdActive), Error>>)
              /\ reqs' = [reqs EXCEPT ![This].failed = TRUE]
              /\ pc' = "lastLine"
              /\ UNCHANGED <<cmdActive, calls, ev, evs>>

BodyReturn == /\ pc = "body"
              /\ OpenResponse(ExtraEnd(cap), This)
              /\ pc' = "lastLine"
              /\ UNCHANGED <<cmdActive, calls, ev, reqs, evs>>

-----------------------------------------------------------------------------
(* The end of a line, and what comes after it.                             *)

CloseLine == /\ EndLine
             /\ \/ pc \in {"readyLine", "flushLine"} /\ pc' = "run"
                \/ pc \in {"eventLine", "logLine"} /\ pc' = "body"
                \/ /\ pc = "lastLine"
                   /\ pc' = IF reqs[This].kind = "reset" THEN "reset" ELSE "run"
             /\ UNCHANGED <<cmdActive, calls, ev, reqs, evs>>

\* rig_reset() is the application's: it reboots or it returns.
ResetReboots == /\ pc = "reset"
                /\ cap' = NoCapture
                /\ cmdActive' = 0
                /\ pc' = "boot"
                /\ UNCHANGED <<cur, lines, calls, ev, reqs, evs>>

ResetReturns == /\ pc = "reset"
                /\ pc' = "run"
                /\ UNCHANGED <<cap, cmdActive, cur, lines, calls, ev, reqs, evs>>

-----------------------------------------------------------------------------
Body == \/ \E f \in Fields : BodyEmit(f) \/ EventPair(f)
        \/ BodyEvent \/ BodyLog \/ BodyAssert \/ BodyReturn

Next == \/ Announce \/ Flush
        \/ SkipBlank \/ RefuseLine \/ RefuseCommand \/ RunBuiltin \/ StartBody
        \/ Body
        \/ CloseLine \/ ResetReboots \/ ResetReturns

Spec == Init /\ [][Next]_vars

-----------------------------------------------------------------------------
Request == [kind : Kinds, asked : Seq(Fields), need : Nat, failed : BOOLEAN]

TypeOK == /\ cap \in Capture
          /\ Len(cap.fields) <= FieldsMax
          /\ cap.bytes <= ArenaCap
          /\ cmdActive \in 0 .. MaxReqs
          /\ pc \in {"boot", "readyLine", "run", "flushLine", "body", "eventLine",
                     "logLine", "lastLine", "reset"}
          /\ calls \in 0 .. MaxCalls
          /\ ev \in 0 .. Len(evs)
          /\ reqs \in Seq(Request)
          /\ Len(reqs) <= MaxReqs
          /\ evs \in Seq([req : 0 .. MaxReqs, pairs : Seq(Fields)])
          /\ cur \in Seq(Token)
          /\ lines \in Seq(Seq(Token))

Mentions(line, token) == \E k \in DOMAIN line : line[k] = token

\* The numbers of the lines in which a token appears.
LinesWith(token) == {k \in DOMAIN lines : Mentions(lines[k], token)}

(***************************************************************************)
(* Every line the host can read starts with a sentinel and holds no other: *)
(* nothing one call emits is cut open or continued by another.             *)
(***************************************************************************)
Framed(line) == /\ line # <<>>
                /\ \A j \in DOMAIN line : line[j] = Sentinel <=> j = 1

WellFramed == \A k \in DOMAIN lines : Framed(lines[k])

(***************************************************************************)
(* Each request is answered by exactly one line, and by the right one: the *)
(* fields its own body emitted, all of them in order or the overflow mark  *)
(* instead, and never a field of an event, of an earlier command or of one *)
(* that an assertion abandoned; or an error and no response.  The overflow *)
(* mark appears exactly when the fields do not fit, whatever was emitted.  *)
(***************************************************************************)
Fits(r) == Len(r.asked) <= FieldsMax /\ r.need <= ArenaCap

AnswerTo(i, r) ==
    <<Sentinel, Cmd(i)>> \o
    IF r.kind \in {"overflow", "syntax", "unknown", "badargs"} \/ r.failed
    THEN <<Error>>
    ELSE (IF Fits(r) THEN FieldTokens(r.asked) ELSE <<Overflow>>) \o <<Ret>>

Finished(i) == i < This \/ pc \in {"boot", "readyLine", "run", "flushLine", "reset"}

AnswersExact ==
    \A i \in 1 .. This :
        IF Finished(i) /\ reqs[i].kind # "blank"
        THEN \E k \in DOMAIN lines : /\ LinesWith(Cmd(i)) = {k}
                                     /\ lines[k] = AnswerTo(i, reqs[i])
        ELSE LinesWith(Cmd(i)) = {}

(***************************************************************************)
(* Every event line carries the pairs of its event, all of them in order,  *)
(* and nothing else: none of the fields that its body is collecting, and   *)
(* no pair of a flushed record goes into what an assertion has left of a   *)
(* capture; the events of a body come before its answer, and the answers   *)
(* in request order.                                                       *)
(***************************************************************************)
Closed(e) == ev # e \/ pc \notin {"flushLine", "eventLine"}

EventsIntact ==
    \A e \in 1 .. Len(evs) :
        Closed(e) =>
            \E k \in DOMAIN lines :
                /\ LinesWith(Event(e)) = {k}
                /\ lines[k] = <<Sentinel, Event(e)>> \o FieldTokens(evs[e].pairs)
                /\ \A i \in 1 .. This : \A a \in LinesWith(Cmd(i)) :
                       evs[e].req # 0 => (a < k <=> i < evs[e].req)

(***************************************************************************)
(* Why the lines are well framed, for Dispatch_proofs: a line is open just *)
(* where the program is inside one, and while a body runs between lines    *)
(* the capture is armed, so that what the body emits starts no line.       *)
(***************************************************************************)
NoLineOpen == pc \in {"boot", "run", "body", "reset"}

Framing ==
    /\ WellFramed
    /\ IF NoLineOpen THEN cur = <<>> ELSE Framed(cur)
    /\ pc = "body" => cap.active
    /\ pc \in {"body", "eventLine", "logLine"} => cap.inBody
=============================================================================
