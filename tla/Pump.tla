-------------------------------- MODULE Pump --------------------------------
(***************************************************************************)
(* rig_run() over the bytes of request lines: src/riglink_core.c.  Each    *)
(* call prints what interrupts have queued, then reads at most two         *)
(* buffers' worth of bytes and handles at most one line.                   *)
(*                                                                         *)
(* The lines to come are on the wire from the start; how many of their     *)
(* bytes rig_getc() has ready at a call is left open.  An answer carries   *)
(* the number of the line that it answers, which the device does not know. *)
(***************************************************************************)
EXTENDS Wire, FiniteSets

CONSTANTS Commands,    \* of each name, what it does and its parameters' types
          Requests,    \* the pairs of requests that may come
          Depth,       \* RIG_EVENT_QUEUE_DEPTH
          MaxInits     \* bound: calls of rig_init()

ASSUME PumpAssumption == Depth \in Nat \ {0} /\ MaxInits \in Nat

VARIABLES reqs,     \* the requests on the wire (history)
          wire,     \* their bytes that are not read yet
          line,     \* g_rig_line
          running,  \* g_rig_running
          queued,   \* records in the event ring
          pc,       \* where rig_run() is
          var,      \* a variable under RIG_EXPOSE_VAR
          answers,  \* response lines printed (history)
          cut,      \* lines whose beginning a rig_init() has dropped (history)
          inits     \* calls of rig_init()

vars == <<reqs, wire, line, running, queued, pc, var, answers, cut, inits>>

\* What a line is once its end and the carriage returns are gone.
Kept(text) ==
  LET kept[i \in 0..Len(text)] ==
        IF i = 0 THEN <<>> ELSE IF text[i] \in {"\n", "\r"} THEN kept[i-1] ELSE Append(kept[i-1], text[i])
  IN  kept[Len(text)]

\* What a host may write: a call with its values, or any line, of which name is the first word, if it is whole.
Call(name, args) == [kind |-> "call", name |-> name, args |-> args, text |-> EncodeCall(name, args)]
Raw(text, name)  == [kind |-> "raw", name |-> name, args |-> <<>>, text |-> Append(text, "\n")]

IsCall(r) == /\ r = Call(r.name, r.args)
             /\ IsName(r.name)
             /\ r.args \in Seq({r.args[i] : i \in DOMAIN r.args})
             /\ \A i \in DOMAIN r.args : IsValue(r.args[i]) /\ Encodable(r.args[i])

IsRaw(r) == LET t     == Scanned(Kept(r.text))
                whole == t.slots # <<>> /\ (Len(t.slots) = 1 => t.mode \in {"gap", "bare", "closed", "many"})
            IN  /\ r.kind = "raw"
                /\ r.name = IF whole THEN t.slots[1] ELSE None
                /\ r.text \in Seq(STRING) /\ r.text # <<>>
                /\ \A i \in DOMAIN r.text : r.text[i] = "\n" <=> i = Len(r.text)

ASSUME RequestsAssumption ==
  \A p \in Requests : p = <<p[1], p[2]>> /\ \A i \in {1, 2} : IsCall(p[i]) \/ IsRaw(p[i])

\* Names are C identifiers with dots; rig.echo takes any arguments; what RIG_EXPOSE_VAR makes is a get without
\* and a set with one.
Variadic == <<"...">>
Types == {"bool", "str", "uint8_t", "uint64_t", "int8_t", "int64_t"}

ASSUME CommandsAssumption ==
  \A name \in DOMAIN Commands :
    /\ \A i \in DOMAIN name : name[i] # "-"
    /\ Commands[name].does \in {"fn", "get", "set"}
    /\ Commands[name].types \in Seq(Types) \/ (Commands[name].types = Variadic /\ Commands[name].does = "fn")
    /\ Commands[name].does = "get" => Commands[name].types = <<>>
    /\ Commands[name].does = "set" => Len(Commands[name].types) = 1

Init == /\ reqs \in Requests
        /\ wire = reqs[1].text \o reqs[2].text
        /\ line = EmptyLine
        /\ running = FALSE
        /\ queued = 0
        /\ pc = "idle"
        /\ var = Integer(0)
        /\ answers = <<>>
        /\ cut = {}
        /\ inits = 0

-----------------------------------------------------------------------------
(* What a complete line does.                                              *)

Result(kind, name, ret) == [kind |-> kind, name |-> name, ret |-> ret]

\* The trampoline: the arguments are counted, then parsed from the first on.
Refused(types, args) == {i \in DOMAIN types : Parse(types[i], args[i]) = {}}

Parsed(types, args) == [i \in DOMAIN types |-> CHOOSE v \in Parse(types[i], args[i]) : TRUE]

\* held is what the variable holds.
Dispatch(name, args, held) ==
  IF name \notin DOMAIN Commands THEN Result("unknown_cmd", name, <<>>)
  ELSE LET c == Commands[name] IN
       IF c.types = Variadic
       THEN Result("ok", name, [i \in DOMAIN args |-> Text(args[i])])
       ELSE IF Len(args) # Len(c.types)
       THEN Result("arg_count", name, <<Integer(Len(c.types)), Integer(Len(args))>>)
       ELSE IF Refused(c.types, args) # {}
       THEN Result("bad_args", name, <<Integer(Min(Refused(c.types, args)) - 1)>>)
       ELSE CASE c.does = "get" -> Result("ok", name, <<held>>)
              [] c.does \in {"set", "fn"} -> Result("ok", name, Parsed(c.types, args))

\* Fault: a malformed line that names no command is taken for a blank one.
HandleNameless(l, held) ==
  LET t == Tokenize(l.buf) IN
  CASE l.overflow -> Result("overflow", t.name, <<>>)
    [] ~l.overflow /\ t.name = None -> Result("blank", None, <<>>)
    [] ~l.overflow /\ ~t.ok /\ t.name # None -> Result("syntax", t.name, <<>>)
    [] OTHER -> Dispatch(t.name, t.args, held)

\* rig_run() with a complete line: an overflow, an error of the tokenizer, or a dispatch.
Handle(l, held) ==
  LET t == Tokenize(l.buf) IN
  CASE l.overflow -> Result("overflow", t.name, <<>>)
    [] ~l.overflow /\ ~t.ok -> Result("syntax", t.name, <<>>)
    [] ~l.overflow /\ t.ok /\ t.name = None -> Result("blank", None, <<>>)
    [] OTHER -> Dispatch(t.name, t.args, held)

\* Fault: a value that is refused leaves a zero in the variable.
AssignedUnchecked(r) ==
  IF r.kind \in {"ok", "bad_args"} /\ Commands[r.name].does = "set"
  THEN IF r.kind = "ok" THEN r.ret[1] ELSE Integer(0) ELSE var

\* RIG_VARSET_<type>: the variable is assigned when its value has been parsed.
Assigned(r) == IF r.kind = "ok" /\ Commands[r.name].does = "set" THEN r.ret[1] ELSE var

\* rig_line_reset()
Reset(l) == EmptyLine

-----------------------------------------------------------------------------
RigInit == /\ pc = "idle"
           /\ inits < MaxInits
           /\ inits' = inits + 1
           /\ running' = TRUE
           /\ cut' = IF line = EmptyLine THEN cut
                     ELSE cut \cup {Len(reqs) + 1 - Cardinality({i \in DOMAIN wire : wire[i] = "\n"})}
           /\ line' = EmptyLine
           /\ UNCHANGED <<reqs, wire, queued, pc, var, answers>>

RigDeinit == /\ pc = "idle"
             /\ running
             /\ running' = FALSE
             /\ UNCHANGED <<reqs, wire, line, queued, pc, var, answers, cut, inits>>

\* An interrupt: a full ring drops its oldest record.
Enqueue == /\ queued' = IF queued < Depth THEN queued + 1 ELSE queued
           /\ UNCHANGED <<reqs, wire, line, running, pc, var, answers, cut, inits>>

CallRun == /\ pc = "idle"
           /\ running
           /\ pc' = "flush"
           /\ UNCHANGED <<reqs, wire, line, running, queued, var, answers, cut, inits>>

FlushOne == /\ pc = "flush"
            /\ queued > 0
            /\ queued' = queued - 1
            /\ UNCHANGED <<reqs, wire, line, running, pc, var, answers, cut, inits>>

FlushDone == /\ pc = "flush"
             /\ queued = 0
             /\ pc' = "read"
             /\ UNCHANGED <<reqs, wire, line, running, queued, var, answers, cut, inits>>

\* n bytes are read, within the budget of the call, none before the last ends a line.
Read(n) == /\ pc = "read"
           /\ n <= Len(wire)
           /\ \A i \in 1..(n - 1) : wire[i] # "\n"
           /\ wire' = SubSeq(wire, n + 1, Len(wire))
           /\ pc' = "idle"
           /\ UNCHANGED <<reqs, running, queued, cut, inits>>

Fed(n) == Feed(line, SubSeq(wire, 1, n))

\* The budget is spent, or there is no byte, before the line is complete.
ReadPart(n) == /\ Read(n)
               /\ n > 0 => wire[n] # "\n"
               /\ line' = Fed(n)
               /\ UNCHANGED <<var, answers>>

ReadLine(n) ==
  /\ n > 0
  /\ Read(n)
  /\ wire[n] = "\n"
  /\ \E r \in {Handle(Fed(n), var)} :
     LET to == Len(reqs) + 1 - Cardinality({i \in DOMAIN wire : wire[i] = "\n"})
     IN  /\ answers' = IF r.kind = "blank" THEN answers
                       ELSE Append(answers, [to |-> to, kind |-> r.kind, name |-> r.name, ret |-> r.ret])
         /\ var' = Assigned(r)
  /\ line' = Reset(line)

Budget == 2 * LineBuf

Pump == \/ CallRun
        \/ FlushOne
        \/ FlushDone
        \/ \E n \in 0..Budget : ReadPart(n) \/ ReadLine(n)

Next == \/ RigInit
        \/ RigDeinit
        \/ Enqueue
        \/ Pump

Spec == Init /\ [][Next]_vars

\* The application starts the pump and calls it again and again, and it finds the bytes of the wire at some of its calls.
FairSpec == /\ Spec
            /\ WF_vars(inits = 0 /\ RigInit)
            /\ WF_vars(Pump)
            /\ SF_wire(\E n \in 1..Budget : Read(n))

-----------------------------------------------------------------------------
(* Properties *)

\* The line fits its buffer with the NUL, the ring its records; a call of rig_run() is under way
\* only while the pump runs.
TypeOK == /\ Len(line.buf) < LineBuf
          /\ line.overflow \in BOOLEAN /\ running \in BOOLEAN
          /\ queued \in 0..Depth
          /\ pc \in {"idle", "flush", "read"}
          /\ pc # "idle" => running
          /\ inits \in 0..MaxInits

\* A line that does not fit the buffer with the NUL.
Long(r) == Len(Kept(r.text)) >= LineBuf

\* The values of a type.
Values(type) == CASE type = "uint8_t"  -> 0 .. (Power[Narrow] - 1)
                  [] type = "uint64_t" -> 0 .. (Power[Wide] - 1)
                  [] type = "int8_t"   -> -(Power[Narrow-1]) .. (Power[Narrow-1] - 1)
                  [] type = "int64_t"  -> -(Power[Wide-1]) .. (Power[Wide-1] - 1)

\* The Python type of a parameter's values.
Suits(type, v) == v[1] = CASE type = "bool" -> "bool"
                           [] type = "str"  -> "str"
                           [] OTHER         -> "int"

\* What a parameter of a type is to get for a value of Python: an integer in range, the string, cut to its buffer.
Meant(type, v) == CASE type \in {"bool"} -> {v}
                    [] type = "str" -> {Text(SubSeq(v[2], 1, IF Len(v[2]) < StrArg THEN Len(v[2]) ELSE StrArg - 1))}
                    [] OTHER -> IF v[2] \in Values(type) THEN {v} ELSE {}

Whole(a) == a.to \notin cut /\ ~Long(reqs[a.to])

\* A line has at most one answer, in order.  A call whose line fits the buffer runs the command that it names with the values that it was given, whatever
\* quoting they need and however its bytes arrive; one with a value out of range is refused for that argument.
\* (Of values that are not of the parameters' Python types it says nothing.)
Delivered ==
  \A k \in DOMAIN answers :
    LET a == answers[k]
        r == reqs[a.to]
    IN  /\ k > 1 => answers[k-1].to < a.to
        /\ Whole(a) /\ r.kind = "call" /\ Len(r.args) <= MaxArgs /\ r.name \in DOMAIN Commands =>
             LET types == Commands[r.name].types
                 bad   == {i \in DOMAIN types : Meant(types[i], r.args[i]) = {}}
             IN  /\ a.name = r.name
                 /\ IF types = Variadic
                    THEN a.ret = [i \in DOMAIN r.args |-> IF r.args[i][1] = "str" THEN r.args[i]
                                                          ELSE Text(EncodeToken(r.args[i]))]
                    ELSE IF Len(types) # Len(r.args) THEN a.kind = "arg_count"
                    ELSE (\A i \in DOMAIN types : Suits(types[i], r.args[i])) =>
                         IF bad # {} THEN a.kind = "bad_args" /\ a.ret = <<Integer(Min(bad) - 1)>>
                         ELSE /\ a.kind = "ok"
                              /\ \A i \in DOMAIN types : a.ret[i] \in Meant(types[i], r.args[i])

\* A line that does not fit runs no command: it is answered by an error that names at most the beginning of its
\* own name (or of a quoted word that is malformed), and the line after it is not affected.
TooLongRefused ==
  \A k \in DOMAIN answers :
    LET a == answers[k] IN
    a.to \notin cut => /\ a.kind = "overflow" <=> Long(reqs[a.to])
                       /\ a.kind = "overflow" =>
                            \/ a.name = None
                            \/ IsPrefix(a.name, reqs[a.to].name)
                            \/ reqs[a.to].name = None /\ \E i \in DOMAIN reqs[a.to].text : reqs[a.to].text[i] = Quote

TooMany(r) == IF r.kind = "call" THEN Len(r.args) > MaxArgs ELSE Scanned(Kept(r.text)).mode = "many"

\* A malformed line is answered by an error that names the command if its name was whole, and no command
\* otherwise.  (Of too many arguments it says nothing: see README.md, 5.)
ErrorsNamed ==
  \A k \in DOMAIN answers :
    LET a == answers[k] IN
    Whole(a) /\ a.kind = "syntax" /\ ~TooMany(reqs[a.to]) => a.name = reqs[a.to].name

\* A negative number is not taken for an unsigned parameter.  (Of a line with a tab anywhere before the minus it
\* says nothing: of a quoted tab rig_parse_u64() does not see that strtoull() skips it.)
MinusRefused ==
  \A k \in DOMAIN answers :
    LET a == answers[k]
        t == reqs[a.to].text
    IN  a.kind = "ok" /\ Commands[a.name].types \in {<<"uint8_t">>, <<"uint64_t">>} /\ a.to \notin cut =>
          \A i \in DOMAIN t : t[i] = "-" => \E j \in 1..(i - 1) : t[j] = "\t"

\* The exposed variable holds what the last answered set has given it: a refused set leaves it alone.
VariableHolds ==
  LET sets == {k \in DOMAIN answers : answers[k].kind = "ok" /\ Commands[answers[k].name].does = "set"}
  IN  var = IF sets = {} THEN Integer(0) ELSE answers[Max(sets)].ret[1]

\* A line of blanks, or with "#" behind them.
BlankOrComment(r) == LET rest == Without(Kept(r.text), Blank) IN rest = <<>> \/ rest[1] = "#"

\* Each line is answered in the end, malformed or too long as it may be, except a blank line or a comment that
\* fits the buffer; unless the pump is stopped for good or interrupts fill the ring as fast as the flush empties
\* it: then rig_run() never comes to read.
Answered == \A i \in DOMAIN reqs : \/ i \in cut
                                   \/ BlankOrComment(reqs[i]) /\ ~Long(reqs[i])
                                   \/ \E k \in DOMAIN answers : answers[k].to = i
EveryLineAnswered == <>Answered \/ <>[]~running \/ <>[](pc = "flush")
=============================================================================
