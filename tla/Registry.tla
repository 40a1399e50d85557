------------------------------ MODULE Registry ------------------------------
(***************************************************************************)
(* The commands of a device and what a host believes of them:              *)
(* rig_register(), rig_cmd_find() and rig.list over the intrusive list of  *)
(* src/riglink_cmd.c, the lookup of the shell backend, and on the host the *)
(* handshake, the attributes and the check of a call in                    *)
(* python/riglink/device.py.                                               *)
(*                                                                         *)
(* A node is a struct rig_cmd, a static object: a reboot clears its links  *)
(* and its flag, and constructors register it again, in any order; an      *)
(* application may register more, and repeat itself.  A name is a sequence *)
(* of characters, as the host replaces dots in it.                         *)
(***************************************************************************)
EXTENDS Integers, SequencesExt

CONSTANTS Nodes,     \* every struct rig_cmd
          NameOf,    \* name of each
          NArgs,     \* nargs of each
          Unchecked, \* the built-ins that do not look at argc
          List,      \* the node of rig.list
          Static,    \* the nodes that constructors register
          Variadic,  \* RIG_NARGS_VARIADIC
          NULL,
          MaxBoots   \* bound

ASSUME RegistryAssumption == /\ IsFiniteSet(Nodes)
                             /\ NULL \notin Nodes
                             /\ List \in Static
                             /\ Static \subseteq Nodes
ASSUME NamesAssumption == \A n \in Nodes : NameOf[n] \in Seq(STRING)

VARIABLES next, registered, head,  \* the list
          order,                   \* nodes in the order of their registration (history)
          shell,                   \* the device has the shell backend, and the host its shell_root
          sigs,                    \* _signatures: of each name, the node whose entry is kept
          last,                    \* what the host did last, and what came of it (history)
          boots

list == <<next, registered, head, order>>
vars == <<list, shell, sigs, last, boots>>

NoCall == [op |-> "none"]

Empty == /\ next = [n \in Nodes |-> NULL]
         /\ registered = {}
         /\ head = NULL
         /\ order = <<>>

Init == /\ Empty
        /\ shell \in BOOLEAN
        /\ sigs = <<>>
        /\ last = NoCall
        /\ boots = 1

-----------------------------------------------------------------------------
(* The device.                                                             *)

\* Fault: a node is taken for new if it is neither linked nor the head: the first one looks so forever.
FreshByLinks(n) == next[n] = NULL /\ head # n

Fresh(n) == n \notin registered

\* A repeated registration returns at once.
Register(n) == /\ Fresh(n)
               /\ registered' = registered \cup {n}
               /\ next' = [next EXCEPT ![n] = head]
               /\ head' = n
               /\ order' = Append(order, n)
               /\ UNCHANGED <<shell, sigs, last, boots>>

Reboot == /\ boots < MaxBoots
          /\ boots' = boots + 1
          /\ next' = [n \in Nodes |-> NULL]
          /\ registered' = {}
          /\ head' = NULL
          /\ order' = <<>>
          /\ UNCHANGED <<shell, sigs, last>>

\* The k-th node from the head.
At[k \in Nat] == IF k = 0 THEN head ELSE IF At[k-1] = NULL THEN NULL ELSE next[At[k-1]]

\* The nodes that a loop over the list visits.
Visited == {k \in 0 .. Cardinality(Nodes) - 1 : At[k] # NULL}

Listing == [i \in 1 .. Cardinality(Visited) |-> At[i-1]]

Rig == <<"rig", ".">>

\* The prefix of a built-in dropped, as strip_rig_prefix() and _wire_name() do.
Stripped(name) == IF IsPrefix(Rig, name) THEN SubSeq(name, Len(Rig) + 1, Len(name)) ELSE name

\* Fault: the prefix is optional everywhere.
MatchesBare(n, name) == Stripped(NameOf[n]) = Stripped(name)

Matches(n, name) == NameOf[n] = name

\* rig_cmd_find()
Find(name) == LET hits == {k \in Visited : Matches(At[k], name)}
              IN  IF hits = {} THEN NULL ELSE At[Min(hits)]

\* Fault: the prefix is not put back.
FindTypedPlain(name) == Find(name)

\* rig_sub_handler(): the name as it is, then with the prefix.
FindTyped(name) == IF Find(name) # NULL THEN Find(name) ELSE Find(Rig \o name)

-----------------------------------------------------------------------------
(* The host.                                                               *)

Reached(name) == IF shell THEN FindTyped(Stripped(name)) ELSE Find(name)

\* The dictionary keeps the last entry of each name.
Signatures(listing) ==
  [name \in {NameOf[n] : n \in Range(listing)} |->
     listing[Max({i \in DOMAIN listing : NameOf[listing[i]] = name})]]

Alias(name) == ReplaceAll(name, ".", "_")

\* Fault: the map of aliases keeps one of two commands.
TargetsAny(attr) ==
  LET aliased == {name \in DOMAIN sigs : Alias(name) # name /\ Alias(name) = attr}
  IN  IF attr \in DOMAIN sigs THEN {attr} ELSE aliased

\* __getattr__(): a command of that name, or the only one that has it for an alias.
Targets(attr) ==
  LET aliased == {name \in DOMAIN sigs : Alias(name) # name /\ Alias(name) = attr}
  IN  IF attr \in DOMAIN sigs THEN {attr}
      ELSE IF Cardinality(aliased) = 1 THEN aliased ELSE {}

\* The answer is a list of commands only if rig.list itself was reached; an error leaves what was known.
Handshake ==
  LET reached == Reached(NameOf[List]) IN
  /\ Static \subseteq registered
  /\ sigs' = IF reached = List THEN Signatures(Listing) ELSE sigs
  /\ last' = [op |-> "handshake", reached |-> reached, there |-> registered]
  /\ UNCHANGED <<list, shell, boots>>

\* What the device makes of a call: the trampoline counts the arguments.  A name that is not registered is refused
\* by rig_dispatch(), and on the shell by the shell itself.
Answer(n, argc) ==
  IF n = NULL THEN "unknown_cmd"
  ELSE IF n \in Unchecked \/ NArgs[n] = Variadic \/ argc = NArgs[n] THEN "ran"
  ELSE "arg_count"

\* _Call.__call__() by attribute: the number of arguments must be that of the signature.
CallAttribute(attr, argc) ==
  \E name \in Targets(attr) :
    LET checked == sigs[name]
        reached == Reached(name)
    IN  /\ NArgs[checked] \in {argc, Variadic}
        /\ Static \subseteq registered
        /\ last' = [op |-> "call", attr |-> attr, name |-> name, checked |-> checked,
                    reached |-> reached, answer |-> Answer(reached, argc),
                    known |-> DOMAIN sigs, there |-> registered]
        /\ UNCHANGED <<list, shell, sigs, boots>>

Names == {NameOf[n] : n \in Nodes}
Counts == {NArgs[n] : n \in Nodes} \ {Variadic}

Next == \/ \E n \in Nodes : Register(n)
        \/ Reboot
        \/ Handshake
        \/ \E attr \in Names \cup {Alias(name) : name \in Names}, argc \in Counts :
              CallAttribute(attr, argc)

Spec == Init /\ [][Next]_vars

-----------------------------------------------------------------------------
(* Properties *)

\* The list holds each registered node once, newest first, and ends: whatever is registered, in any order and
\* however often, a loop over it terminates.
Linked == /\ registered = Range(order)
          /\ head = IF order = <<>> THEN NULL ELSE order[Len(order)]
          /\ \A i \in DOMAIN order : next[order[i]] = IF i = 1 THEN NULL ELSE order[i-1]
          /\ \A i, j \in DOMAIN order : i # j => order[i] # order[j]

\* Two commands of one name: the device runs the newer, the host keeps the signature of the older.
Twin(c) == \E m, n \in c.there : m # n /\ NameOf[m] = c.name /\ NameOf[n] = c.name

\* On the shell a built-in is hidden by an application's command of its bare name.
Hidden(c) == shell /\ Stripped(c.name) # c.name /\ \E n \in c.there : NameOf[n] = Stripped(c.name)

\* A call that the host has checked runs the command whose signature it was checked against, unless that name is
\* registered twice, is hidden on the shell, or is gone with a reboot since the handshake.
CheckedCallRuns ==
  last.op = "call" /\ last.checked \in last.there /\ ~Twin(last) /\ ~Hidden(last) =>
    last.reached = last.checked /\ last.answer = "ran"

\* An attribute never stands for one of several commands: it names the command, or is the alias of no other.
AttributeOwn ==
  last.op = "call" =>
    \A name \in last.known : Alias(name) = last.attr /\ name # last.name => last.attr = last.name

\* The handshake reaches rig.list, unless the application has registered that name too, or a command "list" on
\* the shell.
HandshakeReachesList ==
  last.op = "handshake" =>
    \/ last.reached = List
    \/ \E n \in last.there \ {List} : NameOf[n] = NameOf[List]
    \/ shell /\ \E n \in last.there : NameOf[n] = Stripped(NameOf[List])
=============================================================================
