------------------------------- MODULE MC_Pump -------------------------------
(* Instances of Pump for TLC: the commands and the requests. *)
EXTENDS Pump

Is(does, types) == [does |-> does, types |-> types]

E == <<"e">>
S == <<"s">>
U == <<"u">>
I == <<"i">>
B == <<"b">>
W == <<"w">>
VarGet == <<"v", ".", "g">>
VarSet == <<"v", ".", "s">>

MC_Commands ==
  E :> Is("fn", Variadic) @@ S :> Is("fn", <<"str">>) @@ U :> Is("fn", <<"uint8_t">>)
  @@ I :> Is("fn", <<"int8_t">>) @@ B :> Is("fn", <<"bool", "uint8_t">>) @@ W :> Is("fn", <<"uint64_t">>)
  @@ VarGet :> Is("get", <<>>) @@ VarSet :> Is("set", <<"int8_t">>)

Alphabet == {"a", "#", " ", Quote, Backslash}
Strings == {<<>>} \cup {<<c>> : c \in Alphabet} \cup {<<c, d>> : c, d \in Alphabet}

Calls ==
       {Call(E, <<Text(s)>>) : s \in Strings}
  \cup {Call(E, <<Text(s), Text(t)>>) : s \in {<<>>, <<Backslash>>, <<Quote, Quote>>}, t \in {<<"#">>, <<" ", Backslash>>}}
  \cup {Call(S, <<Text(s)>>) : s \in {<<>>, <<"a", " ">>, <<"a", "a", "a", "a">>, <<Quote, "a", "a", Backslash>>}}
  \cup {Call(c, <<Integer(n)>>) : c \in {U, I, W, VarSet}, n \in {-33, -9, -8, -1, 0, 7, 8, 15, 16, 63, 64}}
  \cup {Call(B, <<Truth(b), Integer(n)>>) : b \in BOOLEAN, n \in {0, 16}}
  \cup {Call(U, <<>>), Call(U, <<Integer(1), Integer(2)>>), Call(<<"x">>, <<>>), Call(VarGet, <<>>),
        Call(E, <<Integer(1), Integer(2), Integer(3)>>),
        Call(E, <<Text(<<"a", "a", "a", "a", "a", " ", " ", " ", "a">>)>>)}

Lines ==
  {Raw(<<"e", "\t", "a", "\r">>, E), Raw(<<>>, None), Raw(<<"?">>, <<"?">>), Raw(<<" ", "#", "a">>, None),
   Raw(<<"#", "a", "a", "a", "a", "a", "a", "a", "a", "a", "a", "a", "a">>, None),
   Raw(<<"e", " ", Quote, "a">>, E), Raw(<<Quote, "e">>, None), Raw(<<"e", " ", Quote, "a", Quote, "a">>, E),
   Raw(<<"e", " ", Quote, Backslash, "a", Quote>>, E), Raw(<<Quote, "e", Quote, " ", "#">>, E),
   Raw(<<"u", " ", "0", "x", "f">>, U), Raw(<<"i", " ", "-", "0", "X", "A">>, I), Raw(<<"u", " ", "0", "1", "7">>, U), Raw(<<"u", " ", "0", "8">>, U),
   Raw(<<Quote, "a", "a", "a", "a", "a", "a", "a", "a", "a", Quote, "b">>, None), Raw(<<"e", " ", "a", " ", "a", " ", "a">>, E),
   Raw(<<"u", " ", "-", "1">>, U), Raw(<<"w", " ", Quote, " ", "-", "1", Quote>>, W),
   Raw(<<"w", " ", Quote, "\t", "-", "1", Quote>>, W), Raw(<<"i", " ", "+", "7">>, I),
   Raw(<<"a", "a", "a", "a", "a", "a", "a", "a", "a", "a", "a", "a", "a">>,
       <<"a", "a", "a", "a", "a", "a", "a", "a", "a", "a", "a", "a", "a">>)}

Firsts == {r \in Calls : \A i \in DOMAIN r.args : Encodable(r.args[i])} \cup Lines

\* A set is followed by one that is refused as well, everything by a get.
MC_Requests == (Firsts \X {Call(VarGet, <<>>)})
  \cup ({r \in Firsts : r.name = VarSet} \X {Call(VarSet, <<Integer(8)>>)})
=============================================================================
