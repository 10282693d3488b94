------------------------------ MODULE MCProcess ------------------------------
(* Two threads and replies of up to four CPUs, one of which may be disabled, *)
(* in up to three domains that may overlap, be empty, be no NUMA domain, or  *)
(* be malformed in each of the ways that from_raw looks for.                 *)
(*                                                                           *)
(* Entry stacks with each way to write, or to spoil, a handle; with a second *)
(* or an older name, entries without '=' or without a value; with more       *)
(* entries, longer values and more arguments than there is room for.         *)
(*                                                                           *)
(* Sequence numbers wrap after three commands; the thermal epoch after four. *)
EXTENDS Process

Cpus(n, off) == [i \in 1 .. n |-> [id |-> i, enabled |-> i # off]]
Domain(id, kind, members, parent) ==
    [id |-> id, kind |-> kind, members |-> members, parent |-> parent]
Flat(id, members) == Domain(id, Numa, members, 0)

MCReply ==
    {[cpus |-> Cpus(3, 0), domains |-> <<Flat(1, <<1, 2>>), Flat(2, <<2>>), Domain(3, Numa, <<3>>, 1)>>],
     [cpus |-> Cpus(3, 1), domains |-> <<Flat(1, <<1, 2>>), Flat(2, <<2, 3>>)>>],
     [cpus |-> Cpus(3, 0), domains |-> <<Domain(1, 0, <<1, 2>>, 0), Flat(2, <<>>), Flat(3, <<3>>)>>],
     [cpus |-> Cpus(1, 1), domains |-> <<Flat(1, <<1>>)>>]}
    \cup {[cpus |-> Cpus(2, 0), domains |-> <<d>>] :
            d \in {Flat(1, <<1, 1>>), Flat(1, <<5>>), Domain(1, Numa + 1, <<1>>, 0),
                   Domain(1, Numa, <<1>>, 2)}}
    \cup {[cpus |-> Cpus(4, 0), domains |-> <<Flat(1, <<1, 4>>)>>],
          [cpus |-> Cpus(2, 0), domains |-> <<Flat(1, <<1, 1>>), Flat(2, <<2>>)>>],
          [cpus |-> Cpus(2, 0), domains |-> <<Flat(1, <<1>>), Flat(1, <<2>>)>>]}

-----------------------------------------------------------------------------
String(key, value) == [key |-> key, eq |-> TRUE, value |-> value]
Own(value) == String("ARACH_CAP_RESONANCE", value)
Legacy(value) == String("SISYPHUS_CAP_RESONANCE", value)
Other == String("HOME", <<"/">>)
Flag == [key |-> "-v", eq |-> FALSE, value |-> <<>>]

\* Texts and the handles they are written for; MaxWord is 299.
Texts == {<<<<"2", "9", "9">>, 299>>, <<<<"0", "x", "1", "2", "a">>, 298>>,
          <<<<"0", "X", "F">>, 15>>, <<<<"1", "_", "0">>, 10>>, <<<<"0", "9">>, 9>>}
Spoilt == {<<>>, <<"_">>, <<"0", "x">>, <<"0", "x", "_">>, <<"1", "a">>, <<"-", "1">>,
           <<"9", "x", "9">>, <<"9", "9", "9">>, <<"0", "x", "9", "F", "F">>, <<"0">>,
           <<"0", "x", "0">>}
Ten == <<"1", "0">>

MCStack ==
    {[args |-> <<Flag>>, env |-> <<e[1]>>, grant |-> e[2]] :
        e \in {<<Own(t[1]), t[2]>> : t \in Texts} \cup {<<Legacy(t[1]), t[2]>> : t \in Texts}
              \cup {<<Own(t), 0>> : t \in Spoilt}}
    \cup {[args |-> args, env |-> e[1], grant |-> e[2]] :
            args \in {<<>>, <<Flag, Flag>>, <<Flag, Flag, Flag>>,
                      <<Flag, Flag, Flag, Own(<<"9">>)>>},
            e \in {<<<<Own(Ten)>>, 10>>,
                   <<<<Flag, Own(Ten)>>, 10>>,
                   <<<<Own(Ten), Flag, Own(<<"9">>)>>, 10>>,
                   <<<<Legacy(<<"9">>), Own(Ten)>>, 10>>,
                   <<<<Own(<<>>), Legacy(Ten)>>, 0>>,
                   <<<<Own(<<"a">>), Legacy(Ten)>>, 0>>,
                   <<<<Other, Flag>>, 0>>,
                   <<<<Other, Other, Own(Ten)>>, 10>>,
                   <<<<Own(<<"0", "0", "0", "0", "9", "9">>)>>, 99>>}}
=============================================================================
