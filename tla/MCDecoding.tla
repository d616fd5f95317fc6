----------------------------- MODULE MCDecoding -----------------------------
(* Streams with every kind of beginning, and with characters of every      *)
(* length behind it, of which some are UTF-8 and some are not.             *)
EXTENDS Decoding

Beginnings ==
  {<<>>, <<"UNA">>, <<"ws">>, <<"UNA", "ws">>, <<"ws", "UNA">>, <<"mark">>}
    \X ({<<u>> : u \in Identified} \cup {<<>>})

Bodies == {<<"ascii">>} \cup ({"ascii", "two", "three", "undefined"} \X {"two", "three"})
            \cup {<<"ascii", "undefined">>}

MCSources == {b[1] \o b[2] \o body : b \in Beginnings, body \in Bodies}
=============================================================================
