----------------------------- MODULE MCMemLayout ------------------------------
(* Maps of three to six modules for a table of five.  Between three or four of    *)
(* them, and behind the last of three, lies anything that can: nothing, free       *)
(* memory, more data, or text, with or without rodata, without its data, and free   *)
(* memory or the next module directly behind that.  Between five the same lies      *)
(* each time.                                                                      *)
EXTENDS MemLayout

Module == <<"text", "rodata", "data">>
Pieces == {<<>>, <<"other">>, <<"text", "other">>, <<"text", "rodata", "other">>,
           <<"text">>, <<"text", "rodata">>, <<"text", "text">>, <<"data">>, <<"rodata">>}

\* From the start of the map on, whether a module is begun at a block.
MCBegins(m) ==
  LET begins[i \in -1 .. Len(m)] ==
        i > 0 /\ m[i] = "text" /\ ~begins[i - 1] /\ ~(begins[i - 2] /\ m[i - 1] = "rodata")
  IN {i \in 1 .. Len(m) : begins[i]}

MCMaps ==
  LET map3 == {<<"other">> \o Module \o p \o Module \o q \o Module : p, q \in Pieces}
      map4 == {m \o p \o Module : m \in map3, p \in Pieces}
      map5 == {<<"other">> \o Module \o p \o Module \o p \o Module \o p \o Module \o p \o Module :
                 p \in Pieces}
      map6 == {m \o p \o Module : m \in map5, p \in Pieces}
  IN {m \o p \o <<"other">> : m \in map3, p \in Pieces} \cup
     {m \o <<"other">> : m \in map4 \cup map5 \cup map6}
===============================================================================
