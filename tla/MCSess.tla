------------------------------- MODULE MCSess -------------------------------
(* Two sessions: the client of s1 sends what it likes and ends its lines   *)
(* with CR LF or LF, that of s2 waits for each reply; both use the key k.  *)
EXTENDS AtmSess, TLC

CONSTANTS s1, s2

Set(v) == <<"set", SP, "k", SP>> \o v
Get == <<"get", SP, "k">>
Quoted == <<"dq", "a", SP, "b", "dq">>

Ended(texts, eol) == [i \in DOMAIN texts |-> [text |-> texts[i], eol |-> eol]]

Texts == {<<Set(Quoted), Get, Set(<<"b">>)>>,
          <<<<"set", SP, "k">>, Get>>,
          <<<<"set">>, Get>>,
          <<Get, <<SP>>, Get>>,
          <<<<"get", SP, "sq", SP, "dq", SP, "k">>, <<"get">>>>,
          <<<<SP, "set", SP, SP, "k", SP, "a", SP, "b">>, Get>>}

MCWords == {"get", "set", "k", "a", "b", "c"}

MCScripts ==
    s1 :> {Ended(t, eol) : t \in Texts, eol \in {<<LF>>, <<CR, LF>>}} @@
    s2 :> {Ended(<<Set(<<"c">>), Get>>, <<LF>>)}
=============================================================================
