------------------------------ MODULE MCUrlMutes ------------------------------
(* Links put together from a scheme, hosts, ports, paths and a query. *)
EXTENDS UrlMutes, TLC

MCLexeme == Marks \cup {"www.", ".", "m", "c", "e", "tld", "1", "2", "443", "80", "8443",
                       "j", "J", "p", "q"}
MCAddress == {<<"1", ".", "2">>}
MCCapital == "J" :> "j"
MCHosts == {<<"m", ".", "c">>, <<"m", ".", "c", ".", "e">>, <<"tld">>, <<"1", ".", "2">>}
MCPasted == {s \o w \o h \o p \o path \o q :
    s \in {<<>>, <<"//">>, <<"https://">>, <<"http://">>, <<"ftp://">>},
    w \in {<<>>, <<"www.">>, <<"www.", "www.">>}, h \in MCHosts,
    p \in {<<>>, <<":", "443">>, <<":", "80">>, <<":", "8443">>},
    path \in {<<>>, <<"/">>, <<"/", "j">>, <<"/", "J", "2">>, <<"/", "J", "/", "p">>,
              <<"/", "/", "j">>},
    q \in {<<>>, <<"?", "q">>}} \cup {<<>>}
=============================================================================
