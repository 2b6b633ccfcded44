------------------------------- MODULE MCServer -------------------------------
(* Server for TLC: two workers and two runs of start.py; two hosts and     *)
(* accounts at a limiter of one or two attempts; one space of five files.  *)
EXTENDS Server

MCLoginPerIp == [limit |-> 2, window |-> 3]
MCLoginPerAccount == [limit |-> 1, window |-> 3]
MCRegisterPerIp == [limit |-> 1, window |-> 4]

MCDomain == <<"alice-domain">>
MCHostNames == {Base, <<"www">> \o Base, <<"alice">> \o Base, <<"x", "alice">> \o Base,
                <<"nobody">> \o Base, MCDomain, <<"elsewhere">>}
MCFiles == {Public \o Index, Public \o <<"page.html">>, Public \o <<".env">>,
            <<"build">> \o Index, <<"build", "page.html">>}
MCSites == {[name |-> "build", kind |-> "static", source_dir |-> <<"build">>, default |-> d] : d \in BOOLEAN}
             \cup {[name |-> "svc", kind |-> "service", source_dir |-> <<>>, default |-> d] : d \in BOOLEAN}
             \cup {[name |-> "site", kind |-> "static", source_dir |-> <<>>, default |-> FALSE]}
MCFirst == {"page.html", "about", "build", "svc", ".env", "public", "api", "apiary.html"}
MCRests == {<<>>, <<"build", "page.html">>, <<"build", "about">>, <<"svc", "page.html">>,
            <<"site", "public", "page.html">>, <<"site", "public", ".env">>,
            <<"public", "page.html">>, <<"about", "page.html">>}
             \cup {<<f>> : f \in MCFirst}
===============================================================================
