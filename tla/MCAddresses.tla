---------------------------- MODULE MCAddresses ----------------------------
(* Small instances of Addresses: all short paths on one host, and hosts of *)
(* several kinds with few paths.                                           *)
EXTENDS Addresses

Shop   == <<"www", "shop", "co", "uk">>
Docs   == <<"docs", "example", "com">>
Site   == <<"example", "com">>
Local  == <<"localhost">>
Dotted == <<"example", "com", "">>
Hosts  == {Shop, Docs, Site, Local, Dotted}

RegistrableOf == [h \in Hosts |->
    CASE h = Shop -> Tail(Shop) [] h = Docs -> Site [] OTHER -> h]

Names2   == {"a", "b.pdf"}
Escaped  == {"%2E%2E", "c%2Fd"}
Segments == {"", ".", "..", "c", "d", "e.png"} \cup Names2 \cup Escaped
DecodedTo == [s \in Segments |->
    CASE s = "%2E%2E" -> <<"..">> [] s = "c%2Fd" -> <<"c", "d">> [] OTHER -> <<s>>]

Said == Segments \ {"c", "d", "e.png"}
Paths(n) == UNION {[1 .. k -> Said] : k \in 0 .. n}

Address(schemes, hosts, ports, abs, paths) ==
    [scheme : schemes, host : hosts, port : ports, abs : abs, path : paths]

Schemes == {"", "http", "https"}

Typed    == Address(Schemes, Hosts, {"", "80", "443", "8080"}, {TRUE}, {<<>>, <<"a">>})
Detours  == Address({"https"}, {Site}, {""}, {TRUE}, Paths(4))
Pictures == Address({"https"}, {Site}, {""}, {TRUE}, {<<"e.png">>})
AllSeeds == Typed \cup Detours \cup Pictures

\* Detours to a file, read alike by the mapper and the parser or not.
Files == {<<"a", "", "b.pdf">>, <<"a", "..", "b.pdf">>, <<"%2E%2E", "b.pdf">>,
          <<"a", "", "..", "b.pdf">>, <<"c%2Fd", "..", "b.pdf">>}

\* (An href that starts with two slashes names a host.)
Hrefs == Address({""}, {<<>>}, {""}, {TRUE}, {p \in Paths(3) : p = <<"">> \/ (p # <<>> /\ Head(p) # "")})
           \cup Address({""}, {<<>>}, {""}, {FALSE}, {p \in Paths(3) : p = <<>> \/ Head(p) # ""})
           \cup Address(Schemes, Hosts, {"", "80"}, {TRUE}, {<<>>, <<"a">>, <<"b.pdf">>})
           \cup Address({"https"}, {Site}, {""}, {TRUE}, Files)
=============================================================================
