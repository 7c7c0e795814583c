------------------------------ MODULE MCConfig -----------------------------
(* Config on all short prefixes, paths and hosts, and on every setting with *)
(* a value of every kind.                                                   *)
EXTENDS Config

Strings(S, n) == BoundedSeq(S, n)

MCValues == {<<"none", "">>, <<"bool", TRUE>>, <<"str", "">>, <<"str", "fit">>, <<"str", "odd">>,
             <<"list", "fit">>, <<"list", "odd">>}
            \cup ({"int", "float"} \X (-1 .. 1))

Keys == Booleans \cup Positive \cup Counts \cup NonEmpty \cup Strict \cup Optional
          \cup {"ADMIN_RETRY_BACKOFF", "LOG_LEVEL", "ADMIN_ADDRESSES"}

Names == {<<"str", "fit">>, <<"str", "">>, <<"none", "">>}

Url(host, path) == <<"http:", "/", "/">> \o host \o path

Usual == Url(<<"l", ":8080">>, << >>)

Plain == [enabled |-> TRUE, auto |-> FALSE, removedKey |-> FALSE,
          key |-> "REGISTRY_INTERVAL", value |-> <<"int", 1>>,
          prefix |-> <<"/", "a">>, address |-> Usual, admins |-> {Usual}]

OddUrls == {<< >>, <<"/">>, <<"http:", "/">>, <<"http:", "/", "/">>, <<"l">>,
            <<"ftp:", "/", "/", "l">>, Url(<<"l", ":0">>, << >>), Url(<<"l", ":x">>, << >>),
            Url(<<"l", "@", "l">>, << >>), Url(<<"l">>, <<"/", "?">>)}

Hosts == Strings({"l", "d", "-", ".", "u"}, 4)
           \cup {<<"d", ".", "d", ".", "d", ".", "d">>, <<"d", ".", "d", ".", "d", ".", "d", ".">>}

MCSettings ==
       {[Plain EXCEPT !.enabled = e, !.prefix = p, !.address = u] :
          e \in BOOLEAN, p \in Strings({"/", "a", ".", "?"}, 4),
          u \in {Url(<<"l">>, path) : path \in Strings({"/", "a"}, 3)} \cup {<< >>}}
  \cup {[Plain EXCEPT !.auto = a, !.address = u, !.admins = us, !.removedKey = r,
                      !.key = "EXECUTOR_APP_NAME", !.value = n] :
          a \in BOOLEAN, n \in Names, r \in BOOLEAN, u \in OddUrls \cup {Usual},
          us \in {{}, {Usual}, {Usual, << >>}} \cup {{u} : u \in OddUrls}}
  \cup {[Plain EXCEPT !.address = Url(h, << >>)] : h \in Hosts}
  \cup {[Plain EXCEPT !.enabled = e, !.auto = a, !.key = k, !.value = v] :
          e \in BOOLEAN, a \in BOOLEAN, k \in Keys, v \in MCValues}

=============================================================================
