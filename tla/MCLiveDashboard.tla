-------------------------- MODULE MCLiveDashboard --------------------------
(* Instances of LiveDashboard, and of HttpApiPaths over bounded inputs, for TLC. *)
EXTENDS LiveDashboard, HttpApiPaths, TLC

Symmetry == Permutations(Sockets)

-----------------------------------------------------------------------------
(* HttpApiPaths against what advanced-operations.md says of the two modes (lines 25 *)
(* to 29).                                                                          *)

Bases == {<<>>, <<"", "app">>, <<"app", "">>}
ApiBases == {<<"", "">>, <<"", "api", "">>, <<"api-proxy">>, <<"", "app", "api">>}

Configs ==
    [mode : {"browser", "proxy"}, basePath : Bases, browserBasePath : ApiBases,
     proxyBasePath : ApiBases, upstream : {<<>>, <<"", "internal">>},
     upstreamBasePath : {<<>>, <<"", "api">>, <<"v", "2", "">>}]

Named(path) == SelectSeq(path, LAMBDA segment : segment # "")
OrApi(path) == IF Named(path) = <<>> THEN <<"api">> ELSE Named(path)

\* What a page calls is what the application passes on in proxy mode, to the same route
\* of the upstream, and leaves to the API under its own base path otherwise; a path next
\* to the prefix is not passed on.
ASSUME CallsReachTheApi ==
    \A config \in Configs, rest \in SeqOf({"dynsec", "clients"}, 2) :
        LET called == BuildApiUrl(GetHttpApiClientBasePath(config), <<"", "api">> \o rest)
            handled == HandleHttpApiProxy(config, called)
            own == Named(config.basePath) \o OrApi(config.browserBasePath) \o rest
            upstream == Named(config.upstream) \o OrApi(config.upstreamBasePath) \o rest
        IN  IF config.mode = "proxy"
            THEN handled = [to |-> "upstream", path |-> <<"">> \o upstream]
            ELSE handled = [to |-> "here", path |-> <<"">> \o own]

ASSUME NeighboursStay ==
    \A config \in Configs, rest \in SeqOf({"dynsec"}, 1) :
        LET base == GetHttpApiProxyRequestBasePath(config)
            neighbour == [base EXCEPT ![Len(base)] = "neighbour"] \o rest
        IN  HandleHttpApiProxy(config, neighbour) = [to |-> "here", path |-> neighbour]
=============================================================================
