---------------------------- MODULE HttpApiPaths ----------------------------
(***************************************************************************)
(* Where a call of the HTTP API goes (config/http-api.ts and               *)
(* http-api-proxy.ts): the base path the browser calls, the requests that  *)
(* the web application passes on, and the path it asks its upstream for.   *)
(*                                                                         *)
(* A path is the sequence of its segments, as '/' separates them: "/api/"  *)
(* is <<"", "api", "">>, and a path without a first slash does not begin   *)
(* with "".  A configuration is a record of mode, basePath,                *)
(* browserBasePath, proxyBasePath, upstream (the path of the upstream's    *)
(* URL, or None) and upstreamBasePath.                                     *)
(***************************************************************************)
EXTENDS Naturals, Sequences, FiniteSets, SequencesExt

CONSTANT NoUpstream

TrimSlashes(path) ==
    LET named == {i \in DOMAIN path : path[i] # ""}
    IN  IF named = {} THEN <<>> ELSE SubSeq(path, Min(named), Max(named))

\* A path without segments is that of the API.
NormalizeHttpApiBasePath(path) ==
    LET withoutTrailing == IF TrimSlashes(path) = <<>> THEN <<>>
                           ELSE SubSeq(path, 1, Max({i \in DOMAIN path : path[i] # ""}))
    IN  IF withoutTrailing = <<>> THEN <<"", "api">>
        ELSE IF Head(withoutTrailing) = "" THEN withoutTrailing ELSE <<"">> \o withoutTrailing

JoinHttpApiPaths(paths) ==
    LET joined == FlattenSeq([i \in DOMAIN paths |-> TrimSlashes(paths[i])])
    IN  IF joined = <<>> THEN <<>> ELSE <<"">> \o joined

GetHttpApiProxyRequestBasePath(config) ==
    JoinHttpApiPaths(<<config.basePath, NormalizeHttpApiBasePath(config.proxyBasePath)>>)

GetHttpApiClientBasePath(config) ==
    IF config.mode = "proxy" THEN GetHttpApiProxyRequestBasePath(config)
    ELSE JoinHttpApiPaths(<<config.basePath, NormalizeHttpApiBasePath(config.browserBasePath)>>)

\* The prefix is of whole segments.
HasPrefix(pathname, basePath) == IsPrefix(basePath, pathname)

StripHttpApiPathPrefix(pathname, basePath) ==
    LET rest == SubSeq(pathname, Len(basePath) + 1, Len(pathname))
    IN  IF rest = <<>> THEN <<>> ELSE <<"">> \o rest

BuildHttpApiProxyTarget(config, downstreamPath) ==
    JoinHttpApiPaths(<<config.upstream, NormalizeHttpApiBasePath(config.upstreamBasePath),
                       downstreamPath>>)

\* handleHttpApiProxy: served here, passed on, or refused (502).
HandleHttpApiProxy(config, pathname) ==
    LET basePath == GetHttpApiProxyRequestBasePath(config)
    IN  IF config.mode # "proxy" \/ ~HasPrefix(pathname, basePath)
        THEN [to |-> "here", path |-> pathname]
        ELSE IF config.upstream = NoUpstream
        THEN [to |-> "nowhere", path |-> <<>>]
        ELSE [to |-> "upstream",
              path |-> BuildHttpApiProxyTarget(config, StripHttpApiPathPrefix(pathname, basePath))]

\* buildApiUrl (stores/api.ts): a page's own URL of the API, /api/..., under the base path.
BuildApiUrl(apiBasePath, url) ==
    IF IsPrefix(<<"", "api">>, url)
    THEN apiBasePath \o SubSeq(url, 3, Len(url)) ELSE url
=============================================================================
