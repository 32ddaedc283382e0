------------------------------ MODULE StreamApi ------------------------------
(***************************************************************************)
(* The playback surface of the daemon (http.rs, http/streams.rs, the       *)
(* segment, statistics and control routes of http/compat.rs, server_api.rs *)
(* and routes of a running session): how a request is parsed to a session  *)
(* key, what it asks of the stream manager, what it re-checks after it has *)
(* waited, and how a continuous client is fed from the session's channel.  *)
(*                                                                         *)
(* An identifier is a pair <<prefix, body>>; Lower maps the bodies that are*)
(* 40 hexadecimal digits to their lower-case form.  The manager is reduced *)
(* to what a handler can see of it: which session and which packager stand *)
(* under a key (StreamManager has its protocol), and the packager to its   *)
(* status and retained segments (LiveHls has how it makes them).           *)
(***************************************************************************)
EXTENDS Naturals, Sequences, FiniteSets, SequencesExt

CONSTANTS
    Callers,      \* concurrent HTTP requests
    Wanted,       \* the requests they make: [route, net, id, suffix, seg]
    Lower,        \* hexadecimal bodies, each with its lower-case form
    Offers,       \* query parameters of compatibility requests
    Lessees,      \* playback tokens of the compatibility surface
    Networks,     \* registered networks
    MaxBorn,      \* bound: sessions started
    MaxSegs,      \* bound: segments a packager cuts
    Retained,     \* segments a packager retains
    FeedLen,      \* bound: events a session broadcasts
    ChannelCap,   \* capacity of the session's broadcast channel
    MaxAsked      \* bound: requests of one caller

VARIABLES
    running,   \* session key -> number of the running session, 0 for none
    hls,       \* session key -> number of its packager, 0 for none
    born,      \* sessions and packagers numbered so far
    status,    \* packager -> "starting", "ready", "recovering" or "failed"
    cut,       \* packager -> segments cut so far
    feed,      \* session -> what it has broadcast
    request,   \* caller -> its request, or Unasked
    told,      \* caller -> its last answer
    lessee,    \* token -> its session key, {} once revoked
    asked      \* caller -> requests made

apiVars == <<running, hls, born, status, cut, feed, request, told, lessee, asked>>

SessionKeys ==
    {<<"ace", id>> : id \in {<<"", b>> : b \in {Lower[h] : h \in DOMAIN Lower}}
                        \cup {<<"cid:", b>> : b \in {Lower[h] : h \in DOMAIN Lower}}
                        \cup {<<"local:", "a">>, <<"turl-", "u">>}}
        \cup {<<w.net, w.id>> : w \in {v \in Wanted : v.net # "ace"}}

Numbers == 1..MaxBorn
Unasked == [at |-> "idle"]

-----------------------------------------------------------------------------
(* Identifiers.                                                            *)

\* `ace_normalized_hex_id`: the lower-case form of 40 hexadecimal digits, if
\* the whole text is that.
NormalizedHex(body) == {Lower[h] : h \in {b \in DOMAIN Lower : b = body}}

Bare(id) == IF id[1] = "" THEN NormalizedHex(id[2]) ELSE {}

\* `native_stream_id`: the key a native selector denotes, {} when it is refused.
NativeStreamId(net, id) ==
    IF net # "ace" THEN {id}
    ELSE CASE id[1] = "ih:"  -> {<<"", h>> : h \in NormalizedHex(id[2])}
           [] id[1] = "cid:" -> {<<"cid:", h>> : h \in NormalizedHex(id[2])}
           [] Bare(id) # {}  -> {<<"cid:", h>> : h \in Bare(id)}
           [] OTHER          -> {id}

\* `native_public_stream_id`: how a session's key is shown to native clients.
NativePublicStreamId(net, id) ==
    IF net = "ace" /\ Bare(id) # {}
    THEN <<"ih:", CHOOSE h \in Bare(id) : TRUE>>
    ELSE id

\* `ace_nonempty_param`
Given(params, name) == name \in DOMAIN params /\ params[name] # <<"", "">>

Under(prefix, id) == {<<prefix, h>> : h \in Bare(id)}

\* `ace_selected_stream`: the session key the compatibility parameters select,
\* {} for an error; the first parameter that is given decides alone.
AceSelectedStream(params) ==
    CASE Given(params, "content_id") -> Under("cid:", params["content_id"])
      [] Given(params, "infohash")   -> Under("", params["infohash"])
      [] Given(params, "id") ->
            IF params["id"][1] = "local:"
            THEN {id \in {params["id"]} : id[2] # ""}
            ELSE Under("cid:", params["id"])
      [] Given(params, "url") ->
            {<<"turl-", u[2]>> : u \in {v \in {params["url"]} : v[1] = "http:"}}
      [] Given(params, "magnet")     -> Under("", params["magnet"])
      [] OTHER -> {}

\* `server_api::selector`: which parameter selects content on the control API.
Selector(params) ==
    CASE Given(params, "content_id") -> "content_id"
      [] Given(params, "query")      -> "query"
      [] Given(params, "infohash")   -> "infohash"
      [] Given(params, "url")        -> "url"
      [] Given(params, "magnet")     -> "magnet"
      [] OTHER -> "missing"

\* `resolve_offline`: the infohash an infohash or magnet selector denotes, with
\* no network; the other selectors are resolved by fetching a descriptor.
ResolveOffline(params) ==
    IF Selector(params) \in {"infohash", "magnet"} THEN Bare(params[Selector(params)]) ELSE {}

\* `ace_network`
AceNetwork == IF "ace" \in Networks THEN "ace" ELSE CHOOSE n \in Networks : TRUE

-----------------------------------------------------------------------------
(* What a packager shows.                                                  *)

\* `HlsPackager::segment`: the newest segments are retained.
Held(p) == {n \in 1..cut[p] : n + Retained > cut[p]}

\* `playlist_snapshot`: readiness and the list, read under one lock.
Snapshot(p) == [code |-> 200, pkg |-> p, segs |-> Held(p)]

-----------------------------------------------------------------------------
Answer(r, a) ==
    /\ told' = [told EXCEPT ![r] = a]
    /\ request' = [request EXCEPT ![r] = Unasked]

Code(c) == [code |-> c, pkg |-> 0, segs |-> {}]

Environment == <<running, hls, born, status, cut, feed, lessee>>

ApiInit ==
    /\ running = [k \in SessionKeys |-> 0]
    /\ hls = [k \in SessionKeys |-> 0]
    /\ born = 0
    /\ status = [p \in Numbers |-> "starting"]
    /\ cut = [p \in Numbers |-> 0]
    /\ feed = [n \in Numbers |-> <<>>]
    /\ request = [r \in Callers |-> Unasked]
    /\ told = [r \in Callers |-> Code(0)]
    /\ lessee = [t \in Lessees |-> {}]
    /\ asked = [r \in Callers |-> 0]

\* The file name a route accepts: `delete_stream` strips either suffix,
\* `stream_file` refuses an empty name before `.ts` and any other suffix, a
\* segment must be `<number>.ts`; `stream_status` takes its id as it stands.
NameAccepted(w) ==
    CASE w.route = "file"    -> /\ w.suffix \in {"", ".ts", ".m3u8"}
                                /\ w.suffix # ".ts" \/ w.id # <<"", "">>
      [] w.route = "segment" -> w.suffix = ".ts"
      [] OTHER -> TRUE

\* A native request arrives: the route parses the name, then the selector.
Arrives(r, w) ==
    /\ request[r] = Unasked
    /\ asked[r] < MaxAsked
    /\ asked' = [asked EXCEPT ![r] = @ + 1]
    /\ CASE ~NameAccepted(w) -> Answer(r, Code(404))
         [] NativeStreamId(w.net, w.id) = {} -> Answer(r, Code(400))
         [] OTHER ->
              /\ request' = [request EXCEPT ![r] =
                     [at |-> "lookup", want |-> w,
                      key |-> <<w.net, CHOOSE k \in NativeStreamId(w.net, w.id) : TRUE>>]]
              /\ UNCHANGED told
    /\ UNCHANGED Environment

Looking(r, route, suffixes) ==
    /\ request[r].at = "lookup"
    /\ request[r].want.route = route
    /\ request[r].want.suffix \in suffixes

\* The number of the session under a key once the manager has answered: the
\* running one, or one started for this request.
Subscribe(k) ==
    \/ running[k] # 0 /\ UNCHANGED <<running, born>>
    \/ /\ running[k] = 0
       /\ k[1] \in Networks
       /\ born < MaxBorn
       /\ born' = born + 1
       /\ running' = [running EXCEPT ![k] = born + 1]

\* `stream_start_error`: capacity is 503, protected or unresolvable content
\* 422, any other refusal 404.
StreamStartError(r) ==
    /\ running[request[r].key] = 0
    /\ \E c \in {503, 422, 404} : Answer(r, Code(c))
    /\ UNCHANGED Environment

\* `get_or_start_hls`: the playlist route starts the session and its packager.
GetOrStartHls(r) ==
    /\ Looking(r, "file", {".m3u8"})
    /\ UNCHANGED asked
    /\ \/ StreamStartError(r)
       \/ LET k == request[r].key IN
          /\ Subscribe(k)
          /\ hls' = [hls EXCEPT ![k] = running'[k]]
          /\ request' = [request EXCEPT ![r] =
                 [at |-> "playlist", key |-> k, pkg |-> running'[k]]]
          /\ UNCHANGED <<status, cut, feed, told, lessee>>

Unavailable == Code(503)

Snapshotted(r, a) ==
    request' = [request EXCEPT ![r] =
        [at |-> "recheck", key |-> request[r].key, pkg |-> request[r].pkg, got |-> a]]

\* `await_hls_playlist`: a ready packager's playlist; 503 when it has failed or
\* the request's budget is spent while it starts or recovers.
AwaitHlsPlaylist(r) ==
    /\ request[r].at = "playlist"
    /\ \/ status[request[r].pkg] = "ready" /\ Snapshotted(r, Snapshot(request[r].pkg))
       \/ status[request[r].pkg] # "ready" /\ Snapshotted(r, Unavailable)
    /\ UNCHANGED <<told, asked, Environment>>

\* Variant: the answer is what the wait produced.
AnswerPlaylistAnyway(r) == Answer(r, request[r].got)

\* The end of `stream_file_with_hls_timeout`: whatever the wait produced counts
\* only if the packager is still the one registered under the key.
AnswerPlaylist(r) ==
    Answer(r, IF hls[request[r].key] = request[r].pkg THEN request[r].got ELSE Code(404))

Recheck(r) ==
    /\ request[r].at = "recheck"
    /\ AnswerPlaylist(r)
    /\ UNCHANGED <<asked, Environment>>

SegmentOf(p, n) ==
    IF p # 0 /\ n \in Held(p) THEN [code |-> 200, pkg |-> p, segs |-> {n}] ELSE Code(404)

\* `stream_segment`: served from a running packager only.
StreamSegment(r) ==
    /\ Looking(r, "segment", {".ts"})
    /\ Answer(r, SegmentOf(hls[request[r].key], request[r].want.seg))
    /\ UNCHANGED <<asked, Environment>>

\* `stream_status`
StreamStatus(r) ==
    /\ Looking(r, "status", {""})
    /\ Answer(r, Code(IF running[request[r].key] = 0 THEN 404 ELSE 200))
    /\ UNCHANGED <<asked, Environment>>

Stopped(k) ==
    /\ running' = [running EXCEPT ![k] = 0]
    /\ hls' = [hls EXCEPT ![k] = 0]

\* `delete_stream`: 204 when a session was stopped, 500 when its cleanup could
\* not be confirmed (the session is gone from the registry all the same).
DeleteStream(r) ==
    /\ Looking(r, "delete", {"", ".ts", ".m3u8"})
    /\ LET k == request[r].key IN
       \/ running[k] = 0 /\ Answer(r, Code(404)) /\ UNCHANGED <<running, hls>>
       \/ running[k] # 0 /\ Stopped(k) /\ \E c \in {204, 500} : Answer(r, Code(c))
    /\ UNCHANGED <<asked, born, status, cut, feed, lessee>>

\* `get_or_subscribe` of the continuous route: the client joins the session's
\* channel at its end, with a closed keyframe gate.
StreamFile(r) ==
    /\ Looking(r, "file", {"", ".ts"})
    /\ UNCHANGED asked
    /\ \/ StreamStartError(r)
       \/ LET k == request[r].key IN
          /\ Subscribe(k)
          /\ request' = [request EXCEPT ![r] =
                 [at |-> "body", key |-> k, of |-> running'[k],
                  next |-> Len(feed[running'[k]]) + 1, open |-> FALSE, out |-> <<>>]]
          /\ UNCHANGED <<hls, status, cut, feed, told, lessee>>

Behind(r) == Len(feed[request[r].of]) + 1 - request[r].next

\* `gate.push`: a closed gate opens at a key frame and holds the rest back.
Passes(open, event) == open \/ event = "key"

\* `reset_stream_keyframe_gate`
ResetGate == FALSE

\* `stream_session_response`: one event of the channel for a continuous client.
\* A client further behind than the channel's capacity has lagged: it resumes
\* at the oldest retained event with its gate reset, like after an announced
\* discontinuity.  The end of the session ends the body.
StreamSessionResponse(r) ==
    /\ request[r].at = "body"
    /\ LET me == request[r]
           event == feed[me.of][me.next] IN
       \/ /\ Behind(r) > ChannelCap
          /\ request' = [request EXCEPT ![r].next = Len(feed[me.of]) + 1 - ChannelCap,
                                        ![r].open = ResetGate /\ @]
          /\ UNCHANGED told
       \/ /\ Behind(r) \in 1..ChannelCap
          /\ event = "gap"
          /\ request' = [request EXCEPT ![r].next = @ + 1, ![r].open = ResetGate /\ @]
          /\ UNCHANGED told
       \/ /\ Behind(r) \in 1..ChannelCap
          /\ event # "gap"
          /\ request' = [request EXCEPT ![r].next = @ + 1,
                                        ![r].open = Passes(@, event),
                                        ![r].out = IF Passes(me.open, event)
                                                   THEN Append(@, me.next) ELSE @]
          /\ UNCHANGED told
       \/ /\ Behind(r) = 0
          /\ running[me.key] # me.of
          /\ Answer(r, Code(200))
    /\ UNCHANGED <<asked, Environment>>

-----------------------------------------------------------------------------
(* The compatibility surface.                                              *)

\* A compatibility request mints a playback token for the session its
\* parameters select, and opens that session (AceLeases has the lease itself).
AceOpens(t, params) ==
    /\ lessee[t] = {}
    /\ \E id \in AceSelectedStream(params) :
         LET k == <<AceNetwork, id>> IN
         /\ k \in SessionKeys
         /\ Subscribe(k)
         /\ hls' = [hls EXCEPT ![k] = running'[k]]
         /\ lessee' = [lessee EXCEPT ![t] = {k}]
    /\ UNCHANGED <<status, cut, feed, request, told, asked>>

\* The token is stopped, expires or is evicted.
AceRevoked(t) ==
    /\ lessee[t] # {}
    /\ lessee' = [lessee EXCEPT ![t] = {}]
    /\ UNCHANGED <<running, hls, born, status, cut, feed, request, told, asked>>

\* `ace_hls_segment`: the token is validated, then the packager looked up.
AceHlsSegment(r, t, n) ==
    /\ request[r] = Unasked
    /\ asked[r] < MaxAsked
    /\ asked' = [asked EXCEPT ![r] = @ + 1]
    /\ \/ /\ \A k \in lessee[t] : hls[k] = 0
          /\ Answer(r, Code(404))
       \/ \E k \in lessee[t] :
            /\ hls[k] # 0
            /\ request' = [request EXCEPT ![r] =
                   [at |-> "validate", token |-> t, key |-> k, pkg |-> hls[k], seg |-> n]]
            /\ UNCHANGED told
    /\ UNCHANGED Environment

\* The lookup has returned: the token must still stand for the same session.
AnswerSegment(r) ==
    LET me == request[r] IN
    Answer(r, IF lessee[me.token] = {me.key} THEN SegmentOf(me.pkg, me.seg) ELSE Code(404))

Revalidate(r) ==
    /\ request[r].at = "validate"
    /\ AnswerSegment(r)
    /\ UNCHANGED <<asked, Environment>>

\* `ace_stat`: "dl" with the session's figures, "idle" when the token is valid
\* but nothing runs, an error when it is not.
AceStat(r, t) ==
    /\ request[r] = Unasked
    /\ asked[r] < MaxAsked
    /\ asked' = [asked EXCEPT ![r] = @ + 1]
    /\ Answer(r, Code(IF lessee[t] = {} THEN 404
                      ELSE IF \E k \in lessee[t] : running[k] # 0 THEN 200 ELSE 204))
    /\ UNCHANGED Environment

\* `resolve_server_api_selector`: an infohash or magnet offline, a content id
\* or URL by a fetch that may fail.
ServerApiResolves(params) ==
    CASE Selector(params) = "missing" -> {404}
      [] Selector(params) \in {"infohash", "magnet"} ->
            {IF ResolveOffline(params) = {} THEN 404 ELSE 200}
      [] OTHER -> {200, 404}

\* `server_api`: a content id is only ever echoed, the version and status
\* methods always answer, an unknown method is an error in the envelope.
ServerApi(r, method, params) ==
    /\ request[r] = Unasked
    /\ asked[r] < MaxAsked
    /\ asked' = [asked EXCEPT ![r] = @ + 1]
    /\ \E c \in CASE method = "status" -> {200}
                  [] method = "get_content_id" ->
                        {IF Selector(params) \in {"content_id", "query"} THEN 200 ELSE 404}
                  [] method = "analyze" -> ServerApiResolves(params)
                  [] OTHER -> {404} : Answer(r, Code(c))
    /\ UNCHANGED Environment

-----------------------------------------------------------------------------
(* The session and its packager, as the handlers see them.                 *)

\* The session ends by itself, or is reaped.
SessionEnds(k) ==
    /\ running[k] # 0
    /\ Stopped(k)
    /\ UNCHANGED <<born, status, cut, feed, request, told, lessee, asked>>

\* The packager cuts a segment and is ready, loses its source, or gives up.
PackagerMoves(p) ==
    /\ \E k \in SessionKeys : hls[k] = p
    /\ status[p] # "failed"
    /\ \/ /\ cut[p] < MaxSegs
          /\ cut' = [cut EXCEPT ![p] = @ + 1]
          /\ status' = [status EXCEPT ![p] = "ready"]
       \/ /\ status[p] = "ready"
          /\ \E s \in {"recovering", "failed"} : status' = [status EXCEPT ![p] = s]
          /\ UNCHANGED cut
    /\ UNCHANGED <<running, hls, born, feed, request, told, lessee, asked>>

\* The session broadcasts a key frame, a chunk that depends on the chunk
\* before it, or a discontinuity; without a receiver it is lost.
Broadcasts(n, event) ==
    /\ \E k \in SessionKeys : running[k] = n
    /\ \E r \in Callers : request[r].at = "body" /\ request[r].of = n
    /\ Len(feed[n]) < FeedLen
    /\ feed' = [feed EXCEPT ![n] = Append(@, event)]
    /\ UNCHANGED <<running, hls, born, status, cut, request, told, lessee, asked>>

ApiNext ==
    \/ \E r \in Callers :
         \/ \E w \in Wanted : Arrives(r, w)
         \/ GetOrStartHls(r)
         \/ AwaitHlsPlaylist(r)
         \/ Recheck(r)
         \/ StreamSegment(r)
         \/ StreamStatus(r)
         \/ DeleteStream(r)
         \/ StreamFile(r)
         \/ StreamSessionResponse(r)
         \/ Revalidate(r)
         \/ \E method \in {"status", "get_content_id", "analyze", "unknown"}, p \in Offers :
              ServerApi(r, method, p)
         \/ \E t \in Lessees : AceStat(r, t) \/ \E n \in 1..MaxSegs : AceHlsSegment(r, t, n)
    \/ \E t \in Lessees : AceRevoked(t) \/ \E p \in Offers : AceOpens(t, p)
    \/ \E k \in SessionKeys : SessionEnds(k)
    \/ \E n \in Numbers :
         \/ PackagerMoves(n)
         \/ \E event \in {"key", "mid", "gap"} : Broadcasts(n, event)

ApiSpec == ApiInit /\ [][ApiNext]_apiVars

-----------------------------------------------------------------------------
(* Properties.                                                             *)

\* Every identifier the listing and the playlist URLs show reaches, through any
\* native route, the session it was shown for; and the infohash the control API
\* reports for a selector is the one the compatibility routes play for it.
IdsRoundTrip ==
    /\ \A p \in Offers : Selector(p) \in {"infohash", "magnet"} /\ ~Given(p, "id") =>
          {<<"", h>> : h \in ResolveOffline(p)} = AceSelectedStream(p)
    /\ \A k \in SessionKeys : running[k] # 0 =>
          NativeStreamId(k[1], NativePublicStreamId(k[1], k[2])) = {k[2]}

\* The chunks a continuous client is given: each is a key frame or directly
\* follows, in what the session broadcast, the chunk given before it.
BodiesDecode ==
    \A r \in Callers : request[r].at = "body" =>
        LET out == request[r].out
            log == feed[request[r].of] IN
        \A i \in 1..Len(out) :
            log[out[i]] = "key" \/ (i > 1 /\ out[i - 1] = out[i] - 1)

\* An answered playlist or segment comes from the packager that stands under
\* its key when the answer is given (for a compatibility segment: under a key
\* its token stands for), and the segment is retained; and only the routes
\* that play start a session.
AnswersAreCurrent ==
    /\ \A r \in Callers : told'[r] # told[r] /\ told'[r].code = 200 /\ told'[r].pkg # 0 =>
         IF request[r].at = "validate"
         THEN /\ lessee[request[r].token] = {request[r].key}
              /\ told'[r].segs \subseteq Held(told'[r].pkg)
         ELSE hls[request[r].key] = told'[r].pkg
    /\ born' > born =>
         \/ \E t \in Lessees : lessee'[t] # lessee[t]
         \/ \E r \in Callers : request[r].at = "lookup" /\ request'[r].at \in {"playlist", "body"}

\* What a client of the playback surface can rely on: identifiers that lead
\* back to their session, bodies that decode across lag and discontinuities,
\* and answers that are never from a packager or a token replaced meanwhile.
ApiIsSound == [](IdsRoundTrip /\ BodiesDecode) /\ [][AnswersAreCurrent]_apiVars
=============================================================================
