----------------------------- MODULE MCPlayback -----------------------------
(***************************************************************************)
(* Playback, eight components side by side: the HTTP handlers (StreamApi), *)
(* the HLS packager (LiveHls), the transcoding child and its probe of      *)
(* the audio (HlsAudio, in two parts), the byte meters (LiveStats), the    *)
(* startup buffer (StartupBuffer), the transport stream filters (TsMedia)  *)
(* and the output credits (OutputCredits). They share no state, so each is *)
(* checked alone: `part' says which one a behaviour is about, and the      *)
(* others stay in their initial state.                                     *)
(***************************************************************************)
EXTENDS StreamApi, LiveHls, HlsAudio, LiveStats, StartupBuffer, TsMedia, OutputCredits, TLC

VARIABLE part

Wants(route, net, id, suffix) == [route |-> route, net |-> net, id |-> id, suffix |-> suffix, seg |-> 1]

\* Requests for one stream under two spellings of its id, for streams that do not
\* exist and for ids that are empty
MCWanted ==
  {Wants("file", "ace", <<"", "AB">>, ".m3u8"), Wants("file", "ace", <<"", "ab">>, ""),
   Wants("file", "ace", <<"", "">>, ".ts"), Wants("segment", "ace", <<"ih:", "ab">>, ".ts"),
   Wants("delete", "ace", <<"ih:", "AB">>, ".ts"), Wants("status", "other", <<"", "x">>, ""),
   Wants("delete", "ace", <<"ih:", "zz">>, "")}
MCLower == "ab" :> "ab" @@ "AB" :> "ab"

\* Query strings of the compatibility API
MCOffers ==
  {"infohash" :> <<"", "AB">>, "id" :> <<"local:", "a">>, "url" :> <<"http:", "u">>,
   "content_id" :> <<"", "">> @@ "infohash" :> <<"", "ab">>, "query" :> <<"", "ab">>,
   "magnet" :> <<"", "AB">> @@ "infohash" :> <<"", "">>}

PlayParts == {"api", "hls", "child", "probe", "stats", "buffer", "media", "credits"}
playVars == <<part, apiVars, hlsVars, childVars, probeVars, statsVars, bufferVars,
               mediaVars, creditVars>>

\* A component that is not the one looked at starts in one fixed state
PlayInit ==
  /\ part \in PlayParts
  /\ ApiInit /\ HlsInit /\ ChildInit /\ ProbeInit
  /\ StatsInit /\ BufferInit /\ MediaInit /\ CreditsInit
  /\ part = "hls" \/ (hworker.mode = "native" /\ hlsPkg.psi = "selected" /\ hlsPkg.titled)
  /\ part = "child" \/ \A k \in Kids : ~kid[k].fed
  /\ part = "probe" \/ \A f \in DOMAIN frames : frames[f].kind = "l2"
  /\ part = "media" \/ (stage = "resync" /\ ~gate.titled /\ ~gate.locked)

PlayNext ==
  \/ /\ part = "api" /\ ApiNext
     /\ UNCHANGED <<part, hlsVars, childVars, probeVars, statsVars, bufferVars,
                   mediaVars, creditVars>>
  \/ /\ part = "hls" /\ HlsNext
     /\ UNCHANGED <<part, apiVars, childVars, probeVars, statsVars, bufferVars,
                   mediaVars, creditVars>>
  \/ /\ part = "child" /\ ChildNext
     /\ UNCHANGED <<part, apiVars, hlsVars, probeVars, statsVars, bufferVars,
                   mediaVars, creditVars>>
  \/ /\ part = "probe" /\ ProbeNext
     /\ UNCHANGED <<part, apiVars, hlsVars, childVars, statsVars, bufferVars,
                   mediaVars, creditVars>>
  \/ /\ part = "stats" /\ StatsNext
     /\ UNCHANGED <<part, apiVars, hlsVars, childVars, probeVars, bufferVars,
                   mediaVars, creditVars>>
  \/ /\ part = "buffer" /\ BufferNext
     /\ UNCHANGED <<part, apiVars, hlsVars, childVars, probeVars, statsVars, mediaVars,
                   creditVars>>
  \/ /\ part = "media" /\ MediaNext
     /\ UNCHANGED <<part, apiVars, hlsVars, childVars, probeVars, statsVars,
                   bufferVars, creditVars>>
  \/ /\ part = "credits" /\ CreditsNext
     /\ UNCHANGED <<part, apiVars, hlsVars, childVars, probeVars, statsVars,
                   bufferVars, mediaVars>>

PlaySpec == PlayInit /\ [][PlayNext]_playVars

\* What reaches a player can be played: the playlist a client follows is coherent
\* through gaps, evictions, recoveries and a late child process (LiveHls); a child
\* process is contained for its whole life, and is given audio exactly when every
\* frame of it is accepted (HlsAudio); the buffer opens at a clean start
\* (StartupBuffer), the filters lose no packet and let none through early (TsMedia),
\* and a producer is credited exactly for what was kept (OutputCredits).
PlaybackIsSound ==
  /\ part = "hls" => PlaylistIsCoherent
  /\ part = "child" => ChildIsContained
  /\ part = "probe" => ProbeIsExact
  /\ part = "buffer" => StartIsClean
  /\ part = "media" => MediaIsClean
  /\ part = "credits" => CreditsAreExact

\* Answers are about the session and the packager that exist when they are given
\* (StreamApi), and the rates they report are those of the source (LiveStats).
AnswersAreHonest == ApiIsSound /\ StatsAreHonest
=============================================================================
