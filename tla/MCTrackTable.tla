---------------------------- MODULE MCTrackTable ----------------------------
EXTENDS TrackTable

Entry(num, type, codec, default, private, media) ==
  [num |-> num, type |-> type, codec |-> codec, default |-> default,
   private |-> private, media |-> media]

\* What entries of real files say.
Codings == {<<"video", "AVC", "full", {"video"}>>, <<"video", "MPEG4", "full", {"video"}>>,
            <<"video", "MSCOMP", "none", {"video"}>>, <<"audio", "AAC", "full", {"audio"}>>,
            <<"audio", "AC3", "none", {"audio"}>>, <<"audio", "MP3", "none", {"audio"}>>}

\* Entries that lack a child, have one too many or contradict themselves, and
\* private data that does not serve.
OddCodings ==
  {<<"video", "AVC", p, {"video"}>> : p \in {"none", "short", "bad", "big"}}
  \cup {<<"video", "AVC", "full", m>> : m \in {{}, {"audio"}, {"video", "audio"}}}
  \cup {<<"audio", "AAC", p, {"audio"}>> : p \in {"none", "empty", "big"}}
  \cup {<<"audio", "AAC", "full", m>> : m \in {{}, {"video"}, {"video", "audio"}}}
  \cup {<<"audio", "PCM", "full", {"audio"}>>, <<"audio", "PCM", "none", {"audio"}>>,
        <<"audio", "AC3", "none", {}>>, <<"audio", "AVC", "full", {"audio"}>>,
        <<"video", "MSCOMP", "none", {}>>, <<"video", "AAC", "full", {"video"}>>,
        <<"video", "other", "none", {"video"}>>, <<"other", "AVC", "full", {"video"}>>,
        <<"other", "AAC", "full", {"audio"}>>, <<"other", "other", "none", {}>>}

Of(codings, nums) ==
  {Entry(n, c[1], c[2], d, c[3], c[4]) : n \in nums, c \in codings, d \in BOOLEAN}

\* Three tracks: of different numbers, with two that claim the same, with two
\* video tracks, with two audio tracks.
V(n) == Entry(n, "video", "AVC", TRUE, "full", {"video"})
A(n) == Entry(n, "audio", "AAC", FALSE, "full", {"audio"})

Longer ==
  {<<V(1), A(2), A(3)>>, <<A(1), A(1), V(2)>>, <<A(2), V(1), A(1)>>,
   <<V(1), A(2), V(3)>>, <<A(3), V(3), V(2)>>}

Odd == Of(OddCodings, 0..2)

MCFiles ==
  {<<e>> : e \in Of(Codings, 1..2) \cup Odd}
  \cup (Of(Codings, 1..2) \X Of(Codings, 1..2))
  \cup (Odd \X {V(1), A(2)}) \cup ({V(1), A(2)} \X Odd)
  \cup Longer
=============================================================================
