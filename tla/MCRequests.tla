----------------------------- MODULE MCRequests -----------------------------
EXTENDS RequestIntake

CONSTANTS c1, c2, c3

Get(file, rate, alive) ==
  [ method |-> "GET", file |-> file, rate |-> rate, alive |-> alive,
    cont_len |-> 0, body |-> <<>> ]

Post(cont_len, body) ==
  [ method |-> "POST", file |-> "page", rate |-> 0, alive |-> FALSE,
    cont_len |-> cont_len, body |-> body ]

BODY == [t |-> "body"]

Page     == Get("page", 0, FALSE)
F4m_     == Get("f4m", 0, FALSE)
Chunk(r) == Get("chunk", r, FALSE)

\* One request: of each kind, kept alive or not, of 3 to 10 tokens, a POST's
\* body with and without a CRLFCRLF in it, as long as rbuf and too long for it.
OneRequest ==
  { <<Page>>, <<Get("f4m", 0, TRUE)>>, <<Get("chunk", 40, TRUE)>>,
    <<Get("seg", 0, FALSE)>>, <<Post(0, <<>>)>>, <<Post(2, <<BODY, BODY>>)>>,
    <<Post(3, <<CRLF, CRLF, BODY>>)>>, <<Post(5, <<BODY, BODY, BODY, BODY, BODY>>)>> }

\* Several, one behind the other.
Pipelined ==
  { <<Page, Chunk(20)>>, <<F4m_, Chunk(20)>>, <<Chunk(20), F4m_>>, <<Page, Post(1, <<BODY>>)>>,
    <<Post(0, <<>>), Post(1, <<BODY>>)>>, <<Post(1, <<BODY>>), Page>> }

\* The first connection may send any of these, the others ask for a chunk and
\* may be exchanged for one another.
MCStreams ==
  (c1 :> OneRequest \cup Pipelined) @@ (c2 :> {<<Chunk(20)>>}) @@ (c3 :> {<<Chunk(20)>>})

Exchange == Permutations({c2, c3})

\* What the manifest may list, any part of which may come: a rate that reads as
\* 0 behind another, more than fit, or in falling order.
MCManifests == {<<20, 0, 40>>, <<20, 40, 60, 80>>, <<60, 20>>}
=============================================================================
