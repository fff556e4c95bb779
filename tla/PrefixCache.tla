------------------------------ MODULE PrefixCache ------------------------------
(***************************************************************************)
(* Prefix-cache routing (routing/prefix_cache.rs) inside select_backend's  *)
(* loop: a request's prompt is reduced to a prefix, the prefix to a key,   *)
(* and the key is looked up on the ring among the candidates; a backend    *)
(* whose breaker refuses leaves the candidates and the next one is looked  *)
(* up.  Which backends are candidates when a request arrives, and which    *)
(* refuse, is up to the environment (Router).  A claimed backend counts as *)
(* connected at once; LeastLoaded has the steps in between.                *)
(***************************************************************************)
EXTENDS HashRing

CONSTANTS
  Requests,
  Chars,            \* what texts are made of
  Space,            \* the separator of `join`
  PrefixCharLimit,  \* prefix_token_count * 4
  Bodies            \* the request bodies that occur

\* A body is nothing (no JSON), chat messages, a prompt, or neither.  The content
\* of a message is a text, an array of parts, or something else; a prompt is
\* kept as a single content.
Texts   == Seq(Chars)
Part    == [isText : BOOLEAN, text : Texts]
Content == [form : {"string", "array", "other"}, parts : Seq(Part)]
Body    == [kind : {"absent", "messages", "prompt", "other"}, contents : Seq(Content)]

VARIABLES
  points,    \* HashRing.points
  keyOf,     \* hash_key on the prefixes that occur
  req        \* the handlers

vars == <<points, keyOf, req>>

-----------------------------------------------------------------------------
(* extract_prefix *)

Join(texts) ==
  IF texts = <<>> THEN <<>>
  ELSE FoldLeft(LAMBDA acc, t : acc \o <<Space>> \o t, Head(texts), Tail(texts))

TextParts(c) == SelectSeq(c.parts, LAMBDA p : p.isText)

\* content_text returns Some.
HasText(c) == c.form # "other" /\ TextParts(c) # <<>>

ContentText(c) == Join([i \in DOMAIN TextParts(c) |-> TextParts(c)[i].text])

Text(body) ==
  IF body.kind \in {"messages", "prompt"}
  THEN LET said == SelectSeq(body.contents, HasText)
       IN  Join([i \in DOMAIN said |-> ContentText(said[i])])
  ELSE <<>>

\* The first PrefixCharLimit characters of the text.
Prefix(body) ==
  LET text == Text(body)
  IN  [i \in {j \in DOMAIN text : j <= PrefixCharLimit} |-> text[i]]

TextOf   == [b \in Bodies |-> Text(b)]
PrefixOf == [b \in Bodies |-> Prefix(b)]
KeyTexts == {PrefixOf[b] : b \in Bodies} \ {<<>>}

-----------------------------------------------------------------------------
NoBackend == -1

Idle == [at |-> "idle", body |-> [kind |-> "absent", contents |-> <<>>],
         prefix |-> <<>>, cands |-> {}, backend |-> NoBackend]

Handler == [at : {"idle", "select", "sent"}, body : Bodies \union {Idle.body},
            prefix : KeyTexts \union {<<>>}, cands : SUBSET Backends, backend : Backends \union {NoBackend}]

Init ==
  /\ \E hashOf \in [Backends \X VNodes -> Hashes] : points = New(hashOf)
  /\ keyOf \in [KeyTexts -> Hashes]
  /\ req = [r \in Requests |-> Idle]

\* The request's body is read and pool.routable() gives its candidates.
Arrive(r, body, routable) ==
  /\ req[r].at = "idle"
  /\ req' = [req EXCEPT ![r] = [req[r] EXCEPT !.at = "select", !.body = body,
                                              !.prefix = PrefixOf[body],
                                              !.cands = routable]]
  /\ UNCHANGED <<points, keyOf>>

Active(b) == Cardinality({r \in Requests : req[r].at = "sent" /\ req[r].backend = b})

\* The first candidate with the fewest connections.
FewestConnections(cands, b) ==
  /\ b \in cands
  /\ \A c \in cands : Active(b) < Active(c) \/ (Active(b) = Active(c) /\ b <= c)

\* Mutant of Selected: keys are spread by the number of candidates.
SelectedModulo(h, b) ==
  LET key  == keyOf[h.prefix]
      rank == Cardinality({c \in h.cands : c < b})
  IN  IF h.prefix = <<>>
      THEN FewestConnections(h.cands, b)
      ELSE b \in h.cands /\ rank = key % Cardinality(h.cands)

\* select returns b.
Selected(h, b) ==
  LET start == StartOf(points, keyOf[h.prefix])
  IN  IF h.prefix = <<>>
      THEN FewestConnections(h.cands, b)
      ELSE \E i \in 0 .. Len(points) - 1 :
             Found(points, start, h.cands, i) /\ b = OnWalk(points, start, i)

\* try_begin admits the request, or refuses: then the backend is no candidate
\* any more.
Claim(r, b) ==
  LET h == req[r]
  IN  /\ h.at = "select" /\ h.cands # {} /\ Selected(h, b)
      /\ \/ req' = [req EXCEPT ![r] = [h EXCEPT !.at = "sent", !.backend = b]]
         \/ req' = [req EXCEPT ![r] = [h EXCEPT !.cands = h.cands \ {b}]]
      /\ UNCHANGED <<points, keyOf>>

\* The request ends, or no candidate is left for it.
Ends(r) ==
  /\ req[r].at = "sent" \/ (req[r].at = "select" /\ req[r].cands = {})
  /\ req' = [req EXCEPT ![r] = Idle]
  /\ UNCHANGED <<points, keyOf>>

Next ==
  \E r \in Requests :
    \/ \E body \in Bodies, routable \in SUBSET Backends : Arrive(r, body, routable)
    \/ \E b \in Backends : Claim(r, b)
    \/ Ends(r)

Spec == Init /\ [][Next]_vars

-----------------------------------------------------------------------------
(* Properties *)

\* The requests that were sent out by their prefix.
ByPrefix == {r \in Requests : req[r].at = "sent" /\ req[r].prefix # <<>>}

\* Two texts are the same as far as the router looks.
SamePrefix(s, t) ==
  \A i \in DOMAIN s \union DOMAIN t :
    i <= PrefixCharLimit => i \in DOMAIN s /\ i \in DOMAIN t /\ s[i] = t[i]

\* "Only keys from the removed backend may move" (the test of ring.rs): of two
\* requests whose prompts begin alike, the one with fewer candidates goes to
\* the same backend as the other unless that backend is none of its
\* candidates, whichever backends refused either of them on the way.
OnlyLostKeysMove ==
  \A r, s \in ByPrefix :
    (/\ SamePrefix(TextOf[req[r].body], TextOf[req[s].body])
     /\ req[s].cands \subseteq req[r].cands
     /\ req[r].backend \in req[s].cands) => req[s].backend = req[r].backend

\* As long as a candidate is left, select returns one: every backend is on the
\* ring, and the walk comes round to it wherever the key lies.
AlwaysSelects ==
  \A r \in Requests :
    req[r].at = "select" /\ req[r].cands # {} =>
      \E b \in req[r].cands : Selected(req[r], b)
=============================================================================
