----------------------------- MODULE MCStrategies -----------------------------
(***************************************************************************)
(* Strategies for TLC: backends of different weights, and a counter whose  *)
(* size most sums of them do not divide; two conversations that begin      *)
(* alike, one a prompt and one a chat with an empty message and an array   *)
(* with a part that is no text, and a body without any text; requests and  *)
(* handlers are interchangeable.                                           *)
(***************************************************************************)
EXTENDS Strategies, Sequences, TLC

MCWeight == (0 :> 1) @@ (1 :> 2) @@ (2 :> 1)

Str(t)    == [form |-> "string", parts |-> <<[isText |-> TRUE, text |-> t]>>]
Arr(ts)   == [form |-> "array",
              parts |-> <<[isText |-> FALSE, text |-> <<>>]>>
                          \o [i \in DOMAIN ts |-> [isText |-> TRUE, text |-> ts[i]]]]
Null      == [form |-> "other", parts |-> <<>>]
Chat(cs)  == [kind |-> "messages", contents |-> cs]

MCBodies ==
  { Chat(<<Str(<<"a">>), Null, Arr(<< <<"b">>, <<"a">> >>)>>),
    [kind |-> "prompt", contents |-> <<Str(<<"a", " ", "b", "b">>)>>],
    [kind |-> "other", contents |-> <<>>] }

Symmetry == Permutations(Requests)
=============================================================================
