---------------------------- MODULE MCTopicHandlers ----------------------------
(* TopicHandlers for TLC: a pattern with a suffix and one without, whose     *)
(* prefixes begin alike, and a plain topic that begins like both.            *)
EXTENDS TopicHandlers, TLC

CONSTANTS s1, s2

MCPatterns == {[prefix |-> <<"beacon", "attestation">>, suffix |-> <<>>],
               [prefix |-> <<"beacon">>, suffix |-> <<"v2">>]}
MCPlainTopics == {<<"beacon", "attestation">>}
MCDigests == {Nil, "d1"}
MCNumberOf == ("0" :> 0) @@ ("1" :> 1)
MCConfigs == {{"encoder", "processor"}, {"decoder", "validator"}, {"processor"}}

\* No name is of the shape of both patterns, or of a pattern and the topic, or
\* has a prefix and a suffix that overlap.
ASSUME Separate

\* The handles are alike.
SubSymmetry == Permutations(Subs)
=============================================================================
