---------------------------- MODULE MCTopicOverlap ----------------------------
(* TopicHandlers for TLC: a pattern whose prefix and suffix overlap in the name  *)
(* of a plain topic.                                                            *)
EXTENDS TopicHandlers, TLC

CONSTANT s1

MCPatterns == {[prefix |-> <<"beacon">>, suffix |-> <<"v2">>]}
MCPlainTopics == {<<"beacon", "v2">>}
MCDigests == {"d1"}
MCNumberOf == ("0" :> 0)
MCConfigs == {{"encoder", "processor"}}
=============================================================================
