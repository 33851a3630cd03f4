------------------------------- MODULE AuthScope -------------------------------
(***************************************************************************)
(* Authorization scopes of the MoQ extension: the builder, what a scope       *)
(* matches, and its encoding into the origin_info of a challenge              *)
(* (extensions/moq/src/auth_scope.cpp and authorization_info.cpp).            *)
(*                                                                         *)
(* A namespace is a sequence of byte strings, a track name a byte string; a    *)
(* rule matches either.  WildcardMatch is the rule of type 0xFF.              *)
(***************************************************************************)
EXTENDS Serialization

Action == 0..8
CLIENT_SETUP == 0
SERVER_SETUP == 1
PUBLISH_NAMESPACE == 2
SUBSCRIBE == 4
PUBLISH == 6
FETCH == 7
TRACK_STATUS == 8

MATCH_EXACT == 0
MATCH_PREFIX == 1
MATCH_SUFFIX == 2
MATCH_CONTAINS == 3
MatchType == MATCH_EXACT..MATCH_CONTAINS

Mark == RADIX - 1    (* 0xFF *)
Rule(match_type, pattern) == [match_type |-> match_type, pattern |-> pattern]
Wildcard == Rule(Mark, <<>>)

-----------------------------------------------------------------------------
(* NamespaceMatchRule::matches and TrackNameMatchRule::matches: equality from   *)
(* some start on.                                                            *)
EqualFrom(name, start, pattern) ==
  /\ start >= 0 /\ start + Len(pattern) <= Len(name)
  /\ \A i \in DOMAIN pattern : name[start + i] = pattern[i]

(* Where each match type looks.  In the variant a suffix is looked for at the   *)
(* front.                                                                    *)
StartsAtFront(match_type, name, pattern) ==
  IF match_type = MATCH_CONTAINS THEN 0..(Len(name) - Len(pattern)) ELSE {0}

Starts(match_type, name, pattern) ==
  CASE match_type \in {MATCH_EXACT, MATCH_PREFIX} -> {0}
    [] match_type = MATCH_SUFFIX -> {Len(name) - Len(pattern)}
    [] match_type = MATCH_CONTAINS -> 0..(Len(name) - Len(pattern))

matches_namespace(rule, name) ==
  /\ rule.match_type = MATCH_EXACT => Len(name) = Len(rule.pattern)
  /\ \E start \in Starts(rule.match_type, name, rule.pattern) :
        EqualFrom(name, start, rule.pattern)

(* std::search in an empty name ends where it begins, which counts as not        *)
(* found, even for an empty pattern.                                          *)
matches_track(rule, name) ==
  /\ matches_namespace(rule, name)
  /\ rule.match_type = MATCH_CONTAINS => name # <<>>

(* AuthScope::authorizes.                                                    *)
scope_authorizes(scope, action, namespace, track) ==
  /\ Contains(scope.actions, action)
  /\ scope.namespace_match = Wildcard \/ matches_namespace(scope.namespace_match, namespace)
  /\ scope.track_name_match = Wildcard \/ matches_track(scope.track_name_match, track)

(* AuthorizationInfo::authorizes and authorizes_all; an info is its scopes.     *)
authorizes(info, action, namespace, track) ==
  \E i \in DOMAIN info : scope_authorizes(info[i], action, namespace, track)

authorizes_all(info, actions, namespace, track) ==
  \A i \in DOMAIN actions : authorizes(info, actions[i], namespace, track)

-----------------------------------------------------------------------------
(* AuthScope::Builder: a sequence of calls; actions add up, the last rule of    *)
(* each sort stands.                                                         *)
allow_actions(actions) == [call |-> "actions", actions |-> actions]
for_namespace(rule) == [call |-> "namespace", rule |-> rule]
for_track(rule) == [call |-> "track", rule |-> rule]

called(builder, call) ==
  CASE call.call = "actions" -> [builder EXCEPT !.actions = @ \o call.actions]
    [] call.call = "namespace" -> [builder EXCEPT !.namespace_match = call.rule]
    [] call.call = "track" -> [builder EXCEPT !.track_name_match = call.rule]

build(calls) ==
  FoldLeft(called,
           [actions |-> <<>>, namespace_match |-> Wildcard, track_name_match |-> Wildcard],
           calls)

(* The presets.                                                              *)
for_subscriber(namespace, track) ==
  <<build(<<allow_actions(<<CLIENT_SETUP, SUBSCRIBE, FETCH, TRACK_STATUS>>),
            for_namespace(Rule(MATCH_EXACT, namespace)), for_track(Rule(MATCH_EXACT, track))>>)>>

for_publisher(namespace) ==
  <<build(<<allow_actions(<<CLIENT_SETUP, PUBLISH_NAMESPACE, PUBLISH>>),
            for_namespace(Rule(MATCH_EXACT, namespace)), for_track(Wildcard)>>)>>

for_relay ==
  <<build(<<allow_actions([i \in 1..9 |-> i - 1]),
            for_namespace(Wildcard), for_track(Wildcard)>>)>>

-----------------------------------------------------------------------------
(* AuthScope::serialize: counts of one byte and lengths of two, cut to width.   *)
serialize_scope(scope) ==
  LET elements == scope.namespace_match.pattern
      namespace == written(Len(elements), 1)
                     \o FlattenSeq([i \in DOMAIN elements |-> with_length(elements[i], 2)])
      rule(match, pattern) == IF match = Wildcard THEN <<Mark>> ELSE <<match.match_type>> \o pattern
  IN written(Len(scope.actions), 1) \o scope.actions
       \o rule(scope.namespace_match, namespace)
       \o rule(scope.track_name_match, with_length(scope.track_name_match.pattern, 2))

(* AuthScope::deserialize.  The bytes behind the track's rule are not looked at. *)
Byte(bytes, i) == IF i \in DOMAIN bytes THEN bytes[i] ELSE 0

NamespaceLayout(bytes) == <<Fixed(1), Fixed(1)>> \o [i \in 1..Byte(bytes, 2) |-> Prefixed(2)]
TrackLayout == <<Fixed(1), Prefixed(2)>>

read_rule(bytes, layout, pattern(_)) ==
  IF bytes = <<>> THEN Bad("UNEXPECTED_END")
  ELSE IF bytes[1] = Mark THEN Good([rule |-> Wildcard, rest |-> Tail(bytes)])
  ELSE IF bytes[1] \notin MatchType THEN Bad("MALFORMED_DATA")
  ELSE Complete(Read(bytes, layout), LAMBDA read :
    Good([rule |-> Rule(bytes[1], pattern(read.fields)), rest |-> read.rest]))

(* The rules behind the actions.                                             *)
read_rules(actions, bytes) ==
  Then(read_rule(bytes, NamespaceLayout(bytes), LAMBDA fields : From(fields, 3)), LAMBDA namespace :
    Then(read_rule(namespace.rest, TrackLayout, LAMBDA fields : fields[2]), LAMBDA track :
      Good([actions |-> actions, namespace_match |-> namespace.rule,
            track_name_match |-> track.rule])))

deserialize_scope(bytes) ==
  LET count == Byte(bytes, 1)
      present == Slice(bytes, 2, count + 1)
  IN
  IF bytes = <<>> THEN Bad("UNEXPECTED_END")
  ELSE IF \E i \in DOMAIN present : present[i] \notin Action THEN Bad("MALFORMED_DATA")
  ELSE IF Len(present) < count THEN Bad("UNEXPECTED_END")
  ELSE read_rules(present, From(bytes, count + 2))

(* AuthorizationInfo::serialize and deserialize.  A scope that cannot be decoded *)
(* is reported before the end of the bytes behind it.                          *)
serialize_info(info) ==
  written(Len(info), 1)
    \o FlattenSeq([i \in DOMAIN info |-> with_length(serialize_scope(info[i]), 2)])

end_noticed(read, scopes) ==
  IF scopes.error = "OK" /\ read.short THEN Bad("UNEXPECTED_END") ELSE scopes

scopes_of(read) == end_noticed(read, CollectEach(Tail(read.fields), deserialize_scope))

deserialize_info(bytes) ==
  IF bytes = <<>> THEN Bad("UNEXPECTED_END")
  ELSE scopes_of(Read(bytes, <<Fixed(1)>> \o [i \in 1..Byte(bytes, 1) |-> Prefixed(2)]))

(* encode_for_origin_info and decode_from_origin_info.                         *)
encode_for_origin_info(info) == encode(serialize_info(info))

decode_from_origin_info(text) == Then(decode(text), deserialize_info)
=============================================================================
